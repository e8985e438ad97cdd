------------------------- MODULE DomainEventsProofs -------------------------
(***************************************************************************)
(* Theorems about DomainEvents, for any number of transactions and keys,   *)
(* any threshold and any number of mishaps.                                *)
(***************************************************************************)
EXTENDS DomainEvents, TLAPS

-----------------------------------------------------------------------------
(* Types *)

LEMMA TypeInit == Init => TypeOK
<1> SUFFICES ASSUME Init PROVE TypeOK
    OBVIOUS
<1> USE DEF Init
<1>1. TxType
    BY DEF TxType, TxPcs
<1>2. TaskType
    BY DEF TaskType, NoTask, TaskPcs
<1>3. SetsType
    BY DEF SetsType
<1>4. NumbersType
    BY MishapsAssumption DEF NumbersType
<1>5. FlagsType
    BY DEF FlagsType
<1>6. KeysFit
    BY DEF KeysFit
<1>7. TasksFit
    BY DEF TasksFit, NoTask
<1> QED BY <1>1, <1>2, <1>3, <1>4, <1>5, <1>6, <1>7 DEF TypeOK

\* The steps of a business transaction keep the types.
LEMMA TypeBusiness ==
    ASSUME TypeOK, NEW t \in Txs,
           \/ \E k \in Keys : LookUp(t, k)
           \/ Insert(t)
           \/ \E b \in BOOLEAN : Finish(t, b)
    PROVE  TypeOK'
<1> USE DEF redis, results
<1>0. \A u \in Txs : tx[u].pc # "unborn" => tx[u].key \in Keys
    BY DEF TypeOK, TxType, KeysFit
<1>1. ASSUME NEW k \in Keys, LookUp(t, k) PROVE TypeOK'
    <2>1. TxType'
        BY <1>1 DEF TypeOK, TxType, LookUp, TxPcs
    <2>2. SetsType'
        BY <1>0, <1>1 DEF TypeOK, SetsType, LookUp, TxType
    <2>3. KeysFit'
        BY NoKeyAssumption, <1>1 DEF TypeOK, KeysFit, LookUp, TxType
    <2>4. TasksFit'
        BY <1>1 DEF TypeOK, TasksFit, LookUp, TxType, TaskType, NoTask
    <2>5. TaskType' /\ NumbersType' /\ FlagsType'
        BY <1>1 DEF TypeOK, LookUp, TaskType, NumbersType, FlagsType
    <2> QED BY <2>1, <2>2, <2>3, <2>4, <2>5 DEF TypeOK
<1>2. CASE Insert(t)
    <2>1. TxType'
        BY <1>2 DEF TypeOK, TxType, Insert, TxPcs
    <2>2. SetsType'
        BY <1>0, <1>2 DEF TypeOK, SetsType, Insert, TxType
    <2>3. KeysFit'
        BY NoKeyAssumption, <1>2 DEF TypeOK, KeysFit, Insert, TxType
    <2>4. TasksFit'
        BY <1>2 DEF TypeOK, TasksFit, Insert, TxType, TaskType, NoTask
    <2>5. TaskType' /\ NumbersType' /\ FlagsType'
        BY <1>2 DEF TypeOK, Insert, TaskType, NumbersType, FlagsType
    <2> QED BY <2>1, <2>2, <2>3, <2>4, <2>5 DEF TypeOK
<1>3. ASSUME NEW b \in BOOLEAN, Finish(t, b) PROVE TypeOK'
    <2>1. TxType'
        BY <1>3 DEF TypeOK, TxType, Finish, Scheduled, TxPcs
    <2>2. TaskType'
        BY <1>3 DEF TypeOK, TaskType, Finish, Scheduled, TaskPcs, NoTask
    <2>3. SetsType'
        BY <1>0, <1>3 DEF TypeOK, SetsType, Finish, Scheduled, TxType
    <2>4. KeysFit'
        BY NoKeyAssumption, <1>3 DEF TypeOK, KeysFit, Finish, Scheduled, TxType
    <2>5. TasksFit'
        BY <1>3 DEF TypeOK, TasksFit, Finish, Scheduled, TxType, TaskType, NoTask
    <2>6. NumbersType' /\ FlagsType'
        BY <1>3 DEF TypeOK, Finish, Scheduled, NumbersType, FlagsType
    <2> QED BY <2>1, <2>2, <2>3, <2>4, <2>5, <2>6 DEF TypeOK
<1> QED BY <1>1, <1>2, <1>3

\* The steps of a task keep the types, and so does the death of a process.
LEMMA TypeTask ==
    ASSUME TypeOK, NEW t \in Txs,
           \/ Report(t) \/ Crash(t)
           \/ \E b \in BOOLEAN : Record(t, b) \/ Count(t, b) \/ Mute(t, b) \/ End(t, b)
    PROVE  TypeOK'
<1> USE DEF business, redis, results, Fault, MayFail
<1>0. \A u \in Txs : task[u].pc # "none" => tx[u].key \in Keys
    BY DEF TypeOK, TxType, KeysFit, TasksFit
<1>1. CASE Report(t)
    <2>1. TaskType'
        BY ZenonT(60), <1>1 DEF TypeOK, TaskType, Report, TaskPcs, NoTask
    <2>2. FlagsType'
        BY <1>1 DEF TypeOK, FlagsType, Report, TaskType
    <2>3. TasksFit'
        BY <1>1 DEF TypeOK, TasksFit, Report, TxType, TaskType, NoTask
    <2>4. TxType' /\ SetsType' /\ NumbersType' /\ KeysFit'
        BY <1>1 DEF TypeOK, Report, TxType, SetsType, NumbersType, KeysFit
    <2> QED BY <2>1, <2>2, <2>3, <2>4 DEF TypeOK
<1>2. CASE Crash(t)
    <2>1. TxType'
        BY <1>2 DEF TypeOK, TxType, Crash, Lose, Open, TxPcs
    <2>2. TaskType'
        BY ZenonT(60), <1>2 DEF TypeOK, TaskType, Crash, Lose, Open, TaskPcs, NoTask
    <2>3. SetsType'
        BY <1>0, <1>2 DEF TypeOK, SetsType, Crash, Lose, Open, TxType
    <2>4. FlagsType'
        BY <1>2 DEF TypeOK, FlagsType, Crash, Lose, Open, TaskType
    <2>5. KeysFit'
        BY NoKeyAssumption, <1>2 DEF TypeOK, KeysFit, Crash, Lose, Open, TxType
    <2>6. TasksFit'
        BY <1>2 DEF TypeOK, TasksFit, Crash, Lose, Open, TxType, TaskType, NoTask
    <2>7. NumbersType'
        BY MishapsAssumption, <1>2 DEF TypeOK, Crash, Lose, Open, NumbersType
    <2> QED BY <2>1, <2>2, <2>3, <2>4, <2>5, <2>6, <2>7 DEF TypeOK
<1>3. ASSUME NEW b \in BOOLEAN, Record(t, b) PROVE TypeOK'
    <2>1. TaskType'
        BY <1>3 DEF TypeOK, TaskType, Record, TaskPcs, NoTask
    <2>2. NumbersType'
        BY <1>0, MishapsAssumption, <1>3 DEF TypeOK, NumbersType, Record, TxType
    <2>3. TasksFit'
        BY <1>3 DEF TypeOK, TasksFit, Record, TxType, TaskType, NoTask
    <2>4. TxType' /\ SetsType' /\ FlagsType' /\ KeysFit'
        BY <1>3 DEF TypeOK, Record, TxType, SetsType, FlagsType, KeysFit
    <2> QED BY <2>1, <2>2, <2>3, <2>4 DEF TypeOK
<1>4. ASSUME NEW b \in BOOLEAN, Count(t, b) PROVE TypeOK'
    <2>1. TaskType'
        BY <1>4 DEF TypeOK, TaskType, Count, AfterCount, TaskPcs, NoTask
    <2>2. NumbersType'
        BY <1>0, MishapsAssumption, <1>4 DEF TypeOK, NumbersType, Count, AfterCount, TxType
    <2>3. TasksFit'
        BY <1>4 DEF TypeOK, TasksFit, Count, AfterCount, TxType, TaskType, NoTask
    <2>4. TxType' /\ SetsType' /\ FlagsType' /\ KeysFit'
        BY <1>4 DEF TypeOK, Count, AfterCount, TxType, SetsType, FlagsType, KeysFit
    <2> QED BY <2>1, <2>2, <2>3, <2>4 DEF TypeOK
<1>5. ASSUME NEW b \in BOOLEAN, Mute(t, b) PROVE TypeOK'
    <2>1. TaskType'
        BY <1>5 DEF TypeOK, TaskType, Mute, TaskPcs, NoTask
    <2>2. NumbersType'
        BY <1>0, MishapsAssumption, <1>5 DEF TypeOK, NumbersType, Mute, TxType
    <2>3. FlagsType'
        BY <1>5 DEF TypeOK, FlagsType, Mute, TaskType
    <2>4. TasksFit'
        BY <1>5 DEF TypeOK, TasksFit, Mute, TxType, TaskType, NoTask
    <2>5. TxType' /\ SetsType' /\ KeysFit'
        BY <1>5 DEF TypeOK, Mute, TxType, SetsType, KeysFit
    <2> QED BY <2>1, <2>2, <2>3, <2>4, <2>5 DEF TypeOK
<1>6. ASSUME NEW b \in BOOLEAN, End(t, b) PROVE TypeOK'
    <2>1. TaskType'
        BY <1>6 DEF TypeOK, TaskType, End, Lose, TaskPcs, NoTask
    <2>2. SetsType'
        BY <1>0, <1>6 DEF TypeOK, SetsType, End, Lose, TxType
    <2>3. NumbersType'
        BY <1>0, MishapsAssumption, <1>6 DEF TypeOK, NumbersType, End, Lose, TxType
    <2>4. FlagsType'
        BY <1>6 DEF TypeOK, FlagsType, End, Lose, TaskType
    <2>5. TasksFit'
        BY <1>6 DEF TypeOK, TasksFit, End, Lose, TxType, TaskType, NoTask
    <2>6. TxType' /\ KeysFit'
        BY <1>6 DEF TypeOK, End, Lose, TxType, KeysFit
    <2> QED BY <2>1, <2>2, <2>3, <2>4, <2>5, <2>6 DEF TypeOK
<1> QED BY <1>1, <1>2, <1>3, <1>4, <1>5, <1>6

LEMMA TypeNext == TypeOK /\ [Next]_vars => TypeOK'
<1> SUFFICES ASSUME TypeOK, [Next]_vars PROVE TypeOK'
    OBVIOUS
<1>1. ASSUME UNCHANGED vars \/ MuteExpires \/ HourEnds PROVE TypeOK'
    <2>1. UNCHANGED <<business, task, results, mishaps>> /\ mute' \in {mute, FALSE} /\ counter' \in {counter, 0}
        BY <1>1 DEF vars, redis, MuteExpires, HourEnds
    <2>2. TxType' /\ TaskType' /\ KeysFit' /\ TasksFit'
        BY <2>1 DEF TypeOK, business, TxType, TaskType, KeysFit, TasksFit
    <2>3. SetsType' /\ FlagsType'
        BY <2>1 DEF TypeOK, business, results, SetsType, FlagsType
    <2>4. NumbersType'
        BY <2>1 DEF TypeOK, results, NumbersType
    <2> QED BY <2>2, <2>3, <2>4 DEF TypeOK
<1> QED BY <1>1, TypeBusiness, TypeTask DEF Next

\* Every variable keeps its type, whatever fails.
THEOREM TypeCorrect == Spec => []TypeOK
BY TypeInit, TypeNext, PTL DEF Spec

-----------------------------------------------------------------------------
(* The unique key *)

\* Two open transactions with one key have been noticed.
OverlapSeen ==
    \A t, u \in Txs : t # u /\ Open(t) /\ Open(u) /\ tx[t].key = tx[u].key
                        => tx[t].key \in overlap

\* A transaction that found no event finds one at its insertion only if the
\* other one was open when it looked.
AbsentSeen ==
    \A t \in Txs : tx[t].pc = "absent" /\ tx[t].key \in stored => tx[t].key \in overlap

\* FailureNeedsOverlap says nothing of the transactions that have yet to fail.
OverlapInv ==
    /\ OverlapSeen /\ AbsentSeen /\ FailureNeedsOverlap
    /\ \A t \in failed : tx[t].pc = "over"

LEMMA OverlapInit == Init => OverlapInv
BY DEF Init, OverlapInv, OverlapSeen, AbsentSeen, FailureNeedsOverlap, Open

LEMMA OverlapNext == TypeOK /\ OverlapInv /\ [Next]_vars => OverlapInv'
<1> SUFFICES ASSUME TypeOK, OverlapInv, [Next]_vars PROVE OverlapInv'
    OBVIOUS
<1> USE DEF OverlapInv
<1>0. TxType /\ TxType' /\ failed \subseteq Txs
    BY TypeNext DEF TypeOK, SetsType
<1>1. ASSUME NEW t \in Txs, NEW k \in Keys, LookUp(t, k) PROVE OverlapInv'
    <2>1. OverlapSeen'
        BY <1>0, <1>1 DEF LookUp, OverlapSeen, Open, TxType
    <2>2. AbsentSeen'
        BY <1>0, <1>1 DEF LookUp, Existing, AbsentSeen, TxType
    <2>3. FailureNeedsOverlap' /\ (\A u \in failed : tx[u].pc = "over")'
        BY <1>0, <1>1 DEF LookUp, FailureNeedsOverlap, TxType
    <2> QED BY <2>1, <2>2, <2>3
<1>2. ASSUME NEW t \in Txs, Insert(t) PROVE OverlapInv'
    <2>1. OverlapSeen'
        BY <1>0, <1>2 DEF Insert, OverlapSeen, Open, TxType
    <2>2. AbsentSeen'
        BY <1>0, <1>2 DEF Insert, AbsentSeen, TxType
    <2>3. FailureNeedsOverlap' /\ (\A u \in failed : tx[u].pc = "over")'
        BY <1>0, <1>2 DEF Insert, AbsentSeen, FailureNeedsOverlap, TxType
    <2> QED BY <2>1, <2>2, <2>3
<1>3. ASSUME NEW t \in Txs, NEW b \in BOOLEAN, Finish(t, b) PROVE OverlapInv'
    <2>1. OverlapSeen'
        BY <1>0, <1>3 DEF Finish, OverlapSeen, Open, TxType
    <2>2. AbsentSeen'
        BY <1>0, <1>3 DEF Finish, AbsentSeen, OverlapSeen, Open, TxType
    <2>3. FailureNeedsOverlap' /\ (\A u \in failed : tx[u].pc = "over")'
        BY <1>0, <1>3 DEF Finish, FailureNeedsOverlap, TxType
    <2> QED BY <2>1, <2>2, <2>3
<1>4. ASSUME NEW t \in Txs, Crash(t) PROVE OverlapInv'
    <2>1. UNCHANGED <<stored, overlap, failed>> /\ tx' \in {tx, [tx EXCEPT ![t].pc = "over"]}
        BY <1>4 DEF Crash
    <2>2. OverlapSeen'
        BY <1>0, <2>1 DEF OverlapSeen, Open, TxType
    <2>3. AbsentSeen'
        BY <1>0, <2>1 DEF AbsentSeen, TxType
    <2>4. FailureNeedsOverlap' /\ (\A u \in failed : tx[u].pc = "over")'
        BY <1>0, <2>1 DEF FailureNeedsOverlap, TxType
    <2> QED BY <2>2, <2>3, <2>4
<1>5. CASE UNCHANGED business
    BY <1>5 DEF business, OverlapSeen, AbsentSeen, FailureNeedsOverlap, Open
<1>6. \/ UNCHANGED business
      \/ \E t \in Txs : \/ \E k \in Keys : LookUp(t, k)
                        \/ Insert(t)
                        \/ \E b \in BOOLEAN : Finish(t, b)
                        \/ Crash(t)
    BY ZenonT(60) DEF Next, vars, Report, Record, Count, Mute, End, MuteExpires, HourEnds, business
<1> QED BY <1>1, <1>2, <1>3, <1>4, <1>5, <1>6

\* emit_system_event looks and inserts in two steps; the unique key undoes a
\* business change only when two transactions carried one key at one time.
THEOREM FailureOverlaps == Spec => []FailureNeedsOverlap
<1>1. Spec => []OverlapInv
    BY TypeCorrect, OverlapInit, OverlapNext, PTL DEF Spec
<1>2. OverlapInv => FailureNeedsOverlap
    BY DEF OverlapInv
<1> QED BY <1>1, <1>2, PTL

-----------------------------------------------------------------------------
(* The statistics *)

\* One transaction at a time has inserted an event of a key that is not stored.
OneInserts ==
    /\ \A t \in Txs : tx[t].pc = "inserted" => tx[t].key \notin stored
    /\ \A t, u \in Txs : tx[t].pc = "inserted" /\ tx[u].pc = "inserted"
                            /\ tx[t].key = tx[u].key => t = u

\* An event has one task, and has it only when it is stored.
OneTask ==
    /\ \A t \in Txs : task[t].pc # "none" => tx[t].key \in stored
    /\ \A t, u \in Txs : task[t].pc # "none" /\ task[u].pc # "none"
                            /\ tx[t].key = tx[u].key => t = u

\* An event whose task runs is not counted yet, one that is neither counted
\* nor missed has such a task, and only stored events are counted.
CountedOnce ==
    /\ \A k \in Keys : counted[k] \in {0, 1} /\ (counted[k] = 1 => k \in stored)
    /\ \A t \in Txs : Underway(t) => counted[tx[t].key] = 0
    /\ \A k \in stored \ missed :
          counted[k] = 1 \/ \E t \in Txs : tx[t].key = k /\ Underway(t)

CountInv == OneInserts /\ OneTask /\ CountedOnce

LEMMA CountInit == Init => CountInv
BY DEF Init, NoTask, CountInv, OneInserts, OneTask, CountedOnce, Underway

\* Business transactions: the constraint on the key leaves one of them.
LEMMA CountBusiness ==
    ASSUME TypeOK, TypeOK', CountInv, NEW t \in Txs,
           \/ \E k \in Keys : LookUp(t, k)
           \/ Insert(t)
           \/ \E b \in BOOLEAN : Finish(t, b)
    PROVE  CountInv'
<1> USE DEF CountInv, results
<1>0. TxType /\ TaskType /\ TasksFit /\ NumbersType
      /\ (\A u \in Txs : tx[u].pc # "unborn" => tx[u].key \in Keys)
    BY DEF TypeOK, KeysFit, TxType
<1>1. ASSUME NEW k \in Keys, LookUp(t, k) PROVE CountInv'
    <2>1. OneInserts'
        BY <1>0, <1>1 DEF LookUp, OneInserts, TxType
    <2>2. OneTask'
        BY <1>0, <1>1 DEF LookUp, OneTask, TxType, TasksFit
    <2>3. CountedOnce'
        BY <1>0, <1>1 DEF LookUp, CountedOnce, Underway, TxType, TasksFit
    <2> QED BY <2>1, <2>2, <2>3
<1>2. CASE Insert(t)
    <2>1. OneInserts'
        BY <1>0, <1>2 DEF Insert, OneInserts, TxType
    <2>2. OneTask'
        BY <1>0, <1>2 DEF Insert, OneTask, TxType
    <2>3. CountedOnce'
        BY <1>0, <1>2 DEF Insert, CountedOnce, Underway, TxType
    <2> QED BY <2>1, <2>2, <2>3
<1>3. ASSUME NEW b \in BOOLEAN, Finish(t, b) PROVE CountInv'
    <2>1. OneInserts'
        BY <1>0, <1>3 DEF Finish, OneInserts, TxType
    <2>2. OneTask'
        BY <1>0, <1>3 DEF Finish, Scheduled, OneInserts, OneTask, TxType, TaskType
    <2>3. ASSUME tx[t].pc = "inserted" /\ b PROVE CountedOnce'
        <3>1. /\ stored' = stored \cup {tx[t].key} /\ tx[t].key \notin stored
              /\ tx' = [tx EXCEPT ![t].pc = "over"] /\ task' = [task EXCEPT ![t].pc = "new"]
              /\ UNCHANGED <<counted, missed>>
            BY <1>3, <2>3 DEF Finish, Scheduled, OneInserts
        <3>2. counted[tx[t].key] = 0
            BY <1>0, <2>3, <3>1 DEF CountedOnce
        <3> QED BY <1>0, <3>1, <3>2 DEF CountedOnce, Underway, TxType, TaskType
    <2>4. ASSUME ~(tx[t].pc = "inserted" /\ b) PROVE CountedOnce'
        <3>1. UNCHANGED <<stored, task, counted, missed>> /\ tx' = [tx EXCEPT ![t].pc = "over"]
            BY <1>3, <2>4 DEF Finish, Scheduled
        <3> QED BY <1>0, <3>1 DEF CountedOnce, Underway, TxType
    <2> QED BY <2>1, <2>2, <2>3, <2>4
<1> QED BY <1>1, <1>2, <1>3

\* Tasks and deaths: the one task of an event counts it, or it is missed.
LEMMA CountTask ==
    ASSUME TypeOK, CountInv, NEW t \in Txs,
           \/ Report(t) \/ Crash(t)
           \/ \E b \in BOOLEAN : Record(t, b) \/ Count(t, b) \/ Mute(t, b) \/ End(t, b)
    PROVE  CountInv'
<1> USE DEF CountInv
<1>0. TxType /\ TaskType /\ TasksFit /\ NumbersType
      /\ (\A u \in Txs : task[u].pc # "none" => tx[u].key \in Keys)
    BY DEF TypeOK, KeysFit, TxType, TasksFit
<1>1. ASSUME Report(t) \/ \E b \in BOOLEAN : Record(t, b) \/ Count(t, b) \/ Mute(t, b)
      PROVE  CountInv'
    <2>1. /\ UNCHANGED <<tx, stored, counted, missed>> /\ Underway(t) /\ Underway(t)'
          /\ \A u \in Txs \ {t} : task'[u] = task[u]
        BY <1>0, <1>1 DEF Report, Record, Count, Mute, AfterCount, business, results, Underway, TaskType
    <2>2. \A u \in Txs : Underway(u)' <=> Underway(u)
        BY <2>1 DEF Underway
    <2>3. \A u \in Txs : task'[u].pc # "none" <=> task[u].pc # "none"
        BY <2>1 DEF Underway
    <2>4. OneInserts' /\ OneTask'
        BY <2>1, <2>3 DEF OneInserts, OneTask
    <2>5. CountedOnce'
        BY <2>1, <2>2 DEF CountedOnce
    <2> QED BY <2>4, <2>5
<1>2. ASSUME UNCHANGED <<tx, stored>>, task[t].pc \notin {"none", "over"},
             task' = [task EXCEPT ![t] = [NoTask EXCEPT !.pc = "over"]],
             \/ counted' = [counted EXCEPT ![tx[t].key] = @ + 1] /\ UNCHANGED missed
             \/ missed' = missed \cup {tx[t].key} /\ UNCHANGED counted
      PROVE  CountInv'
    <2>1. /\ \A u \in Txs : Underway(u)' <=> Underway(u) /\ u # t
          /\ \A u \in Txs : task'[u].pc # "none" <=> task[u].pc # "none"
        BY <1>0, <1>2 DEF Underway, NoTask, TaskType
    <2>2. OneInserts' /\ OneTask'
        BY <1>2, <2>1 DEF OneInserts, OneTask
    <2>3. /\ tx[t].key \in Keys \cap stored /\ counted[tx[t].key] = 0
          /\ \A u \in Txs : Underway(u) /\ tx[u].key = tx[t].key => u = t
        BY <1>0, <1>2 DEF OneTask, CountedOnce, Underway
    <2>4. ASSUME NEW k \in Keys
          PROVE  /\ counted'[k] \in {0, 1} /\ (counted'[k] = 1 => k \in stored')
                 /\ k # tx[t].key => counted'[k] = counted[k] /\ (k \in missed' <=> k \in missed)
                 /\ k = tx[t].key => counted'[k] = 1 \/ k \in missed'
        BY <1>0, <1>2, <2>3 DEF CountedOnce, NumbersType
    <2>5. CountedOnce'
        <3>1. \A u \in Txs : Underway(u)' => tx[u].key \in Keys /\ tx[u].key # tx[t].key /\ Underway(u)
            BY <1>0, <2>1, <2>3 DEF Underway
        <3>2. \A u \in Txs : Underway(u)' => counted'[tx'[u].key] = 0
            BY <1>2, <2>4, <3>1 DEF CountedOnce
        <3>3. stored' \subseteq Keys
            BY <1>2 DEF TypeOK, SetsType
        <3>4. ASSUME NEW k \in stored' \ missed'
              PROVE  counted'[k] = 1 \/ \E u \in Txs : tx'[u].key = k /\ Underway(u)'
            BY <1>2, <2>1, <2>4, <3>3 DEF CountedOnce
        <3> QED BY <2>4, <3>2, <3>4 DEF CountedOnce
    <2> QED BY <2>2, <2>5
<1>3. CASE Crash(t)
    <2>1. CASE UNCHANGED <<task, results>>
        <3>1. UNCHANGED <<stored, task, counted, missed>> /\ tx' = [tx EXCEPT ![t].pc = "over"]
            BY <1>0, <1>3, <2>1 DEF Crash, NoTask, results, TaskType
        <3>2. OneInserts' /\ OneTask'
            BY <1>0, <3>1 DEF OneInserts, OneTask, TxType
        <3>3. CountedOnce'
            BY <1>0, <3>1 DEF CountedOnce, Underway, TxType
        <3> QED BY <3>2, <3>3
    <2>2. CASE ~UNCHANGED <<task, results>>
        BY <1>2, <1>3, <2>2 DEF Crash, Lose
    <2> QED BY <2>1, <2>2
<1>4. ASSUME NEW b \in BOOLEAN, End(t, b) PROVE CountInv'
    BY <1>2, <1>4 DEF End, Lose, business
<1> QED BY <1>1, <1>3, <1>4

LEMMA CountNext == TypeOK /\ CountInv /\ [Next]_vars => CountInv'
<1> SUFFICES ASSUME TypeOK, CountInv, [Next]_vars PROVE CountInv'
    OBVIOUS
<1>1. CASE UNCHANGED <<business, task, results>>
    BY <1>1 DEF business, results, CountInv, OneInserts, OneTask, CountedOnce, Underway
<1> QED BY <1>1, TypeNext, CountBusiness, CountTask DEF Next, vars, MuteExpires, HourEnds

\* Exactly the committed events are counted, once, up to those whose task
\* died or was rolled back (event_consumer_runner.py).
THEOREM CountsAreTrue == Spec => []CountsFollowStore
<1>1. Spec => []CountInv
    BY TypeCorrect, CountInit, CountNext, PTL DEF Spec
<1>2. CountInv => CountsFollowStore
    BY DEF CountInv, CountedOnce, CountsFollowStore
<1> QED BY <1>1, <1>2, PTL

-----------------------------------------------------------------------------
(* The spike *)

\* A task that will report the spike, or lose the report.
WillReport(t) ==
    \/ task[t].pc \in {"spike", "muted"}
    \/ task[t].pc = "ending" /\ task[t].reports

\* The mute is taken only by a task that goes on to report.
SpikeInv ==
    /\ counter >= Threshold => insight \/ spoilt \/ \E t \in Txs : WillReport(t)
    /\ mute => insight \/ spoilt \/ \E t \in Txs : task[t].pc # "spike" /\ WillReport(t)

LEMMA SpikeInit == Init => SpikeInv
BY ThresholdAssumption DEF Init, SpikeInv

LEMMA SpikeTask ==
    ASSUME TypeOK, SpikeInv, NEW t \in Txs,
           \/ Report(t)
           \/ \E b \in BOOLEAN : Record(t, b) \/ Count(t, b) \/ Mute(t, b)
    PROVE  SpikeInv'
<1> USE DEF SpikeInv, WillReport, results
<1>0. TaskType /\ counter \in Nat /\ FlagsType
    BY DEF TypeOK, NumbersType
<1>1. CASE Report(t)
    BY <1>0, <1>1 DEF Report, redis, TaskType, FlagsType
<1>2. ASSUME NEW b \in BOOLEAN, Record(t, b) PROVE SpikeInv'
    BY <1>0, <1>2 DEF Record, redis, TaskType
<1>3. ASSUME NEW b \in BOOLEAN, Count(t, b) PROVE SpikeInv'
    BY <1>0, <1>3, ThresholdAssumption DEF Count, AfterCount, Spike, TaskType
<1>4. ASSUME NEW b \in BOOLEAN, Mute(t, b) PROVE SpikeInv'
    BY <1>0, <1>4 DEF Mute, TaskType, FlagsType
<1> QED BY <1>1, <1>2, <1>3, <1>4

LEMMA SpikeNext == TypeOK /\ SpikeInv /\ [Next]_vars => SpikeInv'
<1> SUFFICES ASSUME TypeOK, SpikeInv, [Next]_vars PROVE SpikeInv'
    OBVIOUS
<1> USE DEF SpikeInv, WillReport
<1>0. TaskType /\ counter \in Nat /\ FlagsType
    BY DEF TypeOK, NumbersType
<1>1. ASSUME NEW t \in Txs, (\E k \in Keys : LookUp(t, k)) \/ Insert(t)
      PROVE  SpikeInv'
    BY <1>1 DEF LookUp, Insert, redis, results
<1>2. ASSUME NEW t \in Txs, NEW b \in BOOLEAN, Finish(t, b) PROVE SpikeInv'
    <2>1. UNCHANGED <<redis, results>> /\ task' \in {task, [task EXCEPT ![t].pc = "new"]}
          /\ (task' = task \/ task[t].pc = "none")
        BY <1>2 DEF Finish, Scheduled, TypeOK, TasksFit
    <2> QED BY <1>0, <2>1 DEF redis, results, TaskType
<1>3. ASSUME NEW t \in Txs, Lose(t), UNCHANGED redis,
             task' = [task EXCEPT ![t] = [NoTask EXCEPT !.pc = "over"]]
      PROVE  SpikeInv'
    BY <1>0, <1>3 DEF Lose, redis, NoTask, TaskType, FlagsType
<1>4. ASSUME NEW t \in Txs, Crash(t) PROVE SpikeInv'
    <2>1. CASE UNCHANGED <<task, results>>
        BY <1>4, <2>1 DEF Crash, redis, results
    <2>2. CASE ~UNCHANGED <<task, results>>
        BY <1>3, <1>4, <2>2 DEF Crash
    <2> QED BY <2>1, <2>2
<1>5. ASSUME NEW t \in Txs, NEW b \in BOOLEAN, End(t, b) PROVE SpikeInv'
    <2>1. CASE b \/ task[t].aborted
        BY <1>3, <1>5, <2>1 DEF End
    <2>2. CASE ~(b \/ task[t].aborted)
        BY <1>0, <1>5, <2>2 DEF End, redis, NoTask, TaskType, FlagsType
    <2> QED BY <2>1, <2>2
<1>6. CASE UNCHANGED vars
    BY <1>6 DEF vars, redis, results
<1>7. CASE MuteExpires \/ HourEnds
    BY <1>7, ThresholdAssumption DEF MuteExpires, HourEnds, results
<1> QED BY <1>1, <1>2, <1>4, <1>5, <1>6, <1>7, SpikeTask DEF Next

\* A spike is reported, unless the task that was to report it was lost: no
\* interleaving of the tasks and no expiry of the mute loses it otherwise.
THEOREM SpikesAreReported == Spec => []SpikeReported
<1>1. Spec => []SpikeInv
    BY TypeCorrect, SpikeInit, SpikeNext, PTL DEF Spec
<1>2. SpikeInv => SpikeReported
    BY DEF SpikeInv, WillReport, SpikeReported, Underway
<1> QED BY <1>1, <1>2, PTL
=============================================================================
