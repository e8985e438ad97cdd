----------------------------- MODULE ShiftFocus -----------------------------
(***************************************************************************)
(* The shift screen: who works on which item of the money queue.           *)
(*                                                                         *)
(* Operators put items off (skip, next) or close them (complete), and the  *)
(* answer to every request is the shift's state, with one item in focus.   *)
(* All of it is in Redis, one command at a time: a key for every item put  *)
(* off or closed, which ends by itself, a set per kind as an index of the  *)
(* keys, and a lease per operator.  Whoever reads an index removes members *)
(* whose key is gone; an index without members is replaced by a scan of    *)
(* the keys.                                                               *)
(*                                                                         *)
(* One organisation.  An item is its priority, and stays in the queue: no  *)
(* action of the shift changes an order or a chat.  A lease may end at any *)
(* time, by its 45 seconds or by the operator leaving; the heartbeat only  *)
(* puts that off and is no step.  A SCAN and the GETs that follow it are   *)
(* one step.  The state S0 to S5 and the money are left out.               *)
(***************************************************************************)
EXTENDS Naturals

CONSTANTS
    Items,       \* items of the queue, by priority
    Operators,   \* members of staff on the shift
    Requests,    \* requests under way at one time
    Kinds,       \* kinds of keys at work, a subset of AllKinds
    MaxOpened,   \* bound on the requests ever made
    MaxLapses,   \* bound on the keys that end by themselves
    MaxMishaps,  \* bound on requests that die and commands that fail
    NoItem       \* a value that is not an item

AllKinds == {"skip", "next", "done"}

\* The queue is finite: any part of it has a best item.
ASSUME ItemsAssumption ==
    /\ Items \subseteq Nat /\ NoItem \notin Items
    /\ \A S \in SUBSET Items \ {{}} : \E x \in S : \A y \in S : y <= x
ASSUME KindsAssumption == Kinds \subseteq AllKinds /\ "done" \in Kinds /\ Kinds # {"done"}
ASSUME BoundsAssumption == MaxOpened \in Nat /\ MaxLapses \in Nat /\ MaxMishaps \in Nat

VARIABLES
    mark,      \* items with a live key shift:<kind>:<org>:<item>
    index,     \* the sets shift:<kind>_set
    lease,     \* shift:active_focus of each operator
    request,   \* what each request is doing
    events,    \* shift.focus_completed events committed, per item
    ended,     \* how many done keys of an item have ended
    loose,     \* items whose registration a death, a removal or a reset tore
    overlap,   \* pairs of operators one of whom chose without seeing the other
    opened, lapses, mishaps

keys    == <<mark, index>>
counts  == <<events, ended>>
vars    == <<keys, lease, request, counts, loose, overlap, opened, lapses, mishaps>>

Acts == {"view", "complete", "reset"} \cup (Kinds \ {"done"})
Looking == {"own", "rescan", "pick"}
Pcs  == {"idle", "mark", "index", "clear", "tell", "list", "sweep",
         "load", "check", "drop", "focus"} \cup Looking

NoSets == [k \in Kinds |-> {}]
Idle == [pc |-> "idle", op |-> NoItem, act |-> "view", item |-> NoItem, kind |-> "done",
         todo |-> {}, seen |-> NoSets, busy |-> {}, met |-> {}]

\* Keys, indexes, leases and requests.
TypeOK ==
    /\ mark \in [Kinds -> SUBSET Items] /\ index \in [Kinds -> SUBSET Items]
    /\ loose \in [Kinds -> SUBSET Items]
    /\ lease \in [Operators -> Items \cup {NoItem}]
    /\ request \in [Requests ->
          [pc : Pcs, op : Operators \cup {NoItem}, act : Acts, item : Items \cup {NoItem}, kind : Kinds,
           todo : SUBSET Items, seen : [Kinds -> SUBSET Items], busy : SUBSET Items,
           met : SUBSET Operators]]
    /\ events \in [Items -> Nat] /\ ended \in [Items -> Nat]
    /\ overlap \subseteq SUBSET Operators
    /\ opened \in 0..MaxOpened /\ lapses \in 0..MaxLapses /\ mishaps \in 0..MaxMishaps

Init ==
    /\ mark = NoSets /\ index = NoSets /\ loose = NoSets
    /\ lease = [o \in Operators |-> NoItem]
    /\ request = [q \in Requests |-> Idle]
    /\ events = [x \in Items |-> 0] /\ ended = [x \in Items |-> 0]
    /\ overlap = {} /\ opened = 0 /\ lapses = 0 /\ mishaps = 0

-----------------------------------------------------------------------------
At(r, pc) == request[r].pc = pc
Goto(r, pc) == request' = [request EXCEPT ![r].pc = pc]

\* The kinds are worked through in one order.
Rank(k) == CASE k = "skip" -> 1 [] k = "next" -> 2 [] k = "done" -> 3
Following(k) == {j \in Kinds : Rank(j) > Rank(k)}
NextKind(k)  == {j \in Following(k) : \A i \in Following(k) : Rank(j) <= Rank(i)}
FirstKind    == {j \in Kinds : \A i \in Kinds : Rank(j) <= Rank(i)}

\* The key that an action of an operator writes.
KindOf(act) == IF act = "complete" THEN "done" ELSE act

\* A request of an operator's browser; the item is one it was shown.
Open(r) ==
    /\ At(r, "idle")
    /\ opened < MaxOpened /\ opened' = opened + 1
    /\ \E o \in Operators, act \in Acts :
       \E x \in (IF act \in {"view", "reset"} THEN {NoItem} ELSE Items), k \in FirstKind :
          request' = [request EXCEPT ![r] = [Idle EXCEPT
              !.op = o, !.act = act, !.item = x,
              !.kind = IF act \in {"view", "reset"} THEN k ELSE KindOf(act),
              !.pc = CASE act = "view" -> "load" [] act = "reset" -> "list" [] OTHER -> "mark"]]
    /\ UNCHANGED <<keys, lease, counts, loose, overlap, lapses, mishaps>>

\* From the end of the action to the building of the state.
ToLoad(r) ==
    \E k \in FirstKind :
       request' = [request EXCEPT ![r] = [Idle EXCEPT !.pc = "load", !.op = request[r].op, !.kind = k]]

-----------------------------------------------------------------------------
\* apply_shift_action.

\* Bug: SET without NX.
TakenNever(k, x) == FALSE

\* Only the closing of an item is claimed.
Taken(k, x) == k = "done" /\ x \in mark[k]

\* Bug: the index first, then the key.
WritesKeyLate(pc) == pc = "index"

\* The key is written first, then the index.
WritesKey(pc) == pc = "mark"

\* Another request is about to remove the item from the index: it found its
\* key gone, or is resetting the kind.
Removing(r, k, x) ==
    \E q \in Requests \ {r} :
        /\ request[q].kind = k
        /\ \/ At(q, "sweep")
           \/ At(q, "drop") /\ request[q].item = x

\* SETEX or SET NX, and SADD; both together are a registration.
Register(r) ==
    LET k == request[r].kind
        x == request[r].item
        with(f) == [f EXCEPT ![k] = @ \cup {x}]
    IN /\ request[r].pc \in {"mark", "index"}
       /\ ~(At(r, "mark") /\ Taken(k, x))
       /\ Goto(r, IF At(r, "mark") THEN "index" ELSE "clear")
       /\ IF WritesKey(request[r].pc)
          THEN mark' = with(mark) /\ UNCHANGED index
          ELSE index' = with(index) /\ UNCHANGED mark
       /\ loose' = IF Removing(r, k, x) THEN with(loose)
                   ELSE IF At(r, "index") THEN [loose EXCEPT ![k] = @ \ {x}] ELSE loose
       /\ UNCHANGED <<lease, counts, overlap, opened, lapses, mishaps>>

\* Somebody closed the item before: nothing but the state is answered.
Duplicate(r) ==
    /\ At(r, "mark") /\ Taken(request[r].kind, request[r].item)
    /\ ToLoad(r)
    /\ UNCHANGED <<keys, lease, counts, loose, overlap, opened, lapses, mishaps>>

\* The operator's lease is given up, whatever item it is for.
Clear(r) ==
    /\ At(r, "clear")
    /\ lease' = [lease EXCEPT ![request[r].op] = NoItem]
    /\ IF request[r].act = "complete" THEN Goto(r, "tell") ELSE ToLoad(r)
    /\ UNCHANGED <<keys, counts, loose, overlap, opened, lapses, mishaps>>

\* The event is committed.
Tell(r) ==
    /\ At(r, "tell")
    /\ events' = [events EXCEPT ![request[r].item] = @ + 1]
    /\ ToLoad(r)
    /\ UNCHANGED <<keys, lease, ended, loose, overlap, opened, lapses, mishaps>>

\* reset_shift_skip_exclusions, kind by kind: what is there is listed ...
List(r) ==
    /\ At(r, "list")
    /\ request' = [request EXCEPT ![r].pc = "sweep",
                      ![r].todo = index[request[r].kind] \cup mark[request[r].kind]]
    /\ UNCHANGED <<keys, lease, counts, loose, overlap, opened, lapses, mishaps>>

\* ... its keys are deleted one by one ...
Sweep(r) ==
    LET k == request[r].kind IN
    /\ At(r, "sweep")
    /\ \E x \in request[r].todo :
          /\ mark' = [mark EXCEPT ![k] = @ \ {x}]
          /\ loose' = [loose EXCEPT ![k] = @ \ {x}]
          /\ request' = [request EXCEPT ![r].todo = @ \ {x}]
    /\ UNCHANGED <<index, lease, counts, overlap, opened, lapses, mishaps>>

\* ... and then the index.  What is closed stays closed.
Wipe(r) ==
    LET k == request[r].kind IN
    /\ At(r, "sweep") /\ request[r].todo = {}
    /\ index' = [index EXCEPT ![k] = {}]
    /\ IF NextKind(k) \subseteq {"done"}
       THEN Goto(r, "clear")
       ELSE \E j \in NextKind(k) : request' = [request EXCEPT ![r].pc = "list", ![r].kind = j]
    /\ UNCHANGED <<mark, lease, counts, loose, overlap, opened, lapses, mishaps>>

-----------------------------------------------------------------------------
\* build_shift_state: which items are put off or closed.

\* SMEMBERS of one index.
Load(r) ==
    /\ \/ At(r, "load")
       \/ At(r, "check") /\ request[r].todo = {} /\ NextKind(request[r].kind) # {}
    /\ \E k \in (IF At(r, "load") THEN {request[r].kind} ELSE NextKind(request[r].kind)) :
          request' = [request EXCEPT ![r].pc = "check", ![r].kind = k, ![r].todo = index[k]]
    /\ UNCHANGED <<keys, lease, counts, loose, overlap, opened, lapses, mishaps>>

\* GET of one member's key.
Check(r) ==
    LET k == request[r].kind IN
    /\ At(r, "check")
    /\ \E x \in request[r].todo :
          request' = IF x \in mark[k]
                     THEN [request EXCEPT ![r].todo = @ \ {x}, ![r].seen[k] = @ \cup {x}]
                     ELSE [request EXCEPT ![r].pc = "drop", ![r].item = x]
    /\ UNCHANGED <<keys, lease, counts, loose, overlap, opened, lapses, mishaps>>

\* SREM of a member whose key was gone.
Drop(r) ==
    LET k == request[r].kind
        x == request[r].item
    IN /\ At(r, "drop")
       /\ index' = [index EXCEPT ![k] = @ \ {x}]
       /\ request' = [request EXCEPT ![r].pc = "check", ![r].todo = @ \ {x}, ![r].item = NoItem]
       /\ UNCHANGED <<mark, lease, counts, loose, overlap, opened, lapses, mishaps>>

\* An index in which nothing was found is replaced by a scan of the keys.
Scan(r) ==
    /\ At(r, "check") /\ request[r].todo = {} /\ NextKind(request[r].kind) = {}
    /\ request' = [request EXCEPT ![r].pc = "focus",
          ![r].seen = [k \in Kinds |-> IF @[k] = {} THEN mark[k] ELSE @[k]]]
    /\ UNCHANGED <<keys, lease, counts, loose, overlap, opened, lapses, mishaps>>

\* Redis does not answer: everything counts as open.
LoadFails(r) ==
    /\ request[r].pc \in {"load", "check", "drop"}
    /\ mishaps < MaxMishaps /\ mishaps' = mishaps + 1
    /\ request' = [request EXCEPT ![r] = [Idle EXCEPT !.pc = "focus", !.op = request[r].op]]
    /\ UNCHANGED <<keys, lease, counts, loose, overlap, opened, lapses>>

-----------------------------------------------------------------------------
\* _resolve_focus.

Active(r) == Items \ UNION {request[r].seen[k] : k \in Kinds}
Leased    == {lease[o] : o \in Operators} \ {NoItem}
End(r)    == request' = [request EXCEPT ![r] = Idle]

\* A look at everybody's leases, in one step: SCAN and its GETs are several, and
\* one that takes more than one round may miss a lease set meanwhile, which is
\* then a look before that write.  Requests of other operators that have looked
\* and not chosen yet cannot see what this one will choose, nor it what they will.
Look(r, pc) ==
    LET others == {q \in Requests : request[q].pc \in Looking /\ request[q].op # request[r].op}
    IN request' = [q \in Requests |->
          IF q = r THEN [request[r] EXCEPT !.pc = pc, !.busy = Leased,
                                           !.met = {request[p].op : p \in others}]
          ELSE IF q \in others THEN [request[q] EXCEPT !.met = @ \cup {request[r].op}]
          ELSE request[q]]

\* Nothing to do, or a look at the leases of everybody.
Focus(r) ==
    /\ At(r, "focus")
    /\ IF Active(r) = {}
       THEN /\ lease' = [lease EXCEPT ![request[r].op] = NoItem]
            /\ End(r)
       ELSE Look(r, "own") /\ UNCHANGED lease
    /\ UNCHANGED <<keys, counts, loose, overlap, opened, lapses, mishaps>>

Mine(r) == lease[request[r].op]

\* The operator's own lease is kept as long as its item is open.
Own(r) ==
    /\ At(r, "own")
    /\ CASE Mine(r) = NoItem -> Goto(r, "pick") /\ UNCHANGED lease
         [] Mine(r) \in Active(r) -> End(r) /\ UNCHANGED lease
         [] OTHER -> Goto(r, "rescan") /\ lease' = [lease EXCEPT ![request[r].op] = NoItem]
    /\ UNCHANGED <<keys, counts, loose, overlap, opened, lapses, mishaps>>

\* The GET fails, or the DEL of a lease on an item no longer open.
OwnFails(r) ==
    /\ At(r, "own")
    /\ mishaps < MaxMishaps /\ mishaps' = mishaps + 1
    /\ \/ Goto(r, "pick")
       \/ Mine(r) \notin Active(r) \cup {NoItem} /\ Goto(r, "rescan")
    /\ UNCHANGED <<keys, lease, counts, loose, overlap, opened, lapses>>

Rescan(r) ==
    /\ At(r, "rescan")
    /\ Look(r, "pick")
    /\ UNCHANGED <<keys, lease, counts, loose, overlap, opened, lapses, mishaps>>

\* Bug: the items of colleagues are not left out.
FreeAll(r) == Active(r)

\* Open items nobody had a lease on.
Free(r) == Active(r) \ request[r].busy

\* The best of them is leased.
Pick(r) ==
    LET o == request[r].op IN
    /\ At(r, "pick")
    /\ IF Free(r) = {}
       THEN UNCHANGED <<lease, overlap>>
       ELSE /\ lease' = [lease EXCEPT ![o] =
                            CHOOSE x \in Free(r) : \A y \in Free(r) : y <= x]
            /\ overlap' = {pair \in overlap : o \notin pair} \cup {{o, p} : p \in request[r].met}
    /\ End(r)
    /\ UNCHANGED <<keys, counts, loose, opened, lapses, mishaps>>

-----------------------------------------------------------------------------
\* Time and faults.

\* A key ends: ten minutes after a skip, an hour after a completion.
Lapse(k, x) ==
    /\ lapses < MaxLapses /\ lapses' = lapses + 1
    /\ x \in mark[k]
    /\ mark' = [mark EXCEPT ![k] = @ \ {x}]
    /\ loose' = [loose EXCEPT ![k] = @ \ {x}]
    /\ ended' = IF k = "done" THEN [ended EXCEPT ![x] = @ + 1] ELSE ended
    /\ UNCHANGED <<index, lease, request, events, overlap, opened, mishaps>>

\* A lease runs out, or DELETE /shift/heartbeat gives it up.
LeaseEnds(o) ==
    /\ lease[o] # NoItem
    /\ lease' = [lease EXCEPT ![o] = NoItem]
    /\ UNCHANGED <<keys, request, counts, loose, overlap, opened, lapses, mishaps>>

\* The process dies, or Redis or the database fails: an answer of 500, or, in
\* _resolve_focus, an item shown without a lease.
Die(r) ==
    /\ ~At(r, "idle")
    /\ mishaps < MaxMishaps /\ mishaps' = mishaps + 1
    /\ loose' = IF At(r, "index")
                THEN [loose EXCEPT ![request[r].kind] = @ \cup {request[r].item}] ELSE loose
    /\ End(r)
    /\ UNCHANGED <<keys, lease, counts, overlap, opened, lapses>>

Next ==
    \/ \E r \in Requests :
          \/ Open(r) \/ Register(r) \/ Duplicate(r) \/ Clear(r) \/ Tell(r)
          \/ List(r) \/ Sweep(r) \/ Wipe(r)
          \/ Load(r) \/ Check(r) \/ Drop(r) \/ Scan(r) \/ LoadFails(r)
          \/ Focus(r) \/ Own(r) \/ OwnFails(r) \/ Rescan(r) \/ Pick(r) \/ Die(r)
    \/ \E k \in Kinds, x \in Items : Lapse(k, x)
    \/ \E o \in Operators : LeaseEnds(o)

Spec == Init /\ [][Next]_vars

-----------------------------------------------------------------------------
\* Properties.

Owing(x) == \E r \in Requests : request[r].act = "complete" /\ request[r].item = x
                                /\ request[r].pc \in {"index", "clear", "tell"}

Lives(x) == ended[x] + (IF x \in mark["done"] THEN 1 ELSE 0)

\* "Idempotent complete, org-wide" (G10_SEMANTIC_CONTRACT, 9): an item is told
\* of at most once for every time it was closed, however many operators close
\* it, and, when nothing dies in between, exactly once.
CompletedOnce ==
    \A x \in Items :
        /\ events[x] <= Lives(x)
        /\ mishaps = 0 => \/ events[x] = Lives(x)
                          \/ Owing(x)

\* "Keep SET index consistent with per-item TTL keys" (_prune_exclusion_set):
\* an item with a live key is in its index, or its registration is under way;
\* it is missing only when it was put off between another request's GET of the
\* old key and SREM, during a reset, or by a request that died half way.
KeysAreIndexed ==
    \A k \in Kinds : \A x \in mark[k] :
        \/ x \in index[k] \cup loose[k]
        \/ \E r \in Requests : At(r, "index") /\ request[r].kind = k /\ request[r].item = x

\* Items colleagues have in focus are left out (busy_ids in _resolve_focus):
\* two operators have leases on one item only if, when the later of them chose,
\* each had looked at the leases before the other wrote its own.  A lease is not
\* claimed: it is looked for and then written.
SharedNeedsOverlap ==
    \A o, p \in Operators :
        o # p /\ lease[o] # NoItem /\ lease[o] = lease[p] => {o, p} \in overlap
=============================================================================
