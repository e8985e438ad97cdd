--------------------------- MODULE ShiftFocusProofs ---------------------------
(***************************************************************************)
(* Theorems about ShiftFocus, for any items, operators and requests, any   *)
(* kinds of keys and any number of mishaps.                                *)
(***************************************************************************)
EXTENDS ShiftFocus, TLAPS, FiniteSetTheorems

USE ItemsAssumption, KindsAssumption, BoundsAssumption

-----------------------------------------------------------------------------
(* Types *)

Requested ==
    [pc : Pcs, op : Operators \cup {NoItem}, act : Acts, item : Items \cup {NoItem}, kind : Kinds,
     todo : SUBSET Items, seen : [Kinds -> SUBSET Items], busy : SUBSET Items,
     met : SUBSET Operators]

\* What a request is sure of at a place in its program.
Fits(x) ==
    /\ x.pc # "idle" => x.op \in Operators
    /\ x.pc \in {"mark", "index"} =>
          x.item \in Items /\ x.act \notin {"view", "reset"} /\ x.kind = KindOf(x.act)
    /\ x.pc = "tell" => x.act = "complete"
    /\ x.pc \in {"clear", "tell"} /\ x.act = "complete" => x.item \in Items
    /\ x.pc = "drop" => x.item \in Items
    /\ x.pc \in {"list", "sweep"} => x.kind # "done" /\ x.act = "reset"

TypeInv == TypeOK /\ \A r \in Requests : Fits(request[r])

\* The requests stay as they should be.
RequestsFit == request \in [Requests -> Requested] /\ \A r \in Requests : Fits(request[r])

LEMMA TypeInvParts ==
    ASSUME TypeInv
    PROVE  /\ RequestsFit
           /\ mark \in [Kinds -> SUBSET Items] /\ index \in [Kinds -> SUBSET Items]
           /\ loose \in [Kinds -> SUBSET Items]
           /\ lease \in [Operators -> Items \cup {NoItem}]
           /\ events \in [Items -> Nat] /\ ended \in [Items -> Nat]
           /\ overlap \subseteq SUBSET Operators
           /\ opened \in 0..MaxOpened /\ lapses \in 0..MaxLapses /\ mishaps \in 0..MaxMishaps
BY DEF TypeInv, TypeOK, RequestsFit, Requested

\* A step of one request.
LEMMA RequestStep ==
    ASSUME RequestsFit, NEW r \in Requests, NEW x \in Requested, Fits(x),
           request' = [request EXCEPT ![r] = x]
    PROVE  RequestsFit'
BY DEF RequestsFit

LEMMA IdleFits == Idle \in Requested /\ Fits(Idle)
<1>1. NoSets \in [Kinds -> SUBSET Items]
    BY DEF NoSets
<1> QED BY <1>1 DEF Idle, Requested, Fits, Pcs, Acts

\* The order of the kinds: what is first or next before the end is not "done".
LEMMA KindOrder ==
    /\ FirstKind \subseteq Kinds \ {"done"}
    /\ \A k \in Kinds : NextKind(k) \subseteq Kinds /\ (NextKind(k) \subseteq {"done"} \/ "done" \notin NextKind(k))
<1>1. Rank("skip") = 1 /\ Rank("next") = 2 /\ Rank("done") = 3
    BY DEF Rank
<1>2. \A k \in Kinds : k \in {"skip", "next", "done"}
    BY DEF AllKinds
<1>3. PICK j \in Kinds : j # "done"
    OBVIOUS
<1>4. "done" \notin FirstKind
    BY <1>1, <1>2, <1>3 DEF FirstKind
<1>5. ASSUME NEW k \in Kinds, NEW i \in NextKind(k), i # "done", "done" \in NextKind(k) PROVE FALSE
    BY <1>1, <1>2, <1>5 DEF NextKind, Following
<1> QED BY <1>4, <1>5 DEF FirstKind, NextKind, Following

LEMMA ToLoadFits ==
    ASSUME RequestsFit, NEW r \in Requests, ToLoad(r), request[r].pc # "idle"
    PROVE  RequestsFit'
<1>1. PICK k \in FirstKind :
        request' = [request EXCEPT ![r] = [Idle EXCEPT !.pc = "load", !.op = request[r].op, !.kind = k]]
    BY DEF ToLoad
<1>2. [Idle EXCEPT !.pc = "load", !.op = request[r].op, !.kind = k] \in Requested
    BY IdleFits, KindOrder DEF RequestsFit, Requested, Pcs
<1>3. Fits([Idle EXCEPT !.pc = "load", !.op = request[r].op, !.kind = k])
    BY IdleFits DEF RequestsFit, Requested, Fits
<1> QED BY <1>1, <1>2, <1>3, RequestStep

LEMMA EndFits == ASSUME RequestsFit, NEW r \in Requests, End(r) PROVE RequestsFit'
BY IdleFits, RequestStep DEF End

\* Moves within the program that ask nothing new of the registers.
LEMMA GotoFits ==
    ASSUME RequestsFit, NEW r \in Requests, NEW s \in Pcs, Goto(r, s), request[r].pc # "idle",
           s \notin {"mark", "index", "drop", "list", "sweep"},
           s = "tell" => request[r].act = "complete",
           s \in {"clear", "tell"} /\ request[r].act = "complete" => request[r].item \in Items
    PROVE  RequestsFit'
<1> DEFINE x == [request[r] EXCEPT !.pc = s]
<1>1. request[r] \in Requested /\ Fits(request[r])
    BY DEF RequestsFit
<1>2. x \in Requested /\ Fits(x)
    BY <1>1 DEF Requested, Fits
<1>3. request' = [request EXCEPT ![r] = x]
    BY DEF Goto
<1> QED BY <1>2, <1>3, RequestStep

LEMMA LookFits ==
    ASSUME RequestsFit, lease \in [Operators -> Items \cup {NoItem}], NEW r \in Requests,
           NEW s \in Looking, Look(r, s), request[r].pc # "idle"
    PROVE  RequestsFit'
<1> DEFINE others == {q \in Requests : request[q].pc \in Looking /\ request[q].op # request[r].op}
           Seen(q) == IF q = r
                      THEN [request[r] EXCEPT !.pc = s, !.busy = Leased,
                                              !.met = {request[p].op : p \in others}]
                      ELSE IF q \in others THEN [request[q] EXCEPT !.met = @ \cup {request[r].op}]
                      ELSE request[q]
<1>1. request' = [q \in Requests |-> Seen(q)]
    BY DEF Look
<1>2. \A q \in Requests : request[q] \in Requested /\ Fits(request[q])
    BY DEF RequestsFit
<1>3. /\ Leased \subseteq Items /\ {request[p].op : p \in others} \subseteq Operators
      /\ request[r].op \in Operators
    BY <1>2 DEF Leased, Looking, Fits
<1>4. ASSUME NEW q \in Requests PROVE Seen(q) \in Requested /\ Fits(Seen(q))
    <2>1. CASE q = r
        <3>1. [request[r] EXCEPT !.pc = s, !.busy = Leased, !.met = {request[p].op : p \in others}]
                 \in Requested
            BY ZenonT(60), <1>2, <1>3 DEF Requested, Pcs
        <3>2. Fits([request[r] EXCEPT !.pc = s, !.busy = Leased, !.met = {request[p].op : p \in others}])
            BY <1>2, <1>3 DEF Requested, Fits, Looking
        <3> QED BY <2>1, <3>1, <3>2
    <2>2. CASE q # r /\ q \in others
        <3>1. [request[q] EXCEPT !.met = @ \cup {request[r].op}] \in Requested
            BY <1>2, <1>3 DEF Requested
        <3>2. Fits([request[q] EXCEPT !.met = @ \cup {request[r].op}])
            BY <1>2 DEF Requested, Fits
        <3> QED BY <2>2, <3>1, <3>2
    <2>3. CASE q # r /\ q \notin others
        BY <1>2, <2>3
    <2> QED BY <2>1, <2>2, <2>3
<1> QED BY <1>1, <1>4 DEF RequestsFit

LEMMA TypeInit == Init => TypeInv
<1> SUFFICES ASSUME Init PROVE TypeInv
    OBVIOUS
<1>1. NoSets \in [Kinds -> SUBSET Items]
    BY DEF NoSets
<1>2. RequestsFit
    BY IdleFits DEF Init, RequestsFit
<1> QED BY <1>1, <1>2 DEF Init, TypeInv, TypeOK, RequestsFit, Requested

\* Everything but the requests.
LEMMA TypeFrom ==
    ASSUME RequestsFit',
           mark' \in [Kinds -> SUBSET Items], index' \in [Kinds -> SUBSET Items],
           loose' \in [Kinds -> SUBSET Items],
           lease' \in [Operators -> Items \cup {NoItem}],
           events' \in [Items -> Nat], ended' \in [Items -> Nat],
           overlap' \subseteq SUBSET Operators,
           opened' \in 0..MaxOpened, lapses' \in 0..MaxLapses, mishaps' \in 0..MaxMishaps
    PROVE  TypeInv'
BY DEF TypeInv, TypeOK, RequestsFit, Requested

LEMMA TypeAct ==
    ASSUME TypeInv, NEW r \in Requests, Open(r) \/ Register(r) \/ Duplicate(r) \/ Clear(r) \/ Tell(r)
    PROVE  TypeInv'
<1>0. request[r] \in Requested /\ Fits(request[r]) /\ RequestsFit
    BY TypeInvParts DEF RequestsFit
<1>1. CASE Open(r)
    <2>1. PICK o \in Operators, act \in Acts :
            \E x \in (IF act \in {"view", "reset"} THEN {NoItem} ELSE Items), k \in FirstKind :
              request' = [request EXCEPT ![r] = [Idle EXCEPT
                 !.op = o, !.act = act, !.item = x,
                 !.kind = IF act \in {"view", "reset"} THEN k ELSE KindOf(act),
                 !.pc = CASE act = "view" -> "load" [] act = "reset" -> "list" [] OTHER -> "mark"]]
        BY <1>1 DEF Open
    <2>2. PICK x \in (IF act \in {"view", "reset"} THEN {NoItem} ELSE Items), k \in FirstKind :
              request' = [request EXCEPT ![r] = [Idle EXCEPT
                 !.op = o, !.act = act, !.item = x,
                 !.kind = IF act \in {"view", "reset"} THEN k ELSE KindOf(act),
                 !.pc = CASE act = "view" -> "load" [] act = "reset" -> "list" [] OTHER -> "mark"]]
        BY <2>1
    <2> DEFINE kind == IF act \in {"view", "reset"} THEN k ELSE KindOf(act)
               pc == CASE act = "view" -> "load" [] act = "reset" -> "list" [] OTHER -> "mark"
               new == [Idle EXCEPT !.op = o, !.act = act, !.item = x, !.kind = kind, !.pc = pc]
    <2>3. \/ act = "view" /\ pc = "load" /\ kind = k /\ x = NoItem
          \/ act = "reset" /\ pc = "list" /\ kind = k /\ x = NoItem
          \/ act \notin {"view", "reset"} /\ pc = "mark" /\ kind = KindOf(act) /\ x \in Items
        OBVIOUS
    <2>4. kind \in Kinds /\ pc \in Pcs /\ x \in Items \cup {NoItem} /\ k # "done"
        BY <2>3, KindOrder DEF KindOf, Acts, Pcs
    <2>5. new \in Requested
        BY <2>4, IdleFits DEF Requested
    <2>6. Fits(new)
        BY <2>3, <2>4, IdleFits DEF Requested, Fits
    <2>7. RequestsFit'
        BY <1>0, <2>2, <2>5, <2>6, RequestStep
    <2>8. opened' \in 0..MaxOpened
        <3>1. opened < MaxOpened /\ opened' = opened + 1
            BY <1>1 DEF Open
        <3> QED BY <3>1, TypeInvParts
    <2> QED BY <1>1, <2>7, <2>8, TypeInvParts, TypeFrom DEF Open, keys, counts
<1>2. CASE Register(r)
    <2> DEFINE k == request[r].kind
               x == request[r].item
    <2>1. k \in Kinds /\ x \in Items
        BY <1>0, <1>2 DEF Register, Requested, Fits
    <2>2. RequestsFit'
        <3>1. CASE At(r, "mark")
            <4> DEFINE new == [request[r] EXCEPT !.pc = "index"]
            <4>1. new \in Requested
                BY <1>0 DEF Requested, Pcs
            <4>2. Fits(new)
                BY <1>0, <3>1 DEF At, Requested, Fits
            <4> QED BY <1>0, <1>2, <3>1, <4>1, <4>2, RequestStep DEF Register, Goto
        <3>2. CASE ~At(r, "mark")
            BY <1>0, <1>2, <2>1, <3>2, GotoFits DEF Register, Pcs
        <3> QED BY <3>1, <3>2
    <2>3. /\ mark' \in {mark, [mark EXCEPT ![k] = @ \cup {x}]}
          /\ index' \in {index, [index EXCEPT ![k] = @ \cup {x}]}
          /\ loose' \in {loose, [loose EXCEPT ![k] = @ \cup {x}], [loose EXCEPT ![k] = @ \ {x}]}
          /\ UNCHANGED <<lease, counts, overlap, opened, lapses, mishaps>>
        BY <1>2 DEF Register
    <2>4. /\ mark' \in [Kinds -> SUBSET Items] /\ index' \in [Kinds -> SUBSET Items]
          /\ loose' \in [Kinds -> SUBSET Items]
        BY <2>1, <2>3, TypeInvParts
    <2> QED BY <2>2, <2>3, <2>4, TypeInvParts, TypeFrom DEF counts
<1>3. CASE Duplicate(r)
    BY <1>0, <1>3, ToLoadFits, TypeInvParts, TypeFrom DEF Duplicate, At, keys, counts
<1>4. CASE Clear(r)
    <2>1. RequestsFit'
        BY <1>0, <1>4, ToLoadFits, GotoFits DEF Clear, At, Fits, Pcs
    <2>2. lease' \in [Operators -> Items \cup {NoItem}]
        BY <1>4, TypeInvParts DEF Clear
    <2> QED BY <1>4, <2>1, <2>2, TypeInvParts, TypeFrom DEF Clear, keys, counts
<1>5. CASE Tell(r)
    <2>1. RequestsFit'
        BY <1>0, <1>5, ToLoadFits DEF Tell, At
    <2>2. events' \in [Items -> Nat]
        <3>1. PICK x \in Items : x = request[r].item
            BY <1>0, <1>5 DEF Tell, At, Fits
        <3>2. events \in [Items -> Nat] /\ events' = [events EXCEPT ![x] = @ + 1]
            BY <1>5, <3>1, TypeInvParts DEF Tell
        <3> QED BY <3>2
    <2> QED BY <1>5, <2>1, <2>2, TypeInvParts, TypeFrom DEF Tell, keys
<1> QED BY <1>1, <1>2, <1>3, <1>4, <1>5
LEMMA TypeReset ==
    ASSUME TypeInv, NEW r \in Requests, List(r) \/ Sweep(r) \/ Wipe(r)
    PROVE  TypeInv'
<1>0. request[r] \in Requested /\ Fits(request[r]) /\ RequestsFit
    BY TypeInvParts DEF RequestsFit
<1> DEFINE k == request[r].kind
<1>1. CASE List(r)
    <2> DEFINE new == [request[r] EXCEPT !.pc = "sweep", !.todo = index[k] \cup mark[k]]
    <2>1. index[k] \cup mark[k] \in SUBSET Items
        BY <1>0, TypeInvParts DEF Requested
    <2>2. new \in Requested
        BY <1>0, <2>1 DEF Requested, Pcs
    <2>3. Fits(new)
        BY <1>0, <1>1 DEF List, At, Requested, Fits
    <2>4. request' = [request EXCEPT ![r] = new]
        BY <1>1 DEF List
    <2>5. RequestsFit'
        BY <1>0, <2>2, <2>3, <2>4, RequestStep
    <2> QED BY <1>1, <2>5, TypeInvParts, TypeFrom DEF List, keys, counts
<1>2. CASE Sweep(r)
    <2>1. PICK x \in request[r].todo :
            /\ mark' = [mark EXCEPT ![k] = @ \ {x}]
            /\ loose' = [loose EXCEPT ![k] = @ \ {x}]
            /\ request' = [request EXCEPT ![r].todo = @ \ {x}]
        BY <1>2 DEF Sweep
    <2> DEFINE new == [request[r] EXCEPT !.todo = @ \ {x}]
    <2>2. new \in Requested /\ Fits(new)
        BY <1>0 DEF Requested, Fits
    <2>3. request' = [request EXCEPT ![r] = new]
        BY <2>1
    <2>4. RequestsFit'
        BY <1>0, <2>2, <2>3, RequestStep
    <2>5. mark' \in [Kinds -> SUBSET Items] /\ loose' \in [Kinds -> SUBSET Items]
        BY <2>1, TypeInvParts
    <2> QED BY <1>2, <2>4, <2>5, TypeInvParts, TypeFrom DEF Sweep, counts
<1>3. CASE Wipe(r)
    <2>1. RequestsFit'
        <3>1. CASE Goto(r, "clear")
            BY <1>0, <1>3, <3>1, GotoFits DEF Wipe, At, Fits, Pcs
        <3>2. ASSUME NEW j \in NextKind(k), ~(NextKind(k) \subseteq {"done"}),
                     request' = [request EXCEPT ![r].pc = "list", ![r].kind = j]
              PROVE  RequestsFit'
            <4> DEFINE new == [request[r] EXCEPT !.pc = "list", !.kind = j]
            <4>1. j \in Kinds /\ j # "done"
                BY <1>0, <3>2, KindOrder DEF Requested
            <4>2. new \in Requested
                BY <1>0, <4>1 DEF Requested, Pcs
            <4>3. Fits(new)
                BY <1>0, <1>3, <4>1 DEF Wipe, At, Requested, Fits
            <4>4. request' = [request EXCEPT ![r] = new]
                BY <3>2
            <4> QED BY <1>0, <4>2, <4>3, <4>4, RequestStep
        <3> QED BY <1>3, <3>1, <3>2 DEF Wipe
    <2>2. index' \in [Kinds -> SUBSET Items]
        BY <1>3, TypeInvParts DEF Wipe
    <2> QED BY <1>3, <2>1, <2>2, TypeInvParts, TypeFrom DEF Wipe, counts
<1> QED BY <1>1, <1>2, <1>3

LEMMA TypeLoad ==
    ASSUME TypeInv, NEW r \in Requests, Load(r) \/ Check(r) \/ Drop(r) \/ Scan(r) \/ LoadFails(r)
    PROVE  TypeInv'
<1>0. request[r] \in Requested /\ Fits(request[r]) /\ RequestsFit
    BY TypeInvParts DEF RequestsFit
<1>1. CASE Load(r)
    <2>1. PICK k \in (IF At(r, "load") THEN {request[r].kind} ELSE NextKind(request[r].kind)) :
            request' = [request EXCEPT ![r].pc = "check", ![r].kind = k, ![r].todo = index[k]]
        BY <1>1 DEF Load
    <2>2. k \in Kinds /\ index[k] \in SUBSET Items
        BY <1>0, KindOrder, TypeInvParts DEF Requested
    <2> DEFINE new == [request[r] EXCEPT !.pc = "check", !.kind = k, !.todo = index[k]]
    <2>3. new \in Requested
        BY <1>0, <2>2 DEF Requested, Pcs
    <2>4. Fits(new)
        BY <1>0, <1>1 DEF Load, At, Requested, Fits
    <2>5. request' = [request EXCEPT ![r] = new]
        BY <2>1
    <2>6. RequestsFit'
        BY <1>0, <2>3, <2>4, <2>5, RequestStep
    <2> QED BY <1>1, <2>6, TypeInvParts, TypeFrom DEF Load, keys, counts
<1>2. CASE Check(r)
    <2> DEFINE k == request[r].kind
    <2>1. PICK x \in request[r].todo :
            request' = IF x \in mark[k]
                     THEN [request EXCEPT ![r].todo = @ \ {x}, ![r].seen[k] = @ \cup {x}]
                     ELSE [request EXCEPT ![r].pc = "drop", ![r].item = x]
        BY <1>2 DEF Check
    <2>2. x \in Items /\ k \in Kinds /\ request[r].seen \in [Kinds -> SUBSET Items]
        BY <1>0 DEF Requested
    <2>3. RequestsFit'
        <3>1. CASE x \in mark[k]
            <4> DEFINE new == [request[r] EXCEPT !.todo = @ \ {x}, !.seen[k] = @ \cup {x}]
            <4>1. [request[r].seen EXCEPT ![k] = @ \cup {x}] \in [Kinds -> SUBSET Items]
                BY <2>2
            <4>2. new \in Requested
                BY <1>0, <4>1 DEF Requested
            <4>3. Fits(new)
                BY <1>0 DEF Requested, Fits
            <4>4. request' = [request EXCEPT ![r] = new]
                BY <2>1, <3>1
            <4> QED BY <1>0, <4>2, <4>3, <4>4, RequestStep
        <3>2. CASE x \notin mark[k]
            <4> DEFINE new == [request[r] EXCEPT !.pc = "drop", !.item = x]
            <4>1. new \in Requested
                BY <1>0, <2>2 DEF Requested, Pcs
            <4>2. Fits(new)
                BY <1>0, <1>2, <2>2 DEF Check, At, Requested, Fits
            <4>3. request' = [request EXCEPT ![r] = new]
                BY <2>1, <3>2
            <4> QED BY <1>0, <4>1, <4>2, <4>3, RequestStep
        <3> QED BY <3>1, <3>2
    <2> QED BY <1>2, <2>3, TypeInvParts, TypeFrom DEF Check, keys, counts
<1>3. CASE Drop(r)
    <2> DEFINE new == [request[r] EXCEPT !.pc = "check", !.todo = @ \ {request[r].item}, !.item = NoItem]
    <2>1. new \in Requested
        BY <1>0 DEF Requested, Pcs
    <2>2. Fits(new)
        BY <1>0, <1>3 DEF Drop, At, Requested, Fits
    <2>3. request' = [request EXCEPT ![r] = new]
        BY <1>3 DEF Drop
    <2>4. RequestsFit'
        BY <1>0, <2>1, <2>2, <2>3, RequestStep
    <2>5. index' \in [Kinds -> SUBSET Items]
        BY <1>3, TypeInvParts DEF Drop
    <2> QED BY <1>3, <2>4, <2>5, TypeInvParts, TypeFrom DEF Drop, counts
<1>4. CASE Scan(r)
    <2> DEFINE seen == [k \in Kinds |-> IF request[r].seen[k] = {} THEN mark[k] ELSE request[r].seen[k]]
               new == [request[r] EXCEPT !.pc = "focus", !.seen = seen]
    <2>1. seen \in [Kinds -> SUBSET Items]
        BY <1>0, TypeInvParts DEF Requested
    <2>2. new \in Requested
        BY <1>0, <2>1 DEF Requested, Pcs
    <2>3. Fits(new)
        BY <1>0, <1>4 DEF Scan, At, Requested, Fits
    <2>4. request' = [request EXCEPT ![r] = new]
        BY <1>4 DEF Scan
    <2>5. RequestsFit'
        BY <1>0, <2>2, <2>3, <2>4, RequestStep
    <2> QED BY <1>4, <2>5, TypeInvParts, TypeFrom DEF Scan, keys, counts
<1>5. CASE LoadFails(r)
    <2> DEFINE new == [Idle EXCEPT !.pc = "focus", !.op = request[r].op]
    <2>1. new \in Requested /\ Fits(new)
        BY <1>0, <1>5, IdleFits DEF LoadFails, Requested, Fits, Pcs
    <2>2. request' = [request EXCEPT ![r] = new]
        BY <1>5 DEF LoadFails
    <2>3. RequestsFit'
        BY <1>0, <2>1, <2>2, RequestStep
    <2>4. mishaps' \in 0..MaxMishaps
        <3>1. mishaps < MaxMishaps /\ mishaps' = mishaps + 1
            BY <1>5 DEF LoadFails
        <3> QED BY <3>1, TypeInvParts
    <2> QED BY <1>5, <2>3, <2>4, TypeInvParts, TypeFrom DEF LoadFails, keys, counts
<1> QED BY <1>1, <1>2, <1>3, <1>4, <1>5

\* The best of some items is one of them.
LEMMA BestItem ==
    ASSUME NEW S \in SUBSET Items, S # {}
    PROVE  (CHOOSE x \in S : \A y \in S : y <= x) \in S
<1>1. \E x \in S : \A y \in S : y <= x
    BY ItemsAssumption
<1> QED BY <1>1

LEMMA TypeFocus ==
    ASSUME TypeInv, NEW r \in Requests, Focus(r) \/ Own(r) \/ OwnFails(r) \/ Rescan(r) \/ Pick(r)
    PROVE  TypeInv'
<1>0. request[r] \in Requested /\ Fits(request[r]) /\ RequestsFit
    BY TypeInvParts DEF RequestsFit
<1>1. CASE Focus(r) \/ Rescan(r)
    <2>1. RequestsFit'
        BY <1>0, <1>1, EndFits, LookFits, TypeInvParts DEF Focus, Rescan, At, Looking
    <2>2. lease' \in [Operators -> Items \cup {NoItem}]
        BY <1>1, TypeInvParts DEF Focus, Rescan
    <2> QED BY <1>1, <2>1, <2>2, TypeInvParts, TypeFrom DEF Focus, Rescan, keys, counts
<1>2. CASE Own(r)
    <2>1. RequestsFit'
        BY <1>0, <1>2, EndFits, GotoFits DEF Own, At, Pcs, Looking
    <2>2. lease' \in [Operators -> Items \cup {NoItem}]
        BY <1>2, TypeInvParts DEF Own
    <2> QED BY <1>2, <2>1, <2>2, TypeInvParts, TypeFrom DEF Own, keys, counts
<1>3. CASE OwnFails(r)
    <2>1. RequestsFit'
        BY <1>0, <1>3, GotoFits DEF OwnFails, At, Pcs, Looking
    <2>2. mishaps' \in 0..MaxMishaps
        <3>1. mishaps < MaxMishaps /\ mishaps' = mishaps + 1
            BY <1>3 DEF OwnFails
        <3> QED BY <3>1, TypeInvParts
    <2> QED BY <1>3, <2>1, <2>2, TypeInvParts, TypeFrom DEF OwnFails, keys, counts
<1>4. CASE Pick(r)
    <2>1. RequestsFit'
        BY <1>0, <1>4, EndFits DEF Pick
    <2>2. CASE UNCHANGED <<lease, overlap>>
        BY <1>4, <2>1, <2>2, TypeInvParts, TypeFrom DEF Pick, keys, counts
    <2>3. CASE /\ Free(r) # {}
               /\ lease' = [lease EXCEPT ![request[r].op] =
                            CHOOSE x \in Free(r) : \A y \in Free(r) : y <= x]
               /\ overlap' = {pair \in overlap : request[r].op \notin pair}
                                \cup {{request[r].op, p} : p \in request[r].met}
        <3>1. (CHOOSE x \in Free(r) : \A y \in Free(r) : y <= x) \in Items
            BY <2>3, BestItem DEF Free, Active
        <3>2. lease' \in [Operators -> Items \cup {NoItem}]
            BY <2>3, <3>1, TypeInvParts
        <3>3. request[r].op \in Operators /\ request[r].met \subseteq Operators
            BY <1>0, <1>4 DEF Pick, At, Requested, Fits
        <3>4. overlap' \subseteq SUBSET Operators
            BY <2>3, <3>3, TypeInvParts
        <3> QED BY <1>4, <2>1, <3>2, <3>4, TypeInvParts, TypeFrom DEF Pick, keys, counts
    <2> QED BY <1>4, <2>2, <2>3 DEF Pick
<1> QED BY <1>1, <1>2, <1>3, <1>4

LEMMA TypeTime ==
    ASSUME TypeInv,
           \/ \E r \in Requests : Die(r)
           \/ \E k \in Kinds, x \in Items : Lapse(k, x)
           \/ \E o \in Operators : LeaseEnds(o)
    PROVE  TypeInv'
<1>1. ASSUME NEW r \in Requests, Die(r) PROVE TypeInv'
    <2>1. RequestsFit'
        BY <1>1, EndFits, TypeInvParts DEF Die
    <2>2. loose' \in [Kinds -> SUBSET Items]
        <3>1. At(r, "index") => request[r].item \in Items
            BY TypeInvParts DEF RequestsFit, Fits, At
        <3>2. loose' \in {loose, [loose EXCEPT ![request[r].kind] = @ \cup {request[r].item}]}
              /\ (loose' # loose => At(r, "index"))
            BY <1>1 DEF Die
        <3> QED BY <3>1, <3>2, TypeInvParts
    <2>3. mishaps' \in 0..MaxMishaps
        <3>1. mishaps < MaxMishaps /\ mishaps' = mishaps + 1
            BY <1>1 DEF Die
        <3> QED BY <3>1, TypeInvParts
    <2> QED BY <1>1, <2>1, <2>2, <2>3, TypeInvParts, TypeFrom DEF Die, keys, counts
<1>2. ASSUME NEW k \in Kinds, NEW x \in Items, Lapse(k, x) PROVE TypeInv'
    <2>1. RequestsFit'
        BY <1>2, TypeInvParts DEF Lapse, RequestsFit
    <2>2. mark' \in [Kinds -> SUBSET Items] /\ loose' \in [Kinds -> SUBSET Items]
        BY <1>2, TypeInvParts DEF Lapse
    <2>3. ended' \in [Items -> Nat]
        BY <1>2, TypeInvParts DEF Lapse
    <2>4. lapses' \in 0..MaxLapses
        <3>1. lapses < MaxLapses /\ lapses' = lapses + 1
            BY <1>2 DEF Lapse
        <3> QED BY <3>1, TypeInvParts
    <2> QED BY <1>2, <2>1, <2>2, <2>3, <2>4, TypeInvParts, TypeFrom DEF Lapse
<1>3. ASSUME NEW o \in Operators, LeaseEnds(o) PROVE TypeInv'
    <2>1. RequestsFit'
        BY <1>3, TypeInvParts DEF LeaseEnds, RequestsFit
    <2>2. lease' \in [Operators -> Items \cup {NoItem}]
        BY <1>3, TypeInvParts DEF LeaseEnds
    <2> QED BY <1>3, <2>1, <2>2, TypeInvParts, TypeFrom DEF LeaseEnds, keys, counts
<1> QED BY <1>1, <1>2, <1>3

LEMMA TypeNext == TypeInv /\ [Next]_vars => TypeInv'
<1> SUFFICES ASSUME TypeInv, [Next]_vars PROVE TypeInv'
    OBVIOUS
<1>1. CASE UNCHANGED vars
    BY <1>1 DEF vars, keys, counts, TypeInv, TypeOK
<1> QED BY <1>1, TypeAct, TypeReset, TypeLoad, TypeFocus, TypeTime DEF Next

LEMMA TypeAlways == Spec => []TypeInv
BY TypeInit, TypeNext, PTL DEF Spec
-----------------------------------------------------------------------------
(* What a step does to the requests *)

\* All but the requests that a Look has been told to, which keep all but "met".
OthersKept(r) ==
    \A q \in Requests \ {r} :
        /\ request'[q].pc = request[q].pc /\ request'[q].op = request[q].op
        /\ request'[q].act = request[q].act /\ request'[q].item = request[q].item
        /\ request'[q].kind = request[q].kind /\ request'[q].todo = request[q].todo
        /\ request'[q].busy = request[q].busy /\ request[q].met \subseteq request'[q].met

LEMMA Goes ==
    ASSUME RequestsFit, NEW r \in Requests, NEW s \in Pcs, Goto(r, s)
    PROVE  /\ OthersKept(r)
           /\ request'[r].pc = s /\ request'[r].op = request[r].op /\ request'[r].act = request[r].act
           /\ request'[r].item = request[r].item /\ request'[r].kind = request[r].kind
           /\ request'[r].todo = request[r].todo /\ request'[r].busy = request[r].busy
           /\ request'[r].met = request[r].met
BY DEF RequestsFit, Goto, Requested, OthersKept

LEMMA Ends ==
    ASSUME RequestsFit, NEW r \in Requests, ToLoad(r) \/ End(r) \/ LoadFails(r)
    PROVE  OthersKept(r) /\ request'[r].pc \in {"idle", "load", "focus"}
<1>1. CASE ToLoad(r)
    <2>1. PICK k \in FirstKind :
            request' = [request EXCEPT ![r] = [Idle EXCEPT !.pc = "load", !.op = request[r].op, !.kind = k]]
        BY <1>1 DEF ToLoad
    <2> QED BY <2>1, IdleFits DEF RequestsFit, Requested, OthersKept
<1>2. CASE End(r)
    BY <1>2 DEF End, Idle, RequestsFit, OthersKept
<1>3. CASE LoadFails(r)
    <2>1. request' = [request EXCEPT ![r] = [Idle EXCEPT !.pc = "focus", !.op = request[r].op]]
        BY <1>3 DEF LoadFails
    <2> QED BY <2>1, IdleFits DEF RequestsFit, Requested, OthersKept
<1> QED BY <1>1, <1>2, <1>3

LEMMA Opens ==
    ASSUME RequestsFit, NEW r \in Requests, Open(r)
    PROVE  OthersKept(r) /\ request'[r].pc \in {"load", "list", "mark"}
<1>1. PICK new \in {request'[r]} : request' = [request EXCEPT ![r] = new]
    BY DEF Open, RequestsFit
<1>2. OthersKept(r)
    BY <1>1 DEF RequestsFit, OthersKept
<1>3. PICK o \in Operators, act \in Acts :
        \E x \in (IF act \in {"view", "reset"} THEN {NoItem} ELSE Items), k \in FirstKind :
          request' = [request EXCEPT ![r] = [Idle EXCEPT
             !.op = o, !.act = act, !.item = x,
             !.kind = IF act \in {"view", "reset"} THEN k ELSE KindOf(act),
             !.pc = CASE act = "view" -> "load" [] act = "reset" -> "list" [] OTHER -> "mark"]]
    BY DEF Open
<1>4. request'[r].pc = CASE act = "view" -> "load" [] act = "reset" -> "list" [] OTHER -> "mark"
    BY <1>3, IdleFits DEF RequestsFit, Requested
<1> QED BY <1>2, <1>4

\* List, Sweep, Wipe, Load, Check, Drop and Scan.
LEMMA Reads ==
    ASSUME TypeInv, NEW r \in Requests
    PROVE  /\ List(r) => /\ OthersKept(r) /\ request'[r].pc = "sweep"
                         /\ request'[r].kind = request[r].kind
                         /\ request'[r].todo = index[request[r].kind] \cup mark[request[r].kind]
           /\ Wipe(r) => /\ OthersKept(r)
                         /\ request'[r].pc = "list" \/ (request'[r].pc = "clear" /\ request'[r].act = "reset")
           /\ Load(r) \/ Drop(r) \/ Scan(r) =>
                 OthersKept(r) /\ request'[r].pc \in {"check", "focus"}
<1>0. RequestsFit /\ request[r] \in Requested /\ Fits(request[r])
    BY TypeInvParts DEF RequestsFit
<1>1. ASSUME List(r) PROVE /\ OthersKept(r) /\ request'[r].pc = "sweep"
                           /\ request'[r].kind = request[r].kind
                           /\ request'[r].todo = index[request[r].kind] \cup mark[request[r].kind]
    <2>1. request' = [request EXCEPT ![r].pc = "sweep",
                         ![r].todo = index[request[r].kind] \cup mark[request[r].kind]]
        BY <1>1 DEF List
    <2> QED BY <1>0, <2>1 DEF RequestsFit, Requested, OthersKept
<1>2. ASSUME Wipe(r) PROVE /\ OthersKept(r)
                           /\ request'[r].pc = "list" \/ (request'[r].pc = "clear" /\ request'[r].act = "reset")
    <2>1. CASE Goto(r, "clear")
        BY <1>0, <1>2, <2>1, Goes DEF Wipe, At, Fits, Pcs
    <2>2. ASSUME NEW j, request' = [request EXCEPT ![r].pc = "list", ![r].kind = j]
          PROVE  OthersKept(r) /\ request'[r].pc = "list"
        BY <1>0, <2>2 DEF RequestsFit, Requested, OthersKept
    <2> QED BY <1>2, <2>1, <2>2 DEF Wipe
<1>3. ASSUME Load(r) PROVE OthersKept(r) /\ request'[r].pc = "check"
    <2>1. PICK k \in (IF At(r, "load") THEN {request[r].kind} ELSE NextKind(request[r].kind)) :
            request' = [request EXCEPT ![r].pc = "check", ![r].kind = k, ![r].todo = index[k]]
        BY <1>3 DEF Load
    <2> QED BY <1>0, <2>1 DEF RequestsFit, Requested, OthersKept
<1>4. ASSUME Drop(r) PROVE OthersKept(r) /\ request'[r].pc = "check"
    BY <1>0, <1>4 DEF Drop, RequestsFit, Requested, OthersKept
<1>5. ASSUME Scan(r) PROVE OthersKept(r) /\ request'[r].pc = "focus"
    BY <1>0, <1>5 DEF Scan, RequestsFit, Requested, OthersKept
<1> QED BY <1>1, <1>2, <1>3, <1>4, <1>5

LEMMA Sweeps ==
    ASSUME TypeInv, NEW r \in Requests, Sweep(r)
    PROVE  \E x \in request[r].todo :
              /\ x \in Items /\ OthersKept(r) /\ request'[r].pc = "sweep"
              /\ request'[r].kind = request[r].kind /\ request'[r].todo = request[r].todo \ {x}
              /\ mark' = [mark EXCEPT ![request[r].kind] = @ \ {x}]
              /\ loose' = [loose EXCEPT ![request[r].kind] = @ \ {x}]
<1>0. RequestsFit /\ request[r] \in Requested
    BY TypeInvParts DEF RequestsFit
<1>1. PICK x \in request[r].todo :
            /\ mark' = [mark EXCEPT ![request[r].kind] = @ \ {x}]
            /\ loose' = [loose EXCEPT ![request[r].kind] = @ \ {x}]
            /\ request' = [request EXCEPT ![r].todo = @ \ {x}]
    BY DEF Sweep
<1>2. /\ OthersKept(r) /\ request'[r].pc = request[r].pc
      /\ request'[r].kind = request[r].kind /\ request'[r].todo = request[r].todo \ {x}
    BY <1>0, <1>1 DEF RequestsFit, Requested, OthersKept
<1> QED BY <1>0, <1>1, <1>2 DEF Requested, Sweep, At

LEMMA Checks ==
    ASSUME TypeInv, NEW r \in Requests, Check(r)
    PROVE  /\ OthersKept(r)
           /\ \/ request'[r].pc = "check"
              \/ /\ request'[r].pc = "drop" /\ request'[r].kind = request[r].kind
                 /\ request'[r].item \in Items /\ request'[r].item \notin mark[request[r].kind]
<1>0. RequestsFit /\ request[r] \in Requested
    BY TypeInvParts DEF RequestsFit
<1>1. PICK x \in request[r].todo :
        request' = IF x \in mark[request[r].kind]
                 THEN [request EXCEPT ![r].todo = @ \ {x}, ![r].seen[request[r].kind] = @ \cup {x}]
                 ELSE [request EXCEPT ![r].pc = "drop", ![r].item = x]
    BY DEF Check
<1>2. CASE x \in mark[request[r].kind]
    <2>1. request' = [request EXCEPT ![r].todo = @ \ {x}, ![r].seen[request[r].kind] = @ \cup {x}]
        BY <1>1, <1>2
    <2>2. OthersKept(r) /\ request'[r].pc = request[r].pc
        BY <1>0, <2>1 DEF RequestsFit, Requested, OthersKept
    <2> QED BY <2>2 DEF Check, At
<1>3. CASE x \notin mark[request[r].kind]
    <2>1. request' = [request EXCEPT ![r].pc = "drop", ![r].item = x]
        BY <1>1, <1>3
    <2>2. /\ OthersKept(r) /\ request'[r].pc = "drop" /\ request'[r].kind = request[r].kind
          /\ request'[r].item = x
        BY <1>0, <2>1 DEF RequestsFit, Requested, OthersKept
    <2> QED BY <1>0, <1>3, <2>2 DEF Requested
<1> QED BY <1>2, <1>3

LEMMA Looks ==
    ASSUME RequestsFit, NEW r \in Requests, NEW s \in Pcs, Look(r, s)
    PROVE  /\ OthersKept(r)
           /\ request'[r].pc = s /\ request'[r].op = request[r].op /\ request'[r].busy = Leased
           /\ \A q \in Requests : request[q].pc \in Looking /\ request[q].op # request[r].op =>
                 request[q].op \in request'[r].met /\ request[r].op \in request'[q].met
<1> DEFINE others == {q \in Requests : request[q].pc \in Looking /\ request[q].op # request[r].op}
<1>0. \A q \in Requests : request[q] \in Requested
    BY DEF RequestsFit
<1>1. request' = [q \in Requests |->
          IF q = r THEN [request[r] EXCEPT !.pc = s, !.busy = Leased,
                                           !.met = {request[p].op : p \in others}]
          ELSE IF q \in others THEN [request[q] EXCEPT !.met = @ \cup {request[r].op}]
          ELSE request[q]]
    BY DEF Look
<1>2. /\ request'[r].pc = s /\ request'[r].op = request[r].op /\ request'[r].busy = Leased
      /\ request'[r].met = {request[p].op : p \in others}
    BY <1>0, <1>1 DEF Requested
<1>3. ASSUME NEW q \in Requests \ {r}
      PROVE  /\ q \in others => request'[q] = [request[q] EXCEPT !.met = @ \cup {request[r].op}]
             /\ q \notin others => request'[q] = request[q]
    BY <1>1
<1>4. ASSUME NEW q \in Requests \ {r}
      PROVE  /\ request'[q].pc = request[q].pc /\ request'[q].op = request[q].op
             /\ request'[q].act = request[q].act /\ request'[q].item = request[q].item
             /\ request'[q].kind = request[q].kind /\ request'[q].todo = request[q].todo
             /\ request'[q].busy = request[q].busy /\ request[q].met \subseteq request'[q].met
             /\ q \in others => request[r].op \in request'[q].met
    <2>1. CASE q \in others
        <3>1. request'[q] = [request[q] EXCEPT !.met = @ \cup {request[r].op}]
            BY <1>3, <2>1
        <3> HIDE DEF others
        <3> QED BY <1>0, <3>1 DEF Requested
    <2>2. CASE q \notin others
        <3>1. request'[q] = request[q]
            BY <1>3, <2>2
        <3> HIDE DEF others
        <3> QED BY <2>2, <3>1
    <2> QED BY <2>1, <2>2
<1>5. OthersKept(r)
    BY <1>4 DEF OthersKept
<1>6. \A q \in others : q # r
    OBVIOUS
<1> QED BY <1>2, <1>4, <1>5, <1>6

-----------------------------------------------------------------------------
(* Completions are told of once *)

\* Requests that wrote the done key of x and have not committed its event.
Owes(r, x) == request[r].act = "complete" /\ request[r].item = x
              /\ request[r].pc \in {"index", "clear", "tell"}
Owe(x) == {r \in Requests : Owes(r, x)}

\* Every life of a done key has been told of or has somebody who will.
CountInv ==
    \A x \in Items :
        /\ IsFiniteSet(Owe(x))
        /\ events[x] + Cardinality(Owe(x)) <= Lives(x)
        /\ mishaps = 0 => events[x] + Cardinality(Owe(x)) = Lives(x)

LEMMA CountGivesOnce == ASSUME TypeInv, CountInv PROVE CompletedOnce
<1> SUFFICES ASSUME NEW x \in Items
             PROVE  /\ events[x] <= Lives(x)
                    /\ mishaps = 0 => events[x] = Lives(x) \/ Owing(x)
    BY DEF CompletedOnce
<1>1. IsFiniteSet(Owe(x)) /\ events[x] + Cardinality(Owe(x)) <= Lives(x)
      /\ (mishaps = 0 => events[x] + Cardinality(Owe(x)) = Lives(x))
    BY DEF CountInv
<1>2. Cardinality(Owe(x)) \in Nat /\ events[x] \in Nat /\ Lives(x) \in Nat
    BY <1>1, FS_CardinalityType, TypeInvParts DEF Lives
<1>3. CASE Owe(x) = {}
    <2>1. Cardinality(Owe(x)) = 0
        BY <1>3, FS_EmptySet
    <2> QED BY <1>1, <1>2, <2>1
<1>4. CASE Owe(x) # {}
    BY <1>1, <1>2, <1>4 DEF Owe, Owes, Owing
<1> QED BY <1>3, <1>4

\* A step of r that leaves its debts alone.
LEMMA OweKept ==
    ASSUME NEW r \in Requests, OthersKept(r), NEW x \in Items, Owes(r, x)' <=> Owes(r, x)
    PROVE  Owe(x)' = Owe(x)
<1>1. ASSUME NEW q \in Requests PROVE Owes(q, x)' <=> Owes(q, x)
    BY DEF OthersKept, Owes
<1> QED BY <1>1 DEF Owe

LEMMA CountKept ==
    ASSUME CountInv, \A x \in Items : Owe(x)' = Owe(x), UNCHANGED counts, mark'["done"] = mark["done"],
           mishaps \in Nat, mishaps' = mishaps \/ mishaps' = mishaps + 1
    PROVE  CountInv'
BY DEF CountInv, counts, Lives

LEMMA CountInit == Init => CountInv
<1> SUFFICES ASSUME Init, NEW x \in Items
             PROVE  Owe(x) = {} /\ events[x] = 0 /\ Lives(x) = 0
    BY FS_EmptySet DEF CountInv
<1> QED BY DEF Init, Owe, Owes, Idle, Lives, NoSets

LEMMA CountRegister ==
    ASSUME TypeInv, CountInv, NEW r \in Requests, Register(r)
    PROVE  CountInv'
<1> DEFINE k == request[r].kind
<1>0. RequestsFit /\ request[r] \in Requested /\ Fits(request[r]) /\ mishaps \in Nat
    BY TypeInvParts DEF RequestsFit
<1>1. PICK y \in Items : y = request[r].item
    BY <1>0 DEF Register, Requested, Fits
<1>2. /\ request[r].pc \in {"mark", "index"} /\ k \in Kinds /\ k = KindOf(request[r].act)
      /\ request[r].act \in Acts /\ request[r].act \notin {"view", "reset"}
    BY <1>0 DEF Register, Requested, Fits
<1>3. k = "done" <=> request[r].act = "complete"
    BY <1>2 DEF KindOf, Acts, AllKinds
<1>4. /\ OthersKept(r) /\ request'[r].act = request[r].act /\ request'[r].item = y
      /\ request'[r].pc = IF request[r].pc = "mark" THEN "index" ELSE "clear"
    BY <1>0, <1>1, Goes DEF Register, At, Pcs
<1>5. CASE request[r].pc = "index" \/ k # "done"
    <2>1. ASSUME NEW x \in Items PROVE Owe(x)' = Owe(x)
        BY <1>2, <1>3, <1>4, <1>5, <1>1, OweKept DEF Owes
    <2>2. mark'["done"] = mark["done"] /\ UNCHANGED <<counts, mishaps>>
        BY <1>2, <1>5, TypeInvParts DEF Register, WritesKey
    <2> QED BY <1>0, <2>1, <2>2, CountKept
<1>6. CASE request[r].pc = "mark" /\ k = "done"
    <2>1. y \notin mark["done"]
        BY <1>6, <1>1 DEF Register, Taken, At
    <2>2. mark' = [mark EXCEPT !["done"] = @ \cup {y}] /\ UNCHANGED <<counts, mishaps>>
        BY <1>6, <1>1 DEF Register, WritesKey
    <2>3. mark'["done"] = mark["done"] \cup {y}
        BY <2>2, TypeInvParts
    <2>4. ASSUME NEW x \in Items, x # y PROVE Owe(x)' = Owe(x) /\ Lives(x)' = Lives(x)
        BY <1>4, <1>1, <2>2, <2>3, <2>4, OweKept DEF Owes, counts, Lives
    <2>5. Lives(y)' = Lives(y) + 1
        <3>1. ended' = ended /\ ended[y] \in Nat
            BY <2>2, TypeInvParts DEF counts
        <3> QED BY <2>1, <2>3, <3>1 DEF Lives
    <2>6. r \notin Owe(y) /\ Owe(y)' = Owe(y) \cup {r}
        <3>1. ~Owes(r, y) /\ Owes(r, y)'
            BY <1>3, <1>4, <1>6, <1>1 DEF Owes
        <3>2. ASSUME NEW q \in Requests \ {r} PROVE Owes(q, y)' <=> Owes(q, y)
            BY <1>4 DEF OthersKept, Owes
        <3> QED BY <3>1, <3>2 DEF Owe
    <2>7. IsFiniteSet(Owe(y)') /\ Cardinality(Owe(y)') = Cardinality(Owe(y)) + 1
        BY <2>6, FS_AddElement DEF CountInv
    <2>8. Cardinality(Owe(y)) \in Nat /\ events[y] \in Nat /\ Lives(y) \in Nat
        BY FS_CardinalityType, TypeInvParts DEF CountInv, Lives
    <2>9. ASSUME NEW x \in Items
          PROVE  /\ IsFiniteSet(Owe(x)') /\ events'[x] + Cardinality(Owe(x)') <= Lives(x)'
                 /\ mishaps' = 0 => events'[x] + Cardinality(Owe(x)') = Lives(x)'
        <3>1. CASE x = y
            BY <2>2, <2>5, <2>7, <2>8, <3>1 DEF CountInv, counts
        <3>2. CASE x # y
            BY <2>2, <2>4, <3>2 DEF CountInv, counts
        <3> QED BY <3>1, <3>2
    <2> QED BY <2>9 DEF CountInv
<1> QED BY <1>2, <1>5, <1>6

LEMMA CountTell ==
    ASSUME TypeInv, CountInv, NEW r \in Requests, Tell(r)
    PROVE  CountInv'
<1>0. RequestsFit /\ request[r] \in Requested /\ Fits(request[r]) /\ mishaps \in Nat
    BY TypeInvParts DEF RequestsFit
<1>1. PICK y \in Items : y = request[r].item /\ request[r].act = "complete" /\ request[r].pc = "tell"
    BY <1>0 DEF Tell, At, Fits
<1>2. OthersKept(r) /\ request'[r].pc \in {"idle", "load", "focus"}
    BY <1>0, Ends DEF Tell
<1>3. events' = [events EXCEPT ![y] = @ + 1] /\ UNCHANGED <<mark, ended, mishaps>>
    BY <1>1 DEF Tell, keys
<1>4. \A x \in Items : Lives(x)' = Lives(x)
    BY <1>3 DEF Lives
<1>5. ASSUME NEW x \in Items, x # y PROVE Owe(x)' = Owe(x) /\ events'[x] = events[x]
    <2>1. Owe(x)' = Owe(x)
        BY <1>1, <1>2, <1>5, OweKept DEF Owes
    <2> QED BY <1>3, <1>5, <2>1, TypeInvParts
<1>6. r \in Owe(y) /\ Owe(y)' = Owe(y) \ {r}
    <2>1. Owes(r, y) /\ ~Owes(r, y)'
        BY <1>1, <1>2 DEF Owes
    <2>2. ASSUME NEW q \in Requests \ {r} PROVE Owes(q, y)' <=> Owes(q, y)
        BY <1>2 DEF OthersKept, Owes
    <2> QED BY <2>1, <2>2 DEF Owe
<1>7. IsFiniteSet(Owe(y)') /\ Cardinality(Owe(y)') = Cardinality(Owe(y)) - 1
    BY <1>6, FS_RemoveElement DEF CountInv
<1>8. Cardinality(Owe(y)) \in Nat /\ events[y] \in Nat /\ Lives(y) \in Nat
    BY FS_CardinalityType, TypeInvParts DEF CountInv, Lives
<1>9. events'[y] = events[y] + 1
    BY <1>3, TypeInvParts
<1>10. ASSUME NEW x \in Items
       PROVE  /\ IsFiniteSet(Owe(x)') /\ events'[x] + Cardinality(Owe(x)') <= Lives(x)'
              /\ mishaps' = 0 => events'[x] + Cardinality(Owe(x)') = Lives(x)'
    <2>1. CASE x = y
        BY <1>3, <1>4, <1>7, <1>8, <1>9, <2>1 DEF CountInv
    <2>2. CASE x # y
        BY <1>3, <1>4, <1>5, <2>2 DEF CountInv
    <2> QED BY <2>1, <2>2
<1> QED BY <1>10 DEF CountInv

LEMMA CountDie ==
    ASSUME TypeInv, CountInv, NEW r \in Requests, Die(r)
    PROVE  CountInv'
<1>0. RequestsFit /\ mishaps \in Nat
    BY TypeInvParts
<1>1. OthersKept(r) /\ request'[r].pc \in {"idle", "load", "focus"}
    BY <1>0, Ends DEF Die
<1>2. mishaps' = mishaps + 1 /\ UNCHANGED <<mark, counts>>
    BY DEF Die, keys
<1>3. ASSUME NEW x \in Items
      PROVE  IsFiniteSet(Owe(x)') /\ events'[x] + Cardinality(Owe(x)') <= Lives(x)'
    <2>1. Owe(x)' \subseteq Owe(x)
        <3>1. ~Owes(r, x)'
            BY <1>1 DEF Owes
        <3>2. ASSUME NEW q \in Requests \ {r} PROVE Owes(q, x)' <=> Owes(q, x)
            BY <1>1 DEF OthersKept, Owes
        <3> QED BY <3>1, <3>2 DEF Owe
    <2>2. IsFiniteSet(Owe(x)') /\ Cardinality(Owe(x)') <= Cardinality(Owe(x))
        BY <2>1, FS_Subset DEF CountInv
    <2>3. Cardinality(Owe(x)) \in Nat /\ Cardinality(Owe(x)') \in Nat
        BY <2>2, FS_CardinalityType DEF CountInv
    <2>4. events[x] \in Nat /\ Lives(x) \in Nat /\ events' = events /\ Lives(x)' = Lives(x)
        BY <1>2, TypeInvParts DEF Lives, counts
    <2> QED BY <2>2, <2>3, <2>4 DEF CountInv
<1> QED BY <1>0, <1>2, <1>3 DEF CountInv

LEMMA CountLapse ==
    ASSUME TypeInv, CountInv, NEW k \in Kinds, NEW y \in Items, Lapse(k, y)
    PROVE  CountInv'
<1>1. \A x \in Items : Owe(x)' = Owe(x)
    BY DEF Lapse, Owe, Owes
<1>2. CASE k # "done"
    <2>1. mark'["done"] = mark["done"] /\ UNCHANGED <<counts, mishaps>>
        BY <1>2, TypeInvParts DEF Lapse, counts
    <2> QED BY <1>1, <2>1, CountKept, TypeInvParts
<1>3. CASE k = "done"
    <2>1. /\ y \in mark["done"] /\ mark'["done"] = mark["done"] \ {y}
          /\ ended' = [ended EXCEPT ![y] = @ + 1] /\ UNCHANGED <<events, mishaps>>
        BY <1>3, TypeInvParts DEF Lapse
    <2>2. ASSUME NEW x \in Items PROVE Lives(x)' = Lives(x)
        <3>1. ended[x] \in Nat /\ ended'[x] = IF x = y THEN ended[x] + 1 ELSE ended[x]
            BY <2>1, TypeInvParts
        <3> QED BY <2>1, <3>1 DEF Lives
    <2> QED BY <1>1, <2>1, <2>2 DEF CountInv
<1> QED BY <1>2, <1>3

\* A request that neither owes before nor after.
LEMMA CountQuiet ==
    ASSUME TypeInv, CountInv, NEW r \in Requests, OthersKept(r),
           request[r].pc \notin {"index", "clear", "tell"},
           request'[r].pc \notin {"index", "clear", "tell"} \/ request'[r].act # "complete",
           UNCHANGED counts, mark'["done"] = mark["done"], mishaps' = mishaps \/ mishaps' = mishaps + 1
    PROVE  CountInv'
<1>1. \A x \in Items : Owe(x)' = Owe(x)
    BY OweKept DEF Owes
<1> QED BY <1>1, CountKept, TypeInvParts

LEMMA CountAct ==
    ASSUME TypeInv, CountInv, NEW r \in Requests, Open(r) \/ Duplicate(r) \/ Clear(r)
    PROVE  CountInv'
<1>0. RequestsFit
    BY TypeInvParts
<1>1. CASE Open(r)
    BY <1>0, <1>1, Opens, CountQuiet DEF Open, At, keys
<1>2. CASE Duplicate(r)
    BY <1>0, <1>2, Ends, CountQuiet DEF Duplicate, At, keys
<1>3. CASE Clear(r)
    <2>1. CASE request[r].act = "complete"
        <3>1. /\ OthersKept(r) /\ request'[r].act = request[r].act /\ request'[r].item = request[r].item
              /\ request'[r].pc = "tell" /\ request[r].pc = "clear"
            BY <1>0, <1>3, <2>1, Goes DEF Clear, At, Pcs
        <3>2. \A x \in Items : Owe(x)' = Owe(x)
            BY <3>1, OweKept DEF Owes
        <3> QED BY <1>3, <3>2, CountKept, TypeInvParts DEF Clear, keys
    <2>2. CASE request[r].act # "complete"
        <3>1. OthersKept(r) /\ request'[r].pc \in {"idle", "load", "focus"}
            BY <1>0, <1>3, <2>2, Ends DEF Clear
        <3>2. \A x \in Items : Owe(x)' = Owe(x)
            BY <2>2, <3>1, OweKept DEF Owes
        <3> QED BY <1>3, <3>2, CountKept, TypeInvParts DEF Clear, keys
    <2> QED BY <2>1, <2>2
<1> QED BY <1>1, <1>2, <1>3

LEMMA CountReads ==
    ASSUME TypeInv, CountInv, NEW r \in Requests,
           \/ List(r) \/ Sweep(r) \/ Wipe(r)
           \/ Load(r) \/ Check(r) \/ Drop(r) \/ Scan(r) \/ LoadFails(r)
    PROVE  CountInv'
<1>0. RequestsFit /\ request[r] \in Requested /\ Fits(request[r])
    BY TypeInvParts DEF RequestsFit
<1>1. CASE List(r)
    BY <1>1, Reads, CountQuiet DEF List, At, keys
<1>2. CASE Sweep(r)
    <2>1. request[r].kind # "done" /\ request[r].pc = "sweep"
        BY <1>0, <1>2 DEF Sweep, At, Fits
    <2>2. PICK x \in request[r].todo :
              /\ OthersKept(r) /\ request'[r].pc = "sweep"
              /\ mark' = [mark EXCEPT ![request[r].kind] = @ \ {x}]
        BY <1>2, Sweeps
    <2>3. mark'["done"] = mark["done"]
        BY <2>1, <2>2, TypeInvParts
    <2> QED BY <1>2, <2>1, <2>2, <2>3, CountQuiet DEF Sweep
<1>3. CASE Wipe(r)
    BY <1>3, Reads, CountQuiet DEF Wipe, At
<1>4. CASE Load(r) \/ Drop(r) \/ Scan(r)
    <2>1. OthersKept(r) /\ request'[r].pc \in {"check", "focus"} /\ request[r].pc \in {"load", "check", "drop"}
        BY <1>4, Reads DEF Load, Drop, Scan, At
    <2>2. mark' = mark /\ UNCHANGED <<counts, mishaps>>
        BY <1>4 DEF Load, Drop, Scan, keys
    <2> QED BY <2>1, <2>2, CountQuiet
<1>5. CASE Check(r)
    <2>1. OthersKept(r) /\ request'[r].pc \in {"check", "drop"}
        BY <1>5, Checks
    <2> QED BY <1>5, <2>1, CountQuiet DEF Check, At, keys
<1>6. CASE LoadFails(r)
    BY <1>0, <1>6, Ends, CountQuiet DEF LoadFails, keys
<1> QED BY <1>1, <1>2, <1>3, <1>4, <1>5, <1>6

LEMMA CountFocus ==
    ASSUME TypeInv, CountInv, NEW r \in Requests,
           Focus(r) \/ Own(r) \/ OwnFails(r) \/ Rescan(r) \/ Pick(r)
    PROVE  CountInv'
<1>0. RequestsFit
    BY TypeInvParts
<1>1. request[r].pc \in {"focus", "own", "rescan", "pick"}
    BY DEF Focus, Own, OwnFails, Rescan, Pick, At
<1>2. OthersKept(r) /\ request'[r].pc \notin {"index", "clear", "tell"}
    <2>1. CASE End(r)
        BY <1>0, <2>1, Ends
    <2>2. CASE \E s \in {"pick", "rescan"} : Goto(r, s)
        BY <1>0, <2>2, Goes DEF Pcs, Looking
    <2>3. CASE \E s \in {"own", "pick"} : Look(r, s)
        BY <1>0, <2>3, Looks DEF Pcs, Looking
    <2> QED BY <2>1, <2>2, <2>3 DEF Focus, Own, OwnFails, Rescan, Pick
<1>3. mark' = mark /\ UNCHANGED counts /\ (mishaps' = mishaps \/ mishaps' = mishaps + 1)
    BY DEF Focus, Own, OwnFails, Rescan, Pick, keys
<1> QED BY <1>1, <1>2, <1>3, CountQuiet

LEMMA CountNext == TypeInv /\ CountInv /\ [Next]_vars => CountInv'
<1> SUFFICES ASSUME TypeInv, CountInv, [Next]_vars PROVE CountInv'
    OBVIOUS
<1>1. CASE UNCHANGED vars
    BY <1>1 DEF vars, keys, counts, CountInv, Owe, Owes, Lives
<1>2. CASE \E o \in Operators : LeaseEnds(o)
    <2>1. UNCHANGED <<mark, request, counts, mishaps>>
        BY <1>2 DEF LeaseEnds, keys
    <2>2. \A x \in Items : Owe(x)' = Owe(x)
        BY <2>1 DEF Owe, Owes
    <2> QED BY <2>1, <2>2, CountKept, TypeInvParts
<1> QED BY <1>1, <1>2, CountAct, CountRegister, CountTell, CountReads, CountFocus, CountDie, CountLapse
        DEF Next

\* "Idempotent complete, org-wide": however many operators close an item at the
\* same time, its completion is never recorded more often than its done key has
\* lived, and, when nothing dies in between, a life without its event has a
\* request that is still to commit it.
THEOREM CompletionsToldOnce == Spec => []CompletedOnce
<1>1. Spec => []CountInv
    BY TypeAlways, CountInit, CountNext, PTL DEF Spec
<1>2. TypeInv /\ CountInv => CompletedOnce
    BY CountGivesOnce
<1> QED BY <1>1, <1>2, TypeAlways, PTL

-----------------------------------------------------------------------------
(* Keys are indexed *)

\* A key that need not be in its index.
Sure(k, x) ==
    \/ x \in loose[k]
    \/ \E r \in Requests : At(r, "index") /\ request[r].kind = k /\ request[r].item = x

\* q is going to take x out of the index and will not delete its key.
Exposed(q, k, x) ==
    /\ request[q].kind = k
    /\ \/ At(q, "sweep") /\ x \notin request[q].todo
       \/ At(q, "drop") /\ request[q].item = x

\* What q will take out of an index while there is a key was torn meanwhile.
RemoverSure(q) == \A k \in Kinds : \A x \in mark[k] : Exposed(q, k, x) => Sure(k, x)

IndexInv ==
    /\ \A k \in Kinds : \A x \in mark[k] : x \in index[k] \/ Sure(k, x)
    /\ \A q \in Requests : RemoverSure(q)

\* A step that leaves a pair at least as sure as it was.
KeepsSure(k, x) == x \in mark'[k] => Sure(k, x)' \/ (x \in mark[k] /\ ~Sure(k, x))

\* Removers other than the one that moves.
LEMMA RemoverKept ==
    ASSUME TypeInv, TypeInv', NEW r \in Requests, OthersKept(r), NEW q \in Requests \ {r}, RemoverSure(q),
           \A k \in Kinds, x \in Items :
              /\ request[q].kind = k
              /\ At(q, "sweep") \/ (At(q, "drop") /\ request[q].item = x)
              => KeepsSure(k, x)
    PROVE  RemoverSure(q)'
<1> SUFFICES ASSUME NEW k \in Kinds, NEW x \in mark'[k], Exposed(q, k, x)'
             PROVE  Sure(k, x)'
    BY DEF RemoverSure
<1>1. x \in Items
    BY TypeInvParts DEF TypeInv, TypeOK
<1>2. Exposed(q, k, x)
    BY DEF OthersKept, Exposed, At
<1>3. KeepsSure(k, x)
    BY <1>1, <1>2 DEF Exposed
<1> QED BY <1>2, <1>3 DEF KeepsSure, RemoverSure

\* Steps that neither write a key nor take one out of an index.
LEMMA IndexKept ==
    ASSUME TypeInv, TypeInv', IndexInv, NEW r \in Requests, OthersKept(r), RemoverSure(r)',
           \A k \in Kinds, x \in Items :
              KeepsSure(k, x) /\ (x \in mark'[k] /\ x \in index[k] => x \in index'[k] \/ Sure(k, x)')
    PROVE  IndexInv'
<1>1. ASSUME NEW q \in Requests PROVE RemoverSure(q)'
    <2>1. CASE q = r
        BY <2>1
    <2>2. CASE q # r
        BY <2>2, RemoverKept DEF IndexInv
    <2> QED BY <2>1, <2>2
<1>2. ASSUME NEW k \in Kinds, NEW x \in mark'[k] PROVE x \in index'[k] \/ Sure(k, x)'
    <2>1. x \in Items
        BY DEF TypeInv, TypeOK
    <2> QED BY <2>1 DEF KeepsSure, IndexInv
<1> QED BY <1>1, <1>2 DEF IndexInv

\* A registration under way is one until its request moves.
LEMMA SureStays ==
    ASSUME NEW r \in Requests, OthersKept(r), ~At(r, "index"), NEW k, NEW x,
           x \in loose[k] => x \in loose'[k], Sure(k, x)
    PROVE  Sure(k, x)'
BY DEF Sure, OthersKept, At

\* Steps of a request that is not registering and touches no key and no index.
LEMMA IndexQuiet ==
    ASSUME TypeInv, TypeInv', IndexInv, NEW r \in Requests, OthersKept(r), ~At(r, "index"),
           UNCHANGED <<keys, loose>>,
           \/ request'[r].pc \notin {"sweep", "drop"}
           \/ RemoverSure(r)'
    PROVE  IndexInv'
<1>1. ASSUME NEW k \in Kinds, NEW x \in Items
      PROVE  KeepsSure(k, x) /\ (x \in mark'[k] /\ x \in index[k] => x \in index'[k] \/ Sure(k, x)')
    BY SureStays DEF KeepsSure, keys
<1>2. RemoverSure(r)'
    BY DEF RemoverSure, Exposed, At
<1> QED BY <1>1, <1>2, IndexKept

LEMMA IndexInit == Init => IndexInv
BY DEF Init, IndexInv, RemoverSure, NoSets

LEMMA IndexRegister ==
    ASSUME TypeInv, TypeInv', IndexInv, NEW r \in Requests, Register(r)
    PROVE  IndexInv'
<1>0. RequestsFit /\ request[r] \in Requested /\ Fits(request[r])
    BY TypeInvParts DEF RequestsFit
<1>1. PICK k \in Kinds, x \in Items : k = request[r].kind /\ x = request[r].item
    BY <1>0 DEF Register, Requested, Fits
<1>2. /\ OthersKept(r) /\ request'[r].kind = k /\ request'[r].item = x
      /\ request'[r].pc = IF At(r, "mark") THEN "index" ELSE "clear"
    BY <1>0, <1>1, Goes DEF Register, Pcs
<1>3. RemoverSure(r)'
    BY <1>2 DEF RemoverSure, Exposed, At
<1>4. CASE At(r, "mark")
    <2>1. /\ mark' = [mark EXCEPT ![k] = @ \cup {x}] /\ index' = index
          /\ loose' = loose \/ loose' = [loose EXCEPT ![k] = @ \cup {x}]
        BY <1>1, <1>4 DEF Register, WritesKey, At
    <2>2. Sure(k, x)'
        BY <1>2, <1>4 DEF Sure, At
    <2>3. ASSUME NEW j \in Kinds, NEW y \in Items
          PROVE  KeepsSure(j, y) /\ (y \in mark'[j] /\ y \in index[j] => y \in index'[j] \/ Sure(j, y)')
        <3>1. CASE j = k /\ y = x
            BY <2>2, <3>1 DEF KeepsSure
        <3>2. CASE ~(j = k /\ y = x)
            <4>1. y \in mark'[j] => y \in mark[j]
                BY <2>1, <3>2, TypeInvParts
            <4>2. y \in loose[j] => y \in loose'[j]
                BY <2>1, TypeInvParts
            <4> QED BY <1>2, <1>4, <2>1, <4>1, <4>2, SureStays DEF KeepsSure, At
        <3> QED BY <3>1, <3>2
    <2> QED BY <1>2, <1>3, <2>3, IndexKept
<1>5. CASE ~At(r, "mark")
    <2>1. /\ index' = [index EXCEPT ![k] = @ \cup {x}] /\ mark' = mark
          /\ loose' = IF Removing(r, k, x) THEN [loose EXCEPT ![k] = @ \cup {x}]
                      ELSE [loose EXCEPT ![k] = @ \ {x}]
        BY <1>1, <1>5 DEF Register, WritesKey, At
    <2>2. ASSUME NEW j \in Kinds, NEW y \in Items, ~(j = k /\ y = x) \/ Removing(r, k, x)
          PROVE  KeepsSure(j, y)
        <3>1. CASE j = k /\ y = x
            <4>1. x \in loose'[k]
                BY <2>1, <2>2, <3>1, TypeInvParts
            <4> QED BY <3>1, <4>1 DEF KeepsSure, Sure
        <3>2. CASE ~(j = k /\ y = x)
            <4>1. y \in loose[j] => y \in loose'[j]
                BY <2>1, <3>2, TypeInvParts
            <4>2. Sure(j, y) => Sure(j, y)'
                BY <1>1, <1>2, <3>2, <4>1 DEF Sure, OthersKept, At
            <4> QED BY <2>1, <4>2 DEF KeepsSure
        <3> QED BY <3>1, <3>2
    <2>3. ASSUME NEW q \in Requests PROVE RemoverSure(q)'
        <3>1. CASE q = r
            BY <1>3, <3>1
        <3>2. CASE q # r
            <4>1. ASSUME NEW j \in Kinds, NEW y \in Items, request[q].kind = j,
                         At(q, "sweep") \/ (At(q, "drop") /\ request[q].item = y)
                  PROVE  KeepsSure(j, y)
                <5>1. ~(j = k /\ y = x) \/ Removing(r, k, x)
                    BY <3>2, <4>1 DEF Removing
                <5> QED BY <2>2, <5>1
            <4> QED BY <1>2, <3>2, <4>1, RemoverKept DEF IndexInv
        <3> QED BY <3>1, <3>2
    <2>4. ASSUME NEW j \in Kinds, NEW y \in mark'[j] PROVE y \in index'[j] \/ Sure(j, y)'
        <3>1. y \in Items /\ y \in mark[j]
            BY <2>1 DEF TypeInv, TypeOK
        <3>2. CASE j = k /\ y = x
            BY <2>1, <3>2, TypeInvParts
        <3>3. CASE ~(j = k /\ y = x)
            <4>1. y \in index[j] => y \in index'[j]
                BY <2>1, TypeInvParts
            <4> QED BY <2>2, <3>1, <3>3, <4>1 DEF KeepsSure, IndexInv
        <3> QED BY <3>2, <3>3
    <2> QED BY <2>3, <2>4 DEF IndexInv
<1> QED BY <1>4, <1>5

LEMMA IndexAct ==
    ASSUME TypeInv, TypeInv', IndexInv, NEW r \in Requests,
           Open(r) \/ Duplicate(r) \/ Clear(r) \/ Tell(r)
    PROVE  IndexInv'
<1>0. RequestsFit
    BY TypeInvParts
<1>1. ~At(r, "index") /\ UNCHANGED <<keys, loose>>
    BY DEF Open, Duplicate, Clear, Tell, At
<1>2. OthersKept(r) /\ request'[r].pc \in {"load", "list", "mark", "idle", "focus", "tell"}
    <2>1. CASE Open(r)
        BY <1>0, <2>1, Opens
    <2>2. CASE ToLoad(r)
        BY <1>0, <2>2, Ends
    <2>3. CASE Goto(r, "tell")
        BY <1>0, <2>3, Goes DEF Pcs
    <2> QED BY <2>1, <2>2, <2>3 DEF Duplicate, Clear, Tell
<1> QED BY <1>1, <1>2, IndexQuiet

LEMMA IndexReset ==
    ASSUME TypeInv, TypeInv', IndexInv, NEW r \in Requests, List(r) \/ Sweep(r) \/ Wipe(r)
    PROVE  IndexInv'
<1>0. RequestsFit /\ request[r] \in Requested
    BY TypeInvParts DEF RequestsFit
<1>1. CASE List(r)
    <2>1. /\ OthersKept(r) /\ request'[r].pc = "sweep" /\ request'[r].kind = request[r].kind
          /\ request'[r].todo = index[request[r].kind] \cup mark[request[r].kind]
        BY <1>1, Reads
    <2>2. ~At(r, "index") /\ UNCHANGED <<keys, loose>>
        BY <1>1 DEF List, At
    <2>3. RemoverSure(r)'
        BY <2>1, <2>2 DEF RemoverSure, Exposed, At, keys
    <2> QED BY <2>1, <2>2, <2>3, IndexQuiet
<1>2. CASE Sweep(r)
    <2>1. PICK x \in request[r].todo :
              /\ x \in Items /\ OthersKept(r) /\ request'[r].pc = "sweep"
              /\ request'[r].kind = request[r].kind /\ request'[r].todo = request[r].todo \ {x}
              /\ mark' = [mark EXCEPT ![request[r].kind] = @ \ {x}]
              /\ loose' = [loose EXCEPT ![request[r].kind] = @ \ {x}]
        BY <1>2, Sweeps
    <2>2. PICK k \in Kinds : k = request[r].kind
        BY <1>0 DEF Requested
    <2>3. At(r, "sweep") /\ index' = index
        BY <1>2 DEF Sweep
    <2>4. ASSUME NEW j \in Kinds, NEW y \in mark'[j]
          PROVE  y \in mark[j] /\ ~(j = k /\ y = x) /\ (Sure(j, y) => Sure(j, y)')
        <3>1. y \in mark[j] /\ ~(j = k /\ y = x)
            BY <2>1, <2>2, TypeInvParts
        <3>2. y \in loose[j] => y \in loose'[j]
            BY <2>1, <2>2, <3>1, TypeInvParts
        <3> QED BY <2>1, <2>3, <3>1, <3>2, SureStays DEF At
    <2>5. RemoverSure(r)'
        <3> SUFFICES ASSUME NEW j \in Kinds, NEW y \in mark'[j], Exposed(r, j, y)'
                     PROVE  Sure(j, y)'
            BY DEF RemoverSure
        <3>1. j = k /\ y # x /\ y \notin request[r].todo
            BY <2>1, <2>2, <2>4 DEF Exposed, At
        <3> QED BY <2>2, <2>3, <2>4, <3>1 DEF IndexInv, RemoverSure, Exposed
    <2> QED BY <2>1, <2>3, <2>4, <2>5, IndexKept DEF KeepsSure
<1>3. CASE Wipe(r)
    <2>1. PICK k \in Kinds : k = request[r].kind
        BY <1>0 DEF Requested
    <2>2. /\ At(r, "sweep") /\ request[r].todo = {} /\ UNCHANGED <<mark, loose>>
          /\ index' = [index EXCEPT ![k] = {}]
        BY <1>3, <2>1 DEF Wipe
    <2>3. OthersKept(r) /\ request'[r].pc \in {"list", "clear"}
        BY <1>3, Reads
    <2>4. ASSUME NEW j \in Kinds, NEW y \in Items
          PROVE  KeepsSure(j, y) /\ (y \in mark'[j] /\ y \in index[j] => y \in index'[j] \/ Sure(j, y)')
        <3>1. Sure(j, y) => Sure(j, y)'
            BY <2>2, <2>3, SureStays DEF At
        <3>2. CASE j = k
            BY <2>1, <2>2, <3>1, <3>2 DEF IndexInv, RemoverSure, Exposed, KeepsSure
        <3>3. CASE j # k
            BY <2>2, <3>1, <3>3, TypeInvParts DEF KeepsSure
        <3> QED BY <3>2, <3>3
    <2>5. RemoverSure(r)'
        BY <2>3 DEF RemoverSure, Exposed, At
    <2> QED BY <2>3, <2>4, <2>5, IndexKept
<1> QED BY <1>1, <1>2, <1>3

LEMMA IndexLoad ==
    ASSUME TypeInv, TypeInv', IndexInv, NEW r \in Requests,
           Load(r) \/ Check(r) \/ Drop(r) \/ Scan(r) \/ LoadFails(r)
    PROVE  IndexInv'
<1>0. RequestsFit /\ request[r] \in Requested /\ Fits(request[r])
    BY TypeInvParts DEF RequestsFit
<1>1. ~At(r, "index")
    BY DEF Load, Check, Drop, Scan, LoadFails, At
<1>2. CASE Load(r) \/ Scan(r)
    <2>1. OthersKept(r) /\ request'[r].pc \in {"check", "focus"} /\ UNCHANGED <<keys, loose>>
        BY <1>2, Reads DEF Load, Scan
    <2> QED BY <1>1, <2>1, IndexQuiet
<1>3. CASE LoadFails(r)
    <2>1. OthersKept(r) /\ request'[r].pc \in {"idle", "load", "focus"} /\ UNCHANGED <<keys, loose>>
        BY <1>0, <1>3, Ends DEF LoadFails
    <2> QED BY <1>1, <2>1, IndexQuiet
<1>4. CASE Check(r)
    <2>1. OthersKept(r) /\ UNCHANGED <<keys, loose>>
        BY <1>4, Checks DEF Check
    <2>2. CASE request'[r].pc = "check"
        BY <1>1, <2>1, <2>2, IndexQuiet
    <2>3. CASE /\ request'[r].pc = "drop" /\ request'[r].kind = request[r].kind
               /\ request'[r].item \notin mark[request[r].kind]
        <3>1. RemoverSure(r)'
            BY <2>1, <2>3 DEF RemoverSure, Exposed, At, keys
        <3> QED BY <1>1, <2>1, <3>1, IndexQuiet
    <2> QED BY <1>4, <2>2, <2>3, Checks
<1>5. CASE Drop(r)
    <2>1. PICK k \in Kinds, x \in Items : k = request[r].kind /\ x = request[r].item
        BY <1>0, <1>5 DEF Drop, At, Requested, Fits
    <2>2. At(r, "drop") /\ index' = [index EXCEPT ![k] = @ \ {x}] /\ UNCHANGED <<mark, loose>>
        BY <1>5, <2>1 DEF Drop
    <2>3. OthersKept(r) /\ request'[r].pc \in {"check", "focus"}
        BY <1>5, Reads
    <2>4. ASSUME NEW j \in Kinds, NEW y \in Items
          PROVE  KeepsSure(j, y) /\ (y \in mark'[j] /\ y \in index[j] => y \in index'[j] \/ Sure(j, y)')
        <3>1. Sure(j, y) => Sure(j, y)'
            BY <1>1, <2>2, <2>3, SureStays
        <3>2. CASE j = k /\ y = x
            BY <2>1, <2>2, <3>1, <3>2 DEF IndexInv, RemoverSure, Exposed, KeepsSure
        <3>3. CASE ~(j = k /\ y = x)
            BY <2>2, <3>1, <3>3, TypeInvParts DEF KeepsSure
        <3> QED BY <3>2, <3>3
    <2>5. RemoverSure(r)'
        BY <2>3 DEF RemoverSure, Exposed, At
    <2> QED BY <2>3, <2>4, <2>5, IndexKept
<1> QED BY <1>2, <1>3, <1>4, <1>5

LEMMA IndexFocus ==
    ASSUME TypeInv, TypeInv', IndexInv, NEW r \in Requests,
           Focus(r) \/ Own(r) \/ OwnFails(r) \/ Rescan(r) \/ Pick(r)
    PROVE  IndexInv'
<1>0. RequestsFit
    BY TypeInvParts
<1>1. ~At(r, "index") /\ UNCHANGED <<keys, loose>>
    BY DEF Focus, Own, OwnFails, Rescan, Pick, At
<1>2. OthersKept(r) /\ request'[r].pc \notin {"sweep", "drop"}
    <2>1. CASE End(r)
        BY <1>0, <2>1, Ends
    <2>2. CASE \E s \in {"pick", "rescan"} : Goto(r, s)
        BY <1>0, <2>2, Goes DEF Pcs, Looking
    <2>3. CASE \E s \in {"own", "pick"} : Look(r, s)
        BY <1>0, <2>3, Looks DEF Pcs, Looking
    <2> QED BY <2>1, <2>2, <2>3 DEF Focus, Own, OwnFails, Rescan, Pick
<1> QED BY <1>1, <1>2, IndexQuiet

LEMMA IndexTime ==
    ASSUME TypeInv, TypeInv', IndexInv,
           \/ \E r \in Requests : Die(r)
           \/ \E k \in Kinds, x \in Items : Lapse(k, x)
    PROVE  IndexInv'
<1>1. ASSUME NEW r \in Requests, Die(r) PROVE IndexInv'
    <2>0. RequestsFit /\ request[r] \in Requested /\ Fits(request[r])
        BY TypeInvParts DEF RequestsFit
    <2>1. OthersKept(r) /\ request'[r].pc \in {"idle", "load", "focus"} /\ UNCHANGED keys
        BY <1>1, <2>0, Ends DEF Die
    <2>2. ASSUME NEW j \in Kinds, NEW y \in Items, Sure(j, y) PROVE Sure(j, y)'
        <3>1. CASE At(r, "index")
            <4>1. PICK k \in Kinds, x \in Items : k = request[r].kind /\ x = request[r].item
                BY <2>0, <3>1 DEF At, Requested, Fits
            <4>2. loose' = [loose EXCEPT ![k] = @ \cup {x}]
                BY <1>1, <3>1, <4>1 DEF Die
            <4>3. x \in loose'[k] /\ (y \in loose[j] => y \in loose'[j])
                BY <4>2, TypeInvParts
            <4> QED BY <2>1, <2>2, <4>1, <4>3 DEF Sure, OthersKept, At
        <3>2. CASE ~At(r, "index")
            BY <1>1, <2>1, <2>2, <3>2, SureStays DEF Die
        <3> QED BY <3>1, <3>2
    <2>3. RemoverSure(r)'
        BY <2>1 DEF RemoverSure, Exposed, At
    <2> QED BY <2>1, <2>2, <2>3, IndexKept DEF KeepsSure, keys
<1>2. ASSUME NEW k \in Kinds, NEW x \in Items, Lapse(k, x) PROVE IndexInv'
    <2>1. /\ mark' = [mark EXCEPT ![k] = @ \ {x}] /\ loose' = [loose EXCEPT ![k] = @ \ {x}]
          /\ UNCHANGED <<index, request>>
        BY <1>2 DEF Lapse
    <2>2. ASSUME NEW j \in Kinds, NEW y \in mark'[j]
          PROVE  y \in mark[j] /\ (Sure(j, y) => Sure(j, y)')
        <3>1. y \in mark[j] /\ ~(j = k /\ y = x)
            BY <2>1, TypeInvParts
        <3>2. y \in loose[j] => y \in loose'[j]
            BY <2>1, <3>1, TypeInvParts
        <3> QED BY <2>1, <3>1, <3>2 DEF Sure, At
    <2>3. ASSUME NEW q \in Requests PROVE RemoverSure(q)'
        BY <2>1, <2>2 DEF IndexInv, RemoverSure, Exposed, At
    <2> QED BY <2>1, <2>2, <2>3 DEF IndexInv
<1> QED BY <1>1, <1>2

LEMMA IndexNext == TypeInv /\ IndexInv /\ [Next]_vars => IndexInv'
<1> SUFFICES ASSUME TypeInv, IndexInv, [Next]_vars PROVE IndexInv'
    OBVIOUS
<1>0. TypeInv'
    BY TypeNext
<1>1. CASE UNCHANGED vars
    BY <1>1 DEF vars, keys, IndexInv, RemoverSure, Exposed, Sure, At
<1>2. CASE \E o \in Operators : LeaseEnds(o)
    <2>1. UNCHANGED <<keys, request, loose>>
        BY <1>2 DEF LeaseEnds
    <2> QED BY <2>1 DEF keys, IndexInv, RemoverSure, Exposed, Sure, At
<1> QED BY <1>0, <1>1, <1>2, IndexAct, IndexRegister, IndexReset, IndexLoad, IndexFocus, IndexTime
        DEF Next

\* "Keep SET index consistent with per-item TTL keys": an item whose key is
\* missing from its index was put off between another request's GET and SREM,
\* during a reset, or by a request that died half way; no other order of the
\* commands of skips, resets and readers loses one.
THEOREM IndexHasTheKeys == Spec => []KeysAreIndexed
<1>1. Spec => []IndexInv
    BY TypeAlways, IndexInit, IndexNext, PTL DEF Spec
<1>2. IndexInv => KeysAreIndexed
    BY DEF IndexInv, Sure, KeysAreIndexed
<1> QED BY <1>1, <1>2, PTL

-----------------------------------------------------------------------------
(* Two leases on one item *)

\* Whoever has looked and not chosen yet: has met the others of that kind, and
\* has seen every lease but those of operators it has met.
Met(r) == \A q \in Requests : request[q].pc \in Looking /\ request[q].op # request[r].op =>
              request[q].op \in request[r].met
Saw(r) == \A p \in Operators \ {request[r].op} :
              lease[p] # NoItem => lease[p] \in request[r].busy \/ p \in request[r].met

LookInv ==
    /\ \A r \in Requests : request[r].pc \in Looking => Met(r) /\ Saw(r)
    /\ SharedNeedsOverlap

LEMMA LookInit == Init => LookInv
BY DEF Init, LookInv, SharedNeedsOverlap, Idle, Looking

\* Steps after which nobody is newly looking and no lease is new.
LEMMA LookKept ==
    ASSUME LookInv, NEW r \in Requests, OthersKept(r), UNCHANGED overlap,
           \A p \in Operators : lease'[p] = lease[p] \/ lease'[p] = NoItem,
           request'[r].pc \in Looking =>
              /\ request[r].pc \in Looking /\ request'[r].op = request[r].op
              /\ request'[r].busy = request[r].busy /\ request'[r].met = request[r].met
    PROVE  LookInv'
<1>1. ASSUME NEW q \in Requests, request'[q].pc \in Looking
      PROVE  /\ request[q].pc \in Looking /\ request'[q].op = request[q].op
             /\ request'[q].busy = request[q].busy /\ request[q].met \subseteq request'[q].met
    <2>1. CASE q = r
        BY <1>1, <2>1
    <2>2. CASE q # r
        BY <1>1, <2>2 DEF OthersKept
    <2> QED BY <2>1, <2>2
<1>2. ASSUME NEW q \in Requests, request'[q].pc \in Looking PROVE Met(q)'
    BY <1>1, <1>2 DEF LookInv, Met
<1>3. ASSUME NEW q \in Requests, request'[q].pc \in Looking PROVE Saw(q)'
    BY <1>1, <1>3 DEF LookInv, Saw
<1>4. SharedNeedsOverlap'
    BY DEF LookInv, SharedNeedsOverlap
<1> QED BY <1>2, <1>3, <1>4 DEF LookInv

\* A look.
LEMMA LookLooks ==
    ASSUME TypeInv, LookInv, NEW r \in Requests, NEW s \in Looking, Look(r, s), UNCHANGED <<lease, overlap>>,
           request[r].pc # "idle"
    PROVE  LookInv'
<1>0. RequestsFit /\ request[r].op \in Operators
    BY TypeInvParts DEF RequestsFit, Fits
<1>1. /\ OthersKept(r)
      /\ request'[r].pc = s /\ request'[r].op = request[r].op /\ request'[r].busy = Leased
      /\ \A q \in Requests : request[q].pc \in Looking /\ request[q].op # request[r].op =>
            request[q].op \in request'[r].met /\ request[r].op \in request'[q].met
    BY <1>0, Looks DEF Pcs
<1>2. Met(r)'
    <2> SUFFICES ASSUME NEW q \in Requests, request'[q].pc \in Looking, request'[q].op # request'[r].op
                 PROVE  request'[q].op \in request'[r].met
        BY DEF Met
    <2>1. q # r
        OBVIOUS
    <2> QED BY <1>1, <2>1 DEF OthersKept
<1>3. Saw(r)'
    BY <1>1 DEF Saw, Leased
<1>4. ASSUME NEW q \in Requests \ {r}, request'[q].pc \in Looking PROVE Met(q)' /\ Saw(q)'
    <2>1. /\ request[q].pc \in Looking /\ request'[q].op = request[q].op
          /\ request'[q].busy = request[q].busy /\ request[q].met \subseteq request'[q].met
        BY <1>1, <1>4 DEF OthersKept
    <2>2. Met(q) /\ Saw(q)
        BY <2>1 DEF LookInv
    <2>3. Saw(q)'
        BY <2>1, <2>2 DEF Saw
    <2>4. ASSUME NEW p \in Requests, request'[p].pc \in Looking, request'[p].op # request'[q].op
          PROVE  request'[p].op \in request'[q].met
        <3>1. CASE p = r
            BY <1>1, <2>1, <2>4, <3>1
        <3>2. CASE p # r
            BY <1>1, <2>1, <2>2, <2>4, <3>2 DEF OthersKept, Met
        <3> QED BY <3>1, <3>2
    <2> QED BY <2>3, <2>4 DEF Met
<1>5. SharedNeedsOverlap'
    BY DEF LookInv, SharedNeedsOverlap
<1> QED BY <1>2, <1>3, <1>4, <1>5 DEF LookInv

\* A choice.
LEMMA LookPick ==
    ASSUME TypeInv, LookInv, NEW r \in Requests, Pick(r)
    PROVE  LookInv'
<1>0. RequestsFit /\ request[r].pc = "pick" /\ request[r].op \in Operators
    BY TypeInvParts DEF RequestsFit, Fits, Pick, At
<1>1. OthersKept(r) /\ request'[r].pc \in {"idle", "load", "focus"}
    BY <1>0, Ends DEF Pick
<1>2. CASE UNCHANGED <<lease, overlap>>
    BY <1>1, <1>2, LookKept DEF Looking
<1>3. CASE /\ Free(r) # {}
           /\ lease' = [lease EXCEPT ![request[r].op] = CHOOSE x \in Free(r) : \A y \in Free(r) : y <= x]
           /\ overlap' = {pair \in overlap : request[r].op \notin pair}
                            \cup {{request[r].op, p} : p \in request[r].met}
    <2>1. PICK o \in Operators : o = request[r].op
        BY <1>0
    <2>2. (CHOOSE x \in Free(r) : \A y \in Free(r) : y <= x) \in Free(r)
        BY <1>3, BestItem DEF Free, Active
    <2>3. PICK x \in Free(r) : lease' = [lease EXCEPT ![o] = x]
        BY <1>3, <2>1, <2>2
    <2>4. x \in Items /\ x \notin request[r].busy /\ x # NoItem
        BY <2>3 DEF Free, Active
    <2>5. \A p \in Operators : lease'[p] = IF p = o THEN x ELSE lease[p]
        BY <2>3, TypeInvParts
    <2>6. Met(r) /\ Saw(r)
        BY <1>0 DEF LookInv, Looking
    <2>7. \A p \in Operators : p # o /\ lease'[p] = x => {o, p} \in overlap' /\ {p, o} \in overlap'
        <3> SUFFICES ASSUME NEW p \in Operators, p # o, lease'[p] = x
                     PROVE  {o, p} \in overlap' /\ {p, o} = {o, p}
            OBVIOUS
        <3>1. p \in request[r].met
            BY <2>1, <2>4, <2>5, <2>6 DEF Saw
        <3> QED BY <1>3, <2>1, <3>1
    <2>8. SharedNeedsOverlap'
        <3> SUFFICES ASSUME NEW p1 \in Operators, NEW p2 \in Operators, p1 # p2,
                            lease'[p1] # NoItem, lease'[p1] = lease'[p2]
                     PROVE  {p1, p2} \in overlap'
            BY DEF SharedNeedsOverlap
        <3>1. CASE p1 = o
            BY <2>5, <2>7, <3>1
        <3>2. CASE p2 = o
            BY <2>5, <2>7, <3>2
        <3>3. CASE o \notin {p1, p2}
            BY <1>3, <2>1, <2>5, <3>3 DEF LookInv, SharedNeedsOverlap
        <3> QED BY <3>1, <3>2, <3>3
    <2>9. ASSUME NEW q \in Requests, request'[q].pc \in Looking PROVE Met(q)' /\ Saw(q)'
        <3>1. q # r /\ request[q].pc \in Looking /\ Met(q) /\ Saw(q)
            BY <1>1, <2>9 DEF OthersKept, Looking, LookInv
        <3>2. request'[q].op = request[q].op /\ request'[q].busy = request[q].busy
              /\ request[q].met \subseteq request'[q].met
            BY <1>1, <3>1 DEF OthersKept
        <3>3. Met(q)'
            <4> SUFFICES ASSUME NEW p \in Requests, request'[p].pc \in Looking, request'[p].op # request'[q].op
                         PROVE  request'[p].op \in request'[q].met
                BY DEF Met
            <4>1. p # r
                BY <1>1 DEF Looking
            <4> QED BY <1>1, <3>1, <3>2, <4>1 DEF OthersKept, Met
        <3>4. Saw(q)'
            <4> SUFFICES ASSUME NEW p \in Operators \ {request[q].op}, lease'[p] # NoItem
                         PROVE  lease'[p] \in request'[q].busy \/ p \in request'[q].met
                BY <3>2 DEF Saw
            <4>1. CASE p = o
                BY <1>0, <2>1, <3>1, <3>2, <4>1 DEF Met, Looking
            <4>2. CASE p # o
                BY <2>5, <3>1, <3>2, <4>2 DEF Saw
            <4> QED BY <4>1, <4>2
        <3> QED BY <3>3, <3>4
    <2> QED BY <2>8, <2>9 DEF LookInv
<1> QED BY <1>2, <1>3 DEF Pick

LEMMA LookFocus ==
    ASSUME TypeInv, LookInv, NEW r \in Requests, Focus(r) \/ Own(r) \/ OwnFails(r) \/ Rescan(r)
    PROVE  LookInv'
<1>0. RequestsFit /\ UNCHANGED overlap
    BY TypeInvParts DEF Focus, Own, OwnFails, Rescan
<1>1. CASE Focus(r) /\ Active(r) = {}
    <2>1. OthersKept(r) /\ request'[r].pc \notin Looking
        BY <1>0, <1>1, Ends DEF Focus, Looking
    <2>2. \A p \in Operators : lease'[p] = lease[p] \/ lease'[p] = NoItem
        BY <1>1, TypeInvParts DEF Focus
    <2> QED BY <1>0, <2>1, <2>2, LookKept
<1>2. CASE Focus(r) /\ Active(r) # {}
    BY <1>0, <1>2, LookLooks DEF Focus, At, Looking
<1>3. CASE Rescan(r)
    BY <1>0, <1>3, LookLooks DEF Rescan, At, Looking
<1>4. CASE Own(r) \/ OwnFails(r)
    <2>1. request[r].pc \in Looking
        BY <1>4 DEF Own, OwnFails, At, Looking
    <2>2. OthersKept(r) /\ (request'[r].pc \in Looking =>
              /\ request'[r].op = request[r].op /\ request'[r].busy = request[r].busy
              /\ request'[r].met = request[r].met)
        <3>1. CASE End(r)
            BY <1>0, <3>1, Ends DEF Looking
        <3>2. CASE \E s \in {"pick", "rescan"} : Goto(r, s)
            BY <1>0, <3>2, Goes DEF Pcs, Looking
        <3> QED BY <1>4, <3>1, <3>2 DEF Own, OwnFails
    <2>3. \A p \in Operators : lease'[p] = lease[p] \/ lease'[p] = NoItem
        BY <1>4, TypeInvParts DEF Own, OwnFails
    <2> QED BY <1>0, <2>1, <2>2, <2>3, LookKept
<1> QED BY <1>1, <1>2, <1>3, <1>4

\* Everything before the choice of a focus.
LEMMA LookBefore ==
    ASSUME TypeInv, LookInv, NEW r \in Requests,
           \/ Open(r) \/ Register(r) \/ Duplicate(r) \/ Clear(r) \/ Tell(r)
           \/ List(r) \/ Sweep(r) \/ Wipe(r)
           \/ Load(r) \/ Check(r) \/ Drop(r) \/ Scan(r) \/ LoadFails(r) \/ Die(r)
    PROVE  LookInv'
<1>0. RequestsFit
    BY TypeInvParts
<1>1. OthersKept(r) /\ request'[r].pc \notin Looking
    <2>1. CASE Open(r)
        BY <1>0, <2>1, Opens DEF Looking
    <2>2. CASE ToLoad(r) \/ End(r) \/ LoadFails(r)
        BY <1>0, <2>2, Ends DEF Looking
    <2>3. CASE \E s \in {"index", "clear", "tell"} : Goto(r, s)
        BY <1>0, <2>3, Goes DEF Pcs, Looking
    <2>4. CASE List(r) \/ Wipe(r) \/ Load(r) \/ Drop(r) \/ Scan(r)
        BY <2>4, Reads DEF Looking
    <2>5. CASE Sweep(r)
        BY <2>5, Sweeps DEF Looking
    <2>6. CASE Check(r)
        BY <2>6, Checks DEF Looking
    <2> QED BY <2>1, <2>2, <2>3, <2>4, <2>5, <2>6 DEF Register, Duplicate, Clear, Tell, Die
<1>2. UNCHANGED overlap
    BY DEF Open, Register, Duplicate, Clear, Tell, List, Sweep, Wipe, Load, Check, Drop, Scan,
           LoadFails, Die
<1>3. \A p \in Operators : lease'[p] = lease[p] \/ lease'[p] = NoItem
    <2>1. CASE Clear(r)
        BY <2>1, TypeInvParts DEF Clear
    <2>2. CASE ~Clear(r)
        BY <2>2 DEF Open, Register, Duplicate, Tell, List, Sweep, Wipe, Load, Check, Drop, Scan,
                    LoadFails, Die
    <2> QED BY <2>1, <2>2
<1> QED BY <1>1, <1>2, <1>3, LookKept

LEMMA LookNext == TypeInv /\ LookInv /\ [Next]_vars => LookInv'
<1> SUFFICES ASSUME TypeInv, LookInv, [Next]_vars PROVE LookInv'
    OBVIOUS
<1>1. ASSUME UNCHANGED <<request, overlap>>,
             \A p \in Operators : lease'[p] = lease[p] \/ lease'[p] = NoItem
      PROVE  LookInv'
    BY <1>1 DEF LookInv, Met, Saw, SharedNeedsOverlap
<1>2. CASE UNCHANGED vars
    BY <1>1, <1>2 DEF vars
<1>3. CASE \E k \in Kinds, x \in Items : Lapse(k, x)
    BY <1>1, <1>3 DEF Lapse
<1>4. CASE \E o \in Operators : LeaseEnds(o)
    BY <1>1, <1>4, TypeInvParts DEF LeaseEnds
<1> QED BY <1>2, <1>3, <1>4, LookBefore, LookFocus, LookPick DEF Next

\* Items colleagues have in focus are left out: two operators come to share an
\* item only when each looked at the leases before the other wrote its own,
\* whatever leases end, requests die or commands fail in between.
THEOREM SharingNeedsOverlap == Spec => []SharedNeedsOverlap
<1>1. Spec => []LookInv
    BY TypeAlways, LookInit, LookNext, PTL DEF Spec
<1>2. LookInv => SharedNeedsOverlap
    BY DEF LookInv
<1> QED BY <1>1, <1>2, PTL
=============================================================================
