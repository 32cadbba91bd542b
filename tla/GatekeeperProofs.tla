-------------------------- MODULE GatekeeperProofs --------------------------
(***************************************************************************)
(* Theorems of Gatekeeper, for every number of requests in service, every  *)
(* limit and every set of addresses, amounts and ledgers.                  *)
(***************************************************************************)
EXTENDS Gatekeeper, SumProofs, SequenceTheorems, TLAPS

AllDecisions == {"ALLOW", "CHALLENGE", "BLOCK"}

(* PolicyEngine.evaluate blocks what is not on the whitelist and, since the
   validator of WithdrawalRequest lets positive amounts through only, nothing
   else, whatever was spent. *)
LEMMA EvaluateBlocks ==
    ASSUME NEW listed \in BOOLEAN, NEW amount \in Amount, NEW spent
    PROVE  /\ Evaluate(listed, amount, spent) \in AllDecisions
           /\ Evaluate(listed, amount, spent) # "BLOCK" <=> listed
<1>1. amount \in Nat /\ amount > 0 /\ ~(amount <= 0)
  BY GatekeeperAssumption
<1>2. CASE ~listed
  BY <1>1, <1>2 DEF Evaluate, AllDecisions
<1>3. CASE listed
  <2>1. CASE spent + amount > Limit
    BY <1>1, <1>3, <2>1 DEF Evaluate, AllDecisions
  <2>2. CASE ~(spent + amount > Limit)
    BY <1>1, <1>3, <2>2 DEF Evaluate, AllDecisions
  <2> QED
    BY <2>1, <2>2
<1> QED
  BY <1>2, <1>3

(* The status a decision is stored with. *)
LEMMA StatusTyped ==
    ASSUME NEW d \in AllDecisions
    PROVE  StatusOf(d) \in {"PENDING", "PENDING_REVIEW", "FAILED"}
BY DEF StatusOf, AllDecisions

-----------------------------------------------------------------------------
(* Types. *)

SlotTyped(s) ==
    \/ s = Free
    \/ s \in [pc : {"received"}, body : Body, seen : SUBSET BOOLEAN]
    \/ s \in [pc : {"listed"}, body : Body, seen : SUBSET BOOLEAN,
              listed : BOOLEAN, since : 0..today]
    \/ s \in [pc : {"priced"}, body : Body, seen : SUBSET BOOLEAN, decision : AllDecisions]
    \/ s \in [pc : {"flushed"}, body : Body, seen : SUBSET BOOLEAN, decision : AllDecisions,
              day : 0..today]

(* A slot at a given point of its request. *)
LEMMA SlotAt ==
    ASSUME TypeOK, NEW k \in Slot
    PROVE  /\ SlotTyped(slot[k])
           /\ slot[k].pc = "received" =>
                slot[k] \in [pc : {"received"}, body : Body, seen : SUBSET BOOLEAN]
           /\ slot[k].pc = "listed" =>
                slot[k] \in [pc : {"listed"}, body : Body, seen : SUBSET BOOLEAN,
                             listed : BOOLEAN, since : 0..today]
           /\ slot[k].pc = "priced" =>
                slot[k] \in [pc : {"priced"}, body : Body, seen : SUBSET BOOLEAN,
                             decision : AllDecisions]
           /\ slot[k].pc = "flushed" =>
                slot[k] \in [pc : {"flushed"}, body : Body, seen : SUBSET BOOLEAN,
                             decision : AllDecisions, day : 0..today]
           /\ slot[k].pc # "free" =>
                slot[k].body \in Body /\ slot[k].seen \in SUBSET BOOLEAN
<1>1. SlotTyped(slot[k])
  BY DEF TypeOK, SlotTyped, AllDecisions
<1> QED
  BY <1>1 DEF SlotTyped, Free

(* A step that changes one slot keeps the slots' types. *)
LEMMA OneSlot ==
    ASSUME TypeOK, NEW k \in Slot, NEW s, SlotTyped(s), slot' = [slot EXCEPT ![k] = s],
           UNCHANGED <<whitelist, rows, today>>
    PROVE  TypeOK'
<1>1. \A j \in Slot : slot'[j] = s \/ slot'[j] = slot[j]
  BY DEF TypeOK
<1>2. DOMAIN slot' = Slot
  BY DEF TypeOK
<1>3. \A j \in Slot : SlotTyped(slot[j])
  BY SlotAt
<1>4. \A j \in Slot : SlotTyped(slot[j])'
  BY <1>1, <1>3 DEF SlotTyped
<1> QED
  BY <1>2, <1>4 DEF TypeOK, SlotTyped, AllDecisions

(* The steps of a request. *)
LEMMA RequestTyped ==
    ASSUME TypeOK, NEW k \in Slot,
           \/ \E body \in Body : Receive(k, body)
           \/ FetchWhitelist(k) \/ FetchDailySpent(k) \/ Flush(k) \/ Fail(k)
    PROVE  TypeOK'
<1>1. ASSUME NEW body \in Body, Receive(k, body) PROVE TypeOK'
  <2>1. SlotTyped([pc |-> "received", body |-> body, seen |-> {body.address \in whitelist}])
    BY DEF SlotTyped
  <2> QED
    BY <1>1, <2>1, OneSlot DEF Receive
<1>2. CASE FetchWhitelist(k)
  <2> DEFINE s == [pc |-> "listed", body |-> slot[k].body, seen |-> slot[k].seen,
                   listed |-> slot[k].body.address \in whitelist, since |-> today]
  <2>1. slot[k].body \in Body /\ slot[k].seen \in SUBSET BOOLEAN /\ today \in 0..today
    BY <1>2, SlotAt DEF FetchWhitelist, TypeOK
  <2>2. SlotTyped(s)
    BY <2>1 DEF SlotTyped
  <2> QED
    BY <1>2, <2>2, OneSlot DEF FetchWhitelist
<1>3. CASE FetchDailySpent(k)
  <2>1. PICK day \in slot[k].since .. today : slot' = [slot EXCEPT ![k] =
            [pc |-> "priced", body |-> slot[k].body, seen |-> slot[k].seen,
             decision |-> Evaluate(slot[k].listed, slot[k].body.amount,
                                   DailySpent(slot[k].body.ledger, day))]]
    BY <1>3 DEF FetchDailySpent
  <2>2. /\ slot[k].body \in Body /\ slot[k].seen \in SUBSET BOOLEAN
        /\ slot[k].listed \in BOOLEAN /\ slot[k].body.amount \in Amount
    BY <1>3, SlotAt DEF FetchDailySpent, Body
  <2>3. PICK d \in AllDecisions : d = Evaluate(slot[k].listed, slot[k].body.amount,
                                   DailySpent(slot[k].body.ledger, day))
    BY <2>2, EvaluateBlocks
  <2>4. SlotTyped([pc |-> "priced", body |-> slot[k].body, seen |-> slot[k].seen,
                   decision |-> d])
    BY <2>2 DEF SlotTyped
  <2> QED
    BY <1>3, <2>1, <2>3, <2>4, OneSlot DEF FetchDailySpent
<1>4. CASE Flush(k)
  <2>1. /\ slot[k].body \in Body /\ slot[k].seen \in SUBSET BOOLEAN
        /\ slot[k].decision \in AllDecisions /\ today \in 0..today
    BY <1>4, SlotAt DEF Flush, TypeOK
  <2>2. SlotTyped([pc |-> "flushed", body |-> slot[k].body, seen |-> slot[k].seen,
                   decision |-> slot[k].decision, day |-> today])
    BY <2>1 DEF SlotTyped
  <2> QED
    BY <1>4, <2>2, OneSlot DEF Flush
<1>5. CASE Fail(k)
  BY <1>5, OneSlot DEF Fail, SlotTyped
<1> QED
  BY <1>1, <1>2, <1>3, <1>4, <1>5

(* The commit of the INSERT. *)
LEMMA SaveTyped ==
    ASSUME TypeOK, NEW k \in Slot, SaveTransaction(k)
    PROVE  TypeOK'
<1> DEFINE s == slot[k]
           row == [ledger |-> s.body.ledger, amount |-> s.body.amount,
                   decision |-> s.decision, status |-> StatusOf(s.decision),
                   day |-> s.day, seen |-> s.seen, lapsed |-> FALSE]
<1>1. s \in [pc : {"flushed"}, body : Body, seen : SUBSET BOOLEAN, decision : AllDecisions,
            day : 0..today]
  BY SlotAt DEF SaveTransaction
<1>2. StatusOf(s.decision) \in {"PENDING", "PENDING_REVIEW", "FAILED"}
  BY <1>1, StatusTyped
<1>3. row \in Row
  <2>1. s.day \in 0..MaxDay
    BY <1>1, GatekeeperAssumption DEF TypeOK
  <2> QED
    BY <1>1, <1>2, <2>1 DEF Row, AllDecisions, Body
<1>4. rows' = Append(rows, row) /\ Len(rows) < MaxRows /\ rows \in Seq(Row)
  BY DEF SaveTransaction, TypeOK
<1> HIDE DEF row
<1>5. rows' \in Seq(Row) /\ Len(rows') <= MaxRows
  <2>1. Len(rows') = Len(rows) + 1 /\ Append(rows, row) \in Seq(Row) /\ Len(rows) \in Nat
    BY <1>3, <1>4, AppendProperties, LenProperties
  <2> QED
    BY <1>4, <2>1, GatekeeperAssumption
<1>6. DOMAIN slot' = Slot /\ \A j \in Slot : slot'[j] = Free \/ slot'[j] = slot[j]
  BY DEF SaveTransaction, TypeOK
<1> QED
  BY <1>5, <1>6 DEF TypeOK, SaveTransaction

(* A change of the whitelist adds to what the requests in service have seen. *)
LEMMA WitnessKeeps ==
    ASSUME TypeOK, NEW a \in Address, NEW b \in BOOLEAN, Witness(a, b), NEW k \in Slot
    PROVE  /\ SlotTyped(slot'[k])
           /\ slot'[k].pc = slot[k].pc
           /\ slot[k].pc # "free" =>
                /\ slot'[k].body = slot[k].body
                /\ slot'[k].seen = IF slot[k].body.address = a THEN slot[k].seen \cup {b}
                                   ELSE slot[k].seen
           /\ slot[k].pc = "listed" => slot'[k].listed = slot[k].listed
           /\ slot[k].pc \in {"priced", "flushed"} => slot'[k].decision = slot[k].decision
           /\ slot[k].pc = "flushed" => slot'[k].day = slot[k].day
<1>1. SlotTyped(slot[k])
  BY SlotAt
<1>2. slot'[k] = IF slot[k].pc # "free" /\ slot[k].body.address = a
                 THEN [slot[k] EXCEPT !.seen = @ \cup {b}] ELSE slot[k]
  BY DEF Witness
<1>3. CASE slot[k].pc = "free" \/ slot[k].body.address # a
  BY <1>1, <1>2, <1>3
<1>4. CASE slot[k].pc = "received" /\ slot[k].body.address = a
  BY <1>2, <1>4, SlotAt DEF SlotTyped
<1>5. CASE slot[k].pc = "listed" /\ slot[k].body.address = a
  BY <1>2, <1>5, SlotAt DEF SlotTyped
<1>6. CASE slot[k].pc = "priced" /\ slot[k].body.address = a
  BY <1>2, <1>6, SlotAt DEF SlotTyped
<1>7. CASE slot[k].pc = "flushed" /\ slot[k].body.address = a
  BY <1>2, <1>7, SlotAt DEF SlotTyped
<1> QED
  BY <1>1, <1>3, <1>4, <1>5, <1>6, <1>7 DEF SlotTyped, Free

(* The administrators' steps. *)
LEMMA AdminTyped ==
    ASSUME TypeOK, NEW a \in Address, AddWhitelistEntry(a) \/ DeleteWhitelistEntry(a)
    PROVE  TypeOK'
<1>1. PICK b \in BOOLEAN : Witness(a, b)
  BY DEF AddWhitelistEntry, DeleteWhitelistEntry
<1>2. UNCHANGED <<rows, today>> /\ whitelist' \subseteq Address
  BY DEF AddWhitelistEntry, DeleteWhitelistEntry, TypeOK
<1>3. \A k \in Slot : SlotTyped(slot'[k])
  BY <1>1, WitnessKeeps
<1>4. DOMAIN slot' = Slot
  BY <1>1 DEF Witness
<1> QED
  BY <1>2, <1>3, <1>4 DEF TypeOK, SlotTyped, AllDecisions

SameButStatus(r, q) ==
    /\ r.ledger = q.ledger /\ r.amount = q.amount /\ r.decision = q.decision
    /\ r.day = q.day /\ r.seen = q.seen

LEMMA MovedRow ==
    ASSUME NEW r \in Row, NEW s \in {"PENDING", "FAILED"}
    PROVE  LET q == Moved(r, s)
           IN  /\ q \in Row /\ SameButStatus(q, r)
               /\ r.lapsed => q.lapsed
               /\ q.status = "PENDING" \/ (q.status = "FAILED" /\ q.lapsed)
<1>1. r.lapsed \in BOOLEAN
  BY DEF Row
<1>2. PICK b \in BOOLEAN : b = (r.lapsed \/ s = "FAILED")
  OBVIOUS
<1>3. Moved(r, s) = [r EXCEPT !.status = s, !.lapsed = b]
  BY <1>2 DEF Moved
<1>4. /\ [r EXCEPT !.status = s, !.lapsed = b] \in Row
      /\ SameButStatus([r EXCEPT !.status = s, !.lapsed = b], r)
      /\ [r EXCEPT !.status = s, !.lapsed = b].status = s
      /\ [r EXCEPT !.status = s, !.lapsed = b].lapsed = b
  BY DEF Row, SameButStatus
<1>5. (r.lapsed => b) /\ (s = "FAILED" => b)
  BY <1>2
<1> QED
  BY <1>3, <1>4, <1>5

(* A change of status leaves the rest of the row alone, and a failure is never
   forgotten. *)
LEMMA AdvanceKeeps ==
    ASSUME TypeOK, NEW i \in DOMAIN rows, Advance(i)
    PROVE  /\ rows' \in Seq(Row) /\ Len(rows') = Len(rows) /\ DOMAIN rows' = DOMAIN rows
           /\ \A j \in DOMAIN rows :
                /\ SameButStatus(rows'[j], rows[j])
                /\ rows[j].lapsed => rows'[j].lapsed
                /\ \/ rows'[j] = rows[j]
                   \/ rows'[j].status = "PENDING"
                   \/ rows'[j].status = "FAILED" /\ rows'[j].lapsed
<1>1. rows \in Seq(Row) /\ rows[i] \in Row
  BY DEF TypeOK
<1>2. PICK s \in {"PENDING", "FAILED"} : rows' = [rows EXCEPT ![i] = Moved(rows[i], s)]
  BY DEF Advance
<1> DEFINE row == Moved(rows[i], s)
<1>3. /\ row \in Row /\ SameButStatus(row, rows[i])
      /\ rows[i].lapsed => row.lapsed
      /\ row.status = "PENDING" \/ (row.status = "FAILED" /\ row.lapsed)
  BY <1>1, MovedRow
<1>4. rows' = [rows EXCEPT ![i] = row]
  BY <1>2
<1> HIDE DEF row
<1>5. rows' \in Seq(Row) /\ Len(rows') = Len(rows) /\ DOMAIN rows' = DOMAIN rows
  BY <1>1, <1>3, <1>4, ExceptSeq, LenProperties
<1>6. \A j \in DOMAIN rows : rows'[j] = IF j = i THEN row ELSE rows[j]
  BY <1>1, <1>4
<1>7. \A j \in DOMAIN rows : SameButStatus(rows[j], rows[j])
  BY DEF SameButStatus
<1> QED
  BY <1>3, <1>5, <1>6, <1>7

(* TypeOK is inductive. *)
LEMMA GatekeeperTyped == TypeOK /\ [Next]_vars => TypeOK'
<1> SUFFICES ASSUME TypeOK, [Next]_vars PROVE TypeOK'
  OBVIOUS
<1>1. ASSUME NEW i \in DOMAIN rows, Advance(i) PROVE TypeOK'
  BY <1>1, AdvanceKeeps DEF Advance, TypeOK
<1>2. CASE Midnight
  <2>1. today' \in 0..MaxDay /\ \A n \in 0..today : n \in 0..today'
    BY <1>2, GatekeeperAssumption DEF Midnight, TypeOK
  <2>2. \A k \in Slot : SlotTyped(slot[k])
    BY SlotAt
  <2>3. UNCHANGED <<whitelist, rows, slot>>
    BY <1>2 DEF Midnight
  <2> QED
    BY <2>1, <2>2, <2>3 DEF TypeOK, SlotTyped, AllDecisions
<1>3. CASE UNCHANGED vars
  BY <1>3 DEF vars, TypeOK
<1> QED
  BY <1>1, <1>2, <1>3, RequestTyped, SaveTyped, AdminTyped DEF Next

(* The tables hold rows of their types, and each coroutine what it read up to
   the point it has reached (router.py:51-80). *)
THEOREM GatekeeperTypeCorrect == Spec => []TypeOK
<1>1. Init => TypeOK
  <2>1. <<>> \in Seq(Row) /\ Len(<<>>) = 0
    BY EmptySeq
  <2> QED
    BY <2>1, GatekeeperAssumption DEF Init, TypeOK
<1> QED
  BY <1>1, GatekeeperTyped, PTL DEF Spec

-----------------------------------------------------------------------------
(* The whitelist. *)

(* The strengthening of WhitelistIsCurrent: what a request decides on was true
   when it read it, and what is true now is among what it has seen. *)
SeenInv ==
    /\ \A k \in Slot :
        /\ slot[k].pc # "free" => (slot[k].body.address \in whitelist) \in slot[k].seen
        /\ slot[k].pc = "listed" => slot[k].listed \in slot[k].seen
        /\ slot[k].pc \in {"priced", "flushed"} => (slot[k].decision # "BLOCK") \in slot[k].seen
    /\ WhitelistIsCurrent

(* What SeenInv says of one slot. *)
SeenBy(s) ==
    /\ s.pc # "free" => (s.body.address \in whitelist) \in s.seen
    /\ s.pc = "listed" => s.listed \in s.seen
    /\ s.pc \in {"priced", "flushed"} => (s.decision # "BLOCK") \in s.seen

(* A step that changes one slot and neither table. *)
LEMMA OneSlotSeen ==
    ASSUME TypeOK, SeenInv, NEW k \in Slot, NEW s, SeenBy(s), slot' = [slot EXCEPT ![k] = s],
           UNCHANGED <<whitelist, rows>>
    PROVE  SeenInv'
<1>1. \A j \in Slot : slot'[j] = s \/ slot'[j] = slot[j]
  BY DEF TypeOK
<1> QED
  BY <1>1 DEF SeenInv, SeenBy, WhitelistIsCurrent

(* The steps of a request, up to the INSERT. *)
LEMMA RequestSeen ==
    ASSUME TypeOK, SeenInv, NEW k \in Slot,
           \/ \E body \in Body : Receive(k, body)
           \/ FetchWhitelist(k) \/ FetchDailySpent(k) \/ Flush(k) \/ Fail(k)
    PROVE  SeenInv'
<1>1. ASSUME NEW body \in Body, Receive(k, body) PROVE SeenInv'
  <2>1. SeenBy([pc |-> "received", body |-> body, seen |-> {body.address \in whitelist}])
    BY DEF SeenBy
  <2> QED
    BY <1>1, <2>1, OneSlotSeen DEF Receive
<1>2. CASE FetchWhitelist(k)
  <2>1. SeenBy([pc |-> "listed", body |-> slot[k].body, seen |-> slot[k].seen,
                listed |-> slot[k].body.address \in whitelist, since |-> today])
    BY <1>2 DEF SeenBy, SeenInv, FetchWhitelist
  <2> QED
    BY <1>2, <2>1, OneSlotSeen DEF FetchWhitelist
<1>3. CASE FetchDailySpent(k)
  <2>1. PICK day \in slot[k].since .. today : slot' = [slot EXCEPT ![k] =
            [pc |-> "priced", body |-> slot[k].body, seen |-> slot[k].seen,
             decision |-> Evaluate(slot[k].listed, slot[k].body.amount,
                                   DailySpent(slot[k].body.ledger, day))]]
    BY <1>3 DEF FetchDailySpent
  <2>2. slot[k].pc = "listed" /\ slot[k].listed \in BOOLEAN /\ slot[k].body.amount \in Amount
    BY <1>3, SlotAt DEF FetchDailySpent, Body
  <2>3. PICK d : d = Evaluate(slot[k].listed, slot[k].body.amount,
                              DailySpent(slot[k].body.ledger, day))
    OBVIOUS
  <2>4. d # "BLOCK" <=> slot[k].listed
    BY <2>2, <2>3, EvaluateBlocks
  <2>5. (d # "BLOCK") = slot[k].listed
    BY <2>2, <2>4
  <2>6. SeenBy([pc |-> "priced", body |-> slot[k].body, seen |-> slot[k].seen,
                decision |-> d])
    BY <2>2, <2>5 DEF SeenBy, SeenInv
  <2> QED
    BY <1>3, <2>1, <2>3, <2>6, OneSlotSeen DEF FetchDailySpent
<1>4. CASE Flush(k)
  <2>1. SeenBy([pc |-> "flushed", body |-> slot[k].body, seen |-> slot[k].seen,
                decision |-> slot[k].decision, day |-> today])
    BY <1>4 DEF SeenBy, SeenInv, Flush
  <2> QED
    BY <1>4, <2>1, OneSlotSeen DEF Flush
<1>5. CASE Fail(k)
  BY <1>5, OneSlotSeen DEF Fail, SeenBy, Free
<1> QED
  BY <1>1, <1>2, <1>3, <1>4, <1>5

(* The INSERT stores what the request has seen. *)
LEMMA SaveSeen ==
    ASSUME TypeOK, SeenInv, NEW k \in Slot, SaveTransaction(k)
    PROVE  SeenInv'
<1> DEFINE s == slot[k]
           row == [ledger |-> s.body.ledger, amount |-> s.body.amount,
                   decision |-> s.decision, status |-> StatusOf(s.decision),
                   day |-> s.day, seen |-> s.seen, lapsed |-> FALSE]
<1>1. rows' = Append(rows, row) /\ rows \in Seq(Row) /\ TypeOK'
  BY SaveTyped DEF SaveTransaction, TypeOK
<1>2. (row.decision # "BLOCK") \in row.seen
  BY DEF SaveTransaction, SeenInv
<1> HIDE DEF row
<1>3. rows' \in Seq(Row)
  BY <1>1 DEF TypeOK
<1>4. ASSUME NEW i \in DOMAIN rows' PROVE rows'[i] = row \/ (i \in DOMAIN rows /\ rows'[i] = rows[i])
  <2>1. Len(rows) \in Nat /\ DOMAIN rows = 1 .. Len(rows) /\ DOMAIN rows' = 1 .. Len(rows')
    BY <1>1, <1>3, LenProperties
  <2> QED
    BY <1>1, <2>1
<1>5. WhitelistIsCurrent'
  BY <1>2, <1>4 DEF WhitelistIsCurrent, SeenInv
<1>6. \A j \in Slot : slot'[j] = Free \/ slot'[j] = slot[j]
  BY DEF SaveTransaction, TypeOK
<1>7. whitelist' = whitelist
  BY DEF SaveTransaction
<1> QED
  BY <1>5, <1>6, <1>7 DEF SeenInv, Free

(* A change of the whitelist is seen by the requests it concerns. *)
LEMMA AdminSeen ==
    ASSUME TypeOK, SeenInv, NEW a \in Address, AddWhitelistEntry(a) \/ DeleteWhitelistEntry(a)
    PROVE  SeenInv'
<1>1. PICK b \in BOOLEAN :
          /\ Witness(a, b) /\ (b <=> a \in whitelist')
          /\ \A c \in Address \ {a} : c \in whitelist' <=> c \in whitelist
  <2>1. CASE AddWhitelistEntry(a)
    <3>1. /\ Witness(a, TRUE) /\ a \in whitelist'
          /\ \A c \in Address \ {a} : c \in whitelist' <=> c \in whitelist
      BY <2>1 DEF AddWhitelistEntry
    <3> WITNESS TRUE \in BOOLEAN
    <3> QED
      BY <3>1
  <2>2. CASE DeleteWhitelistEntry(a)
    <3>1. /\ Witness(a, FALSE) /\ a \notin whitelist'
          /\ \A c \in Address \ {a} : c \in whitelist' <=> c \in whitelist
      BY <2>2 DEF DeleteWhitelistEntry
    <3> WITNESS FALSE \in BOOLEAN
    <3> QED
      BY <3>1
  <2> QED
    BY <2>1, <2>2
<1>2. rows' = rows
  BY DEF AddWhitelistEntry, DeleteWhitelistEntry
<1>3. ASSUME NEW k \in Slot PROVE SeenBy(slot[k])'
  <2>1. SeenBy(slot[k])
    BY DEF SeenInv, SeenBy
  <2>2. slot[k].pc # "free" => slot[k].body.address \in Address
    BY SlotAt DEF Body
  <2>3. /\ slot'[k].pc = slot[k].pc
        /\ slot[k].pc = "listed" => slot'[k].listed = slot[k].listed
        /\ slot[k].pc \in {"priced", "flushed"} => slot'[k].decision = slot[k].decision
    BY <1>1, WitnessKeeps
  <2>4. CASE slot[k].pc = "free"
    BY <2>3, <2>4 DEF SeenBy
  <2>5. CASE slot[k].pc # "free" /\ slot[k].body.address = a
    <3>1. slot'[k].body = slot[k].body /\ slot'[k].seen = slot[k].seen \cup {b}
      <4>1. Witness(a, b)
        BY <1>1
      <4> QED
        BY <2>5, <4>1, WitnessKeeps
    <3>2. (slot[k].body.address \in whitelist') = b
      BY <1>1, <2>5
    <3>3. (slot[k].body.address \in whitelist') \in slot'[k].seen
      BY <3>1, <3>2
    <3> QED
      BY <2>1, <2>3, <3>1, <3>3 DEF SeenBy
  <2>6. CASE slot[k].pc # "free" /\ slot[k].body.address # a
    <3>1. slot'[k].body = slot[k].body /\ slot'[k].seen = slot[k].seen
      BY <1>1, <2>6, WitnessKeeps
    <3>2. (slot[k].body.address \in whitelist') = (slot[k].body.address \in whitelist)
      BY <1>1, <2>2, <2>6
    <3>3. (slot[k].body.address \in whitelist') \in slot'[k].seen
      BY <2>1, <2>6, <3>1, <3>2 DEF SeenBy
    <3> QED
      BY <2>1, <2>3, <3>1, <3>3 DEF SeenBy
  <2> QED
    BY <2>4, <2>5, <2>6
<1> QED
  BY <1>2, <1>3 DEF SeenInv, SeenBy, WhitelistIsCurrent

(* SeenInv is inductive. *)
LEMMA SeenNext == TypeOK /\ SeenInv /\ [Next]_vars => SeenInv'
<1> SUFFICES ASSUME TypeOK, SeenInv, [Next]_vars PROVE SeenInv'
  OBVIOUS
<1>1. ASSUME NEW i \in DOMAIN rows, Advance(i) PROVE SeenInv'
  <2>1. /\ DOMAIN rows' = DOMAIN rows /\ UNCHANGED <<whitelist, today, slot>>
        /\ \A j \in DOMAIN rows : SameButStatus(rows'[j], rows[j])
    BY <1>1, AdvanceKeeps DEF Advance
  <2> QED
    BY <2>1 DEF SeenInv, WhitelistIsCurrent, SameButStatus
<1>2. CASE UNCHANGED <<whitelist, rows, slot>>
  BY <1>2 DEF SeenInv, WhitelistIsCurrent
<1> QED
  BY <1>1, <1>2, RequestSeen, SaveSeen, AdminSeen DEF Next, Midnight, vars

(* A decision rests on what the whitelist said of the address at a moment of
   the request's service, whatever administrators do meanwhile. *)
THEOREM DecisionsCurrent == Spec => []WhitelistIsCurrent
<1>1. Init => SeenInv
  BY DEF Init, SeenInv, WhitelistIsCurrent, Free
<1>2. SeenInv => WhitelistIsCurrent
  BY DEF SeenInv
<1>3. Init => TypeOK
  BY EmptySeq, GatekeeperAssumption DEF Init, TypeOK
<1> QED
  BY <1>1, <1>2, <1>3, SeenNext, GatekeeperTyped, PTL DEF Spec

-----------------------------------------------------------------------------
(* The daily limit. *)

(* Rows that were allowed and have never failed. *)
Steady(l, day) == {i \in AllowedRows(l, day) : ~rows[i].lapsed}

SteadyOn(l, day) == SumOf(Steady(l, day))

(* Requests on ledger l that have allowed a withdrawal which is, or would be now,
   dated day, and have not committed it. *)
Waiting(l, day) ==
    {k \in Slot : /\ slot[k].pc \in {"priced", "flushed"}
                  /\ slot[k].decision = "ALLOW" /\ slot[k].body.ledger = l
                  /\ day = IF slot[k].pc = "priced" THEN today ELSE slot[k].day}

(* The limits of the others. *)
Unused(l, day) == Cardinality(Slot \ Waiting(l, day)) * Limit

(* Each waiting request has a limit set aside; only what the one that read the sum
   last will insert may be counted within what was there for it to read. *)
Reserved(l, day) ==
    \/ SteadyOn(l, day) <= Unused(l, day)
    \/ \E k \in Waiting(l, day) :
        SteadyOn(l, day) + slot[k].body.amount <= Unused(l, day) + Limit

(* None of the waiting requests asks for more than the limit. *)
Modest(l, day) == \A k \in Waiting(l, day) : slot[k].body.amount <= Limit

(* Rows are not dated ahead of the day; one that was allowed is within the limit,
   is never under review, and counts as steady until it fails. *)
RowsDated ==
    \A i \in DOMAIN rows :
        /\ rows[i].day <= today
        /\ rows[i].decision = "ALLOW" =>
            /\ rows[i].amount <= Limit
            /\ rows[i].status # "PENDING_REVIEW"
            /\ rows[i].status = "FAILED" => rows[i].lapsed

(* The strengthening of AllowedWithinSlots: on each day room is left for the
   requests that have decided and not committed yet. *)
LimitInv ==
    /\ RowsDated
    /\ \A l \in LedgerId, day \in 0..today : Modest(l, day) /\ Reserved(l, day)

LEMMA RowsFinite ==
    ASSUME TypeOK
    PROVE  /\ IsFiniteSet(DOMAIN rows) /\ today \in Nat
           /\ \A i \in DOMAIN rows : rows[i] \in Row /\ rows[i].amount \in Nat
<1>1. rows \in Seq(Row) /\ today \in Nat
  BY GatekeeperAssumption DEF TypeOK
<1>2. DOMAIN rows = 1 .. Len(rows) /\ Len(rows) \in Nat
  BY <1>1, LenProperties
<1>3. IsFiniteSet(1 .. Len(rows))
  BY <1>2, FS_Interval
<1>4. \A i \in DOMAIN rows : rows[i] \in Row
  BY <1>1
<1>5. \A r \in Row : r.amount \in Nat
  BY GatekeeperAssumption DEF Row
<1> QED
  BY <1>1, <1>2, <1>3, <1>4, <1>5

(* Sums of rows are natural numbers, and those of more rows are no smaller. *)
LEMMA SumsOfRows ==
    ASSUME TypeOK, NEW I \in SUBSET DOMAIN rows, NEW J \in SUBSET I
    PROVE  SumOf(I) \in Nat /\ SumOf(J) \in Nat /\ SumOf(J) <= SumOf(I)
<1> DEFINE A == [i \in DOMAIN rows |-> rows[i].amount]
<1>1. IsFiniteSet(I) /\ IsFiniteSet(J)
  BY RowsFinite, FS_Subset
<1>2. \A i \in I : A[i] \in Nat /\ A[i] <= A[i]
  BY RowsFinite
<1> HIDE DEF A
<1>3. SumFunctionOnSet(A, I) \in Nat /\ SumFunctionOnSet(A, J) \in Nat
  BY <1>1, <1>2, SumTakesOut
<1>4. SumFunctionOnSet(A, J) <= SumFunctionOnSet(A, I)
  BY <1>1, <1>2, SumGrows
<1> QED
  BY <1>3, <1>4 DEF SumOf, A

LEMMA SteadyIsNat ==
    ASSUME TypeOK, NEW l, NEW day
    PROVE  Steady(l, day) \in SUBSET DOMAIN rows /\ SteadyOn(l, day) \in Nat
<1>1. Steady(l, day) \in SUBSET DOMAIN rows
  BY DEF Steady, AllowedRows
<1> QED
  BY <1>1, SumsOfRows DEF SteadyOn

LEMMA SteadyNat == TypeOK => \A l, day : SteadyOn(l, day) \in Nat
BY SteadyIsNat

LEMMA SteadyNatNext == (TypeOK => \A l, day : SteadyOn(l, day) \in Nat)'
BY SteadyNat, PTL

(* Steps that keep the amounts of the rows there were and make no more of them
   steady do not raise the sum. *)
LEMMA SteadyShrinks ==
    ASSUME TypeOK, TypeOK', NEW l, NEW day,
           Steady(l, day)' \in SUBSET Steady(l, day), DOMAIN rows \subseteq DOMAIN rows',
           \A i \in DOMAIN rows : rows'[i].amount = rows[i].amount
    PROVE  SteadyOn(l, day)' <= SteadyOn(l, day)
<1> DEFINE A == [i \in DOMAIN rows |-> rows[i].amount]
           B == [i \in DOMAIN rows' |-> rows'[i].amount]
           I == Steady(l, day)
           J == Steady(l, day)'
<1>1. IsFiniteSet(I) /\ J \in SUBSET I /\ I \in SUBSET DOMAIN rows
  BY RowsFinite, SteadyIsNat, FS_Subset
<1>2. /\ \A i \in I : A[i] \in Nat
      /\ \A i \in J : B[i] \in Nat /\ B[i] <= A[i]
  BY <1>1, RowsFinite
<1>3. SteadyOn(l, day) = SumFunctionOnSet(A, I) /\ SteadyOn(l, day)' = SumFunctionOnSet(B, J)
  BY DEF SteadyOn, SumOf
<1> HIDE DEF A, B, I, J
<1>4. SumFunctionOnSet(B, J) <= SumFunctionOnSet(A, I)
  BY <1>1, <1>2, SumGrows
<1> QED
  BY <1>3, <1>4

(* The amount of a request. *)
LEMMA AmountOf ==
    ASSUME NEW body \in Body
    PROVE  body.amount \in Nat /\ body.amount > 0
<1>1. body.amount \in Amount
  BY DEF Body
<1>2. body.amount \in Nat \ {0}
  BY <1>1, GatekeeperAssumption
<1> QED
  BY <1>2

LEMMA WaitingHas ==
    ASSUME TypeOK, NEW l, NEW day, NEW k \in Waiting(l, day)
    PROVE  k \in Slot /\ slot[k].body \in Body /\ slot[k].body.amount \in Nat
<1>1. k \in Slot /\ slot[k].pc # "free"
  BY DEF Waiting
<1> QED
  BY <1>1, SlotAt, AmountOf

(* The limits of the requests outside a set V are no less than those outside a set
   that contains it, with one to spare if there is a difference. *)
LEMMA LimitsOf ==
    ASSUME NEW W \in SUBSET Slot, NEW V \in SUBSET W
    PROVE  LET w == Cardinality(Slot \ W) * Limit
               v == Cardinality(Slot \ V) * Limit
           IN  w \in Nat /\ v \in Nat /\ w <= v /\ (V # W => w + Limit <= v)
<1> DEFINE n == Cardinality(Slot \ V)
           m == Cardinality(Slot \ W)
<1>1. IsFiniteSet(Slot \ V) /\ (Slot \ W) \in SUBSET (Slot \ V)
  BY FS_Subset, GatekeeperAssumption
<1>2. n \in Nat /\ m \in Nat /\ m <= n
  BY <1>1, FS_Subset, FS_CardinalityType
<1>3. V # W => m < n
  <2> SUFFICES ASSUME V # W PROVE m < n
    OBVIOUS
  <2>1. Slot \ W # Slot \ V
    OBVIOUS
  <2>2. m # n
    BY <1>1, <2>1, FS_Subset
  <2> HIDE DEF n, m
  <2> QED
    BY <1>2, <2>2
<1>4. Limit \in Nat
  BY GatekeeperAssumption
<1> HIDE DEF n, m
<1>5. m * Limit <= n * Limit /\ m * Limit \in Nat /\ n * Limit \in Nat
  BY <1>2, <1>4
<1>6. V # W => (m + 1) * Limit <= n * Limit /\ (m + 1) * Limit = m * Limit + Limit
  BY <1>2, <1>3, <1>4
<1> QED
  BY <1>5, <1>6 DEF n, m

LEMMA UnusedCounts ==
    ASSUME NEW l, NEW day
    PROVE  /\ Unused(l, day) \in Nat /\ Cardinality(Slot) * Limit \in Nat
           /\ Unused(l, day) <= Cardinality(Slot) * Limit
           /\ Waiting(l, day) # {} => Unused(l, day) + Limit <= Cardinality(Slot) * Limit
<1>1. Waiting(l, day) \in SUBSET Slot /\ {} \in SUBSET Waiting(l, day) /\ Slot \ {} = Slot
  BY DEF Waiting
<1> QED
  BY <1>1, LimitsOf DEF Unused

(* A reservation is enough. *)
LEMMA ReservedEnough ==
    ASSUME TypeOK, NEW l, NEW day, Reserved(l, day)
    PROVE  SteadyOn(l, day) <= Cardinality(Slot) * Limit
<1>1. SteadyOn(l, day) \in Nat /\ Limit \in Nat
  BY SteadyIsNat, GatekeeperAssumption
<1>2. CASE SteadyOn(l, day) <= Unused(l, day)
  BY <1>1, <1>2, UnusedCounts
<1>3. ASSUME NEW k \in Waiting(l, day),
             SteadyOn(l, day) + slot[k].body.amount <= Unused(l, day) + Limit
      PROVE  SteadyOn(l, day) <= Cardinality(Slot) * Limit
  BY <1>1, <1>3, WaitingHas, UnusedCounts
<1> QED
  BY <1>2, <1>3 DEF Reserved

(* What came back after a failure adds no more than a limit each: the strengthening
   implies the property. *)
LEMMA LimitEnough == TypeOK /\ LimitInv => AllowedWithinSlots
<1> SUFFICES ASSUME TypeOK, LimitInv, NEW l \in LedgerId, NEW day \in 0..today
             PROVE  AllowedOn(l, day) <=
                        (Cardinality(Slot) + Cardinality(Revived(l, day))) * Limit
  BY DEF AllowedWithinSlots
<1> DEFINE A == [i \in DOMAIN rows |-> rows[i].amount]
           I == AllowedRows(l, day)
           J == Steady(l, day)
<1>1. I \in SUBSET DOMAIN rows /\ J \in SUBSET I /\ IsFiniteSet(I) /\ I \ J = Revived(l, day)
  <2>1. I \in SUBSET DOMAIN rows /\ J \in SUBSET I
    BY DEF AllowedRows, Steady
  <2>2. I \ J = Revived(l, day)
    BY DEF Steady, Revived
  <2> QED
    BY <2>1, <2>2, RowsFinite, FS_Subset
<1>2. \A i \in I : A[i] \in Nat /\ A[i] <= Limit
  BY <1>1, RowsFinite DEF AllowedRows, LimitInv, RowsDated
<1>3. Limit \in Nat
  BY GatekeeperAssumption
<1>4. SteadyOn(l, day) = SumFunctionOnSet(A, J) /\ AllowedOn(l, day) = SumFunctionOnSet(A, I)
  BY DEF SteadyOn, AllowedOn, SumOf
<1> HIDE DEF A, I, J
<1>5. SumFunctionOnSet(A, I) <= SumFunctionOnSet(A, J) + Cardinality(I \ J) * Limit
  BY <1>1, <1>2, <1>3, SumWithin
<1>6. SumFunctionOnSet(A, I) \in Nat /\ SumFunctionOnSet(A, J) \in Nat
  BY <1>1, <1>2, FS_Subset, SumTakesOut
<1> DEFINE n == Cardinality(Slot)
           r == Cardinality(I \ J)
<1>7. n \in Nat /\ r \in Nat
  BY <1>1, FS_Subset, FS_CardinalityType, GatekeeperAssumption
<1>8. SumFunctionOnSet(A, J) <= n * Limit
  BY <1>4, ReservedEnough DEF LimitInv
<1> HIDE DEF n, r
<1>9. (n + r) * Limit = n * Limit + r * Limit /\ n * Limit \in Nat /\ r * Limit \in Nat
  BY <1>3, <1>7
<1>10. SumFunctionOnSet(A, I) <= SumFunctionOnSet(A, J) + r * Limit
  BY <1>5 DEF r
<1>11. SumFunctionOnSet(A, I) <= (n + r) * Limit
  BY <1>6, <1>8, <1>9, <1>10
<1> QED
  BY <1>1, <1>4, <1>11 DEF n, r

(* A step after which no request waits that did not wait before, and the steady rows
   sum to no more. *)
LEMMA ReservationKept ==
    ASSUME TypeOK, NEW l, NEW day, Modest(l, day), Reserved(l, day),
           Waiting(l, day)' \in SUBSET Waiting(l, day),
           \A k \in Waiting(l, day)' : slot'[k].body = slot[k].body,
           SteadyOn(l, day)' \in Nat, SteadyOn(l, day)' <= SteadyOn(l, day)
    PROVE  Modest(l, day)' /\ Reserved(l, day)'
<1> DEFINE W == Waiting(l, day)
           V == Waiting(l, day)'
           w == Unused(l, day)
           v == Unused(l, day)'
<1>1. W \in SUBSET Slot /\ V \in SUBSET W
  BY DEF Waiting
<1>2. w \in Nat /\ v \in Nat /\ w <= v /\ (V # W => w + Limit <= v)
  BY <1>1, LimitsOf DEF Unused
<1>3. SteadyOn(l, day) \in Nat /\ Limit \in Nat
  BY SteadyIsNat, GatekeeperAssumption
<1>4. Modest(l, day)'
  BY <1>1 DEF Modest
<1>5. CASE SteadyOn(l, day) <= w
  <2>1. SteadyOn(l, day)' <= v
    BY <1>2, <1>3, <1>5
  <2> QED
    BY <1>4, <2>1 DEF Reserved
<1>6. ASSUME NEW k \in W, SteadyOn(l, day) + slot[k].body.amount <= w + Limit
      PROVE  Reserved(l, day)'
  <2>1. slot[k].body.amount \in Nat
    BY WaitingHas
  <2>2. CASE k \in V
    <3>1. slot'[k].body = slot[k].body
      BY <2>2
    <3>2. SteadyOn(l, day)' + slot[k].body.amount <= v + Limit
      BY <1>2, <1>3, <1>6, <2>1
    <3> QED
      BY <2>2, <3>1, <3>2 DEF Reserved
  <2>3. CASE k \notin V
    <3>1. w + Limit <= v
      BY <1>2, <2>3
    <3>2. SteadyOn(l, day)' <= v
      BY <1>2, <1>3, <1>6, <2>1, <3>1
    <3> QED
      BY <3>2 DEF Reserved
  <2> QED
    BY <2>2, <2>3
<1> QED
  BY <1>4, <1>5, <1>6 DEF Reserved

(* A step that leaves the rows and the day alone. *)
LEMMA LimitFrame ==
    ASSUME TypeOK, LimitInv, UNCHANGED <<rows, today>>,
           \A l \in LedgerId, day \in 0..today :
                /\ Waiting(l, day)' \in SUBSET Waiting(l, day)
                /\ \A k \in Waiting(l, day)' : slot'[k].body = slot[k].body
    PROVE  LimitInv'
<1>1. \A l, day : SteadyOn(l, day)' = SteadyOn(l, day)
  BY DEF SteadyOn, SumOf, Steady, AllowedRows
<1>2. ASSUME NEW l \in LedgerId, NEW day \in 0..today
      PROVE  Modest(l, day)' /\ Reserved(l, day)'
  <2>1. SteadyOn(l, day) \in Nat /\ SteadyOn(l, day) <= SteadyOn(l, day)
    BY SteadyIsNat
  <2>2. Modest(l, day) /\ Reserved(l, day)
    BY DEF LimitInv
  <2> QED
    BY <1>1, <2>1, <2>2, ReservationKept
<1>3. RowsDated'
  BY DEF LimitInv, RowsDated
<1> QED
  BY <1>2, <1>3 DEF LimitInv

(* The read of the day's sum: what is allowed fits, with the rows there are, under
   the limit. *)
LEMMA PricedWithinLimit ==
    ASSUME TypeOK, NEW k \in Slot, FetchDailySpent(k), slot'[k].decision = "ALLOW",
           NEW l, slot[k].body.ledger = l
    PROVE  /\ slot[k].body.amount \in Nat
           /\ SteadyOn(l, today) + slot[k].body.amount <= Limit
<1>1. PICK day \in slot[k].since .. today : slot' = [slot EXCEPT ![k] =
          [pc |-> "priced", body |-> slot[k].body, seen |-> slot[k].seen,
           decision |-> Evaluate(slot[k].listed, slot[k].body.amount,
                                 DailySpent(slot[k].body.ledger, day))]]
  BY DEF FetchDailySpent
<1> DEFINE a == slot[k].body.amount
           spent == DailySpent(slot[k].body.ledger, day)
<1>2. Evaluate(slot[k].listed, a, spent) = "ALLOW"
  BY <1>1 DEF TypeOK
<1>3. slot[k].body \in Body /\ slot[k].since \in 0 .. today
  BY SlotAt DEF FetchDailySpent
<1>4. a \in Nat /\ a > 0 /\ today \in Nat /\ day \in Nat /\ day <= today
  <2>1. a \in Nat /\ a > 0
    BY <1>3, AmountOf
  <2>2. today \in Nat
    BY RowsFinite
  <2> QED
    BY <1>3, <2>1, <2>2
<1> DEFINE I == {i \in DOMAIN rows : rows[i].ledger = l /\ Counts(rows[i]) /\ rows[i].day >= day}
<1>5. Steady(l, today) \in SUBSET I /\ I \in SUBSET DOMAIN rows /\ spent = SumOf(I)
  BY <1>4 DEF Steady, AllowedRows, DailySpent
<1> HIDE DEF I, spent
<1>6. spent \in Nat /\ SteadyOn(l, today) \in Nat /\ SteadyOn(l, today) <= spent
  BY <1>5, SumsOfRows DEF SteadyOn
<1> HIDE DEF a
<1>7. ~(spent + a > Limit)
  BY <1>2, <1>4 DEF Evaluate
<1>8. Limit \in Nat
  BY GatekeeperAssumption
<1> QED
  BY <1>4, <1>6, <1>7, <1>8 DEF a

(* The steps of a request, up to the commit. *)
LEMMA RequestLimit ==
    ASSUME TypeOK, TypeOK', LimitInv, NEW k \in Slot,
           \/ \E body \in Body : Receive(k, body)
           \/ FetchWhitelist(k) \/ FetchDailySpent(k) \/ Flush(k) \/ Fail(k)
    PROVE  LimitInv'
<1>1. /\ UNCHANGED <<rows, today>>
      /\ \A j \in Slot \ {k} : slot'[j] = slot[j]
  BY DEF Receive, FetchWhitelist, FetchDailySpent, Flush, Fail, TypeOK
<1>2. CASE ~FetchDailySpent(k)
  <2>1. \/ slot'[k].pc \notin {"priced", "flushed"}
        \/ /\ slot[k].pc = "priced" /\ slot'[k].pc = "flushed" /\ slot'[k].day = today
           /\ slot'[k].body = slot[k].body /\ slot'[k].decision = slot[k].decision
    BY <1>2 DEF Receive, FetchWhitelist, Flush, Fail, Free, TypeOK
  <2>2. ASSUME NEW l \in LedgerId, NEW day \in 0..today
        PROVE  /\ Waiting(l, day)' \in SUBSET Waiting(l, day)
               /\ \A j \in Waiting(l, day)' : slot'[j].body = slot[j].body
    BY <1>1, <2>1 DEF Waiting
  <2> QED
    BY <1>1, <2>2, LimitFrame
<1>3. CASE FetchDailySpent(k)
  <2>1. /\ slot'[k].pc = "priced" /\ slot'[k].body = slot[k].body /\ slot[k].pc = "listed"
    BY <1>3 DEF FetchDailySpent, TypeOK
  <2>2. \A l, day : SteadyOn(l, day)' = SteadyOn(l, day)
    BY <1>1 DEF SteadyOn, SumOf, Steady, AllowedRows
  <2>3. ASSUME NEW l \in LedgerId, NEW day \in 0..today
        PROVE  Modest(l, day)' /\ Reserved(l, day)'
    <3>0. SteadyOn(l, day) \in Nat /\ Limit \in Nat /\ Modest(l, day) /\ Reserved(l, day)
      BY SteadyIsNat, GatekeeperAssumption DEF LimitInv
    <3>1. CASE k \notin Waiting(l, day)'
      <4>1. /\ Waiting(l, day)' \in SUBSET Waiting(l, day)
            /\ \A j \in Waiting(l, day)' : slot'[j].body = slot[j].body
        BY <1>1, <3>1 DEF Waiting
      <4>2. SteadyOn(l, day)' \in Nat /\ SteadyOn(l, day)' <= SteadyOn(l, day)
        BY <2>2, <3>0
      <4> QED
        BY <3>0, <4>1, <4>2, ReservationKept
    <3>2. CASE k \in Waiting(l, day)'
      <4>1. slot'[k].decision = "ALLOW" /\ slot[k].body.ledger = l /\ day = today
        BY <1>1, <2>1, <3>2 DEF Waiting
      <4>2. /\ slot[k].body.amount \in Nat
            /\ SteadyOn(l, today) + slot[k].body.amount <= Limit
        BY <1>3, <4>1, PricedWithinLimit
      <4>3. Waiting(l, day)' \in SUBSET Slot
        BY DEF Waiting
      <4>4. Unused(l, day)' \in Nat
        BY <4>3, LimitsOf DEF Unused
      <4>5. SteadyOn(l, day)' + slot'[k].body.amount <= Unused(l, day)' + Limit
        BY <2>1, <2>2, <3>0, <4>1, <4>2, <4>4
      <4>6. \A j \in Waiting(l, day)' : j = k \/ (j \in Waiting(l, day) /\ slot'[j] = slot[j])
        BY <1>1 DEF Waiting
      <4>7. slot'[k].body.amount <= Limit
        BY <2>1, <3>0, <4>1, <4>2
      <4> QED
        BY <3>0, <3>2, <4>5, <4>6, <4>7 DEF Reserved, Modest
    <3> QED
      BY <3>1, <3>2
  <2>4. RowsDated'
    BY <1>1 DEF LimitInv, RowsDated
  <2> QED
    BY <1>1, <2>3, <2>4 DEF LimitInv
<1> QED
  BY <1>2, <1>3

(* What the commit of the INSERT adds to the steady rows. *)
LEMMA SaveCounts ==
    ASSUME TypeOK, NEW k \in Slot, SaveTransaction(k), NEW l, NEW day
    PROVE  SteadyOn(l, day)' = IF k \in Waiting(l, day)
                               THEN SteadyOn(l, day) + slot[k].body.amount ELSE SteadyOn(l, day)
<1> DEFINE s == slot[k]
           n == Len(rows) + 1
           row == [ledger |-> s.body.ledger, amount |-> s.body.amount,
                   decision |-> s.decision, status |-> StatusOf(s.decision),
                   day |-> s.day, seen |-> s.seen, lapsed |-> FALSE]
           A == [i \in DOMAIN rows |-> rows[i].amount]
           B == [i \in DOMAIN rows' |-> rows'[i].amount]
           I == Steady(l, day)
           J == Steady(l, day)'
<1>1. s.pc = "flushed" /\ s.body \in Body /\ s.decision \in AllDecisions /\ s.body.amount \in Nat
  BY SlotAt, AmountOf DEF SaveTransaction
<1>2. rows' = Append(rows, row)
  BY DEF SaveTransaction
<1>3. /\ rows \in Seq(Row) /\ rows' \in Seq(Row) /\ Len(rows) \in Nat
      /\ DOMAIN rows = 1 .. Len(rows) /\ DOMAIN rows' = 1 .. Len(rows')
  <2>1. rows \in Seq(Row) /\ rows' \in Seq(Row)
    BY SaveTyped DEF TypeOK
  <2> QED
    BY <2>1, LenProperties
<1>4. /\ DOMAIN rows' = DOMAIN rows \cup {n} /\ n \notin DOMAIN rows
      /\ rows'[n] = row /\ \A i \in DOMAIN rows : rows'[i] = rows[i]
  <2> HIDE DEF row
  <2> QED
    BY <1>2, <1>3
<1>5. /\ row.ledger = s.body.ledger /\ row.amount = s.body.amount /\ row.lapsed = FALSE
      /\ row.decision = s.decision /\ row.status = StatusOf(s.decision) /\ row.day = s.day
  OBVIOUS
<1>6. s.decision = "ALLOW" => StatusOf(s.decision) = "PENDING"
  BY DEF StatusOf
<1> HIDE DEF row, n
<1>7. J = IF k \in Waiting(l, day) THEN I \cup {n} ELSE I
  BY <1>1, <1>4, <1>5, <1>6 DEF Steady, AllowedRows, Waiting, Counts
<1>8. IsFiniteSet(I) /\ I \in SUBSET DOMAIN rows /\ n \notin I
  BY <1>4, RowsFinite, SteadyIsNat, FS_Subset
<1>9. SteadyOn(l, day) = SumFunctionOnSet(A, I) /\ SteadyOn(l, day)' = SumFunctionOnSet(B, J)
  BY DEF SteadyOn, SumOf
<1>10. /\ \A i \in I : A[i] \in Nat /\ B[i] = A[i]
       /\ B[n] = s.body.amount
  BY <1>4, <1>5, <1>8, RowsFinite
<1> HIDE DEF A, B, I, J
<1>11. SumFunctionOnSet(B, I) = SumFunctionOnSet(A, I)
  <2>1. SumFunctionOnSet(B, I) <= SumFunctionOnSet(A, I)
    BY <1>8, <1>10, SumGrows
  <2>2. SumFunctionOnSet(A, I) <= SumFunctionOnSet(B, I)
    BY <1>8, <1>10, SumGrows
  <2>3. SumFunctionOnSet(A, I) \in Nat /\ SumFunctionOnSet(B, I) \in Nat
    BY <1>8, <1>10, SumTakesOut
  <2> QED
    BY <2>1, <2>2, <2>3
<1>12. SumFunctionOnSet(B, I \cup {n}) = SumFunctionOnSet(B, I) + s.body.amount
  <2>1. \A i \in I \cup {n} : B[i] \in Nat
    BY <1>1, <1>8, <1>10
  <2> QED
    BY <1>8, <1>10, <2>1, SumAdds
<1> QED
  BY <1>7, <1>9, <1>11, <1>12

(* The commit of the INSERT: what waited is now counted. *)
LEMMA SaveLimit ==
    ASSUME TypeOK, TypeOK', LimitInv, NEW k \in Slot, SaveTransaction(k)
    PROVE  LimitInv'
<1> DEFINE a == slot[k].body.amount
<1>1. /\ slot[k].pc = "flushed" /\ a \in Nat /\ today' = today
      /\ slot' = [slot EXCEPT ![k] = Free] /\ slot'[k].pc = "free"
      /\ \A j \in Slot \ {k} : slot'[j] = slot[j]
  BY SlotAt, AmountOf DEF SaveTransaction, TypeOK, Free
<1>2. ASSUME NEW l \in LedgerId, NEW day \in 0..today
      PROVE  Modest(l, day)' /\ Reserved(l, day)'
  <2> DEFINE W == Waiting(l, day)
             V == Waiting(l, day)'
             w == Unused(l, day)
             v == Unused(l, day)'
  <2>1. W \in SUBSET Slot /\ V = W \ {k} /\ \A j \in V : slot'[j] = slot[j]
    BY <1>1 DEF Waiting
  <2>2. Modest(l, day) /\ Reserved(l, day)
    BY DEF LimitInv
  <2>3. SteadyOn(l, day) \in Nat /\ SteadyOn(l, day)' \in Nat /\ Limit \in Nat
    BY SteadyIsNat, SteadyNatNext, GatekeeperAssumption
  <2>4. CASE k \notin W
    <3>1. SteadyOn(l, day)' <= SteadyOn(l, day)
      BY <2>3, <2>4, SaveCounts
    <3>2. V \in SUBSET W /\ \A j \in V : slot'[j].body = slot[j].body
      BY <2>1
    <3> QED
      BY <2>2, <2>3, <3>1, <3>2, ReservationKept
  <2>5. CASE k \in W
    <3>1. w \in Nat /\ v \in Nat /\ w + Limit <= v
      BY <2>1, <2>5, LimitsOf DEF Unused
    <3>2. SteadyOn(l, day)' = SteadyOn(l, day) + a
      BY <2>5, SaveCounts
    <3>3. a <= Limit
      BY <2>2, <2>5 DEF Modest
    <3>4. Modest(l, day)'
      BY <2>1, <2>2 DEF Modest
    <3>5. ASSUME SteadyOn(l, day) <= w PROVE Reserved(l, day)'
      <4>1. SteadyOn(l, day)' <= v
        BY <1>1, <2>3, <3>1, <3>2, <3>3, <3>5
      <4> QED
        BY <4>1 DEF Reserved
    <3>6. ASSUME NEW j \in W, SteadyOn(l, day) + slot[j].body.amount <= w + Limit
          PROVE  Reserved(l, day)'
      <4>1. slot[j].body.amount \in Nat
        BY WaitingHas
      <4>2. CASE j = k
        <5>1. SteadyOn(l, day)' <= v
          BY <1>1, <2>3, <3>1, <3>2, <3>6, <4>2
        <5> QED
          BY <5>1 DEF Reserved
      <4>3. CASE j # k
        <5>1. j \in V /\ slot'[j] = slot[j]
          BY <2>1, <4>3
        <5>2. SteadyOn(l, day)' + slot[j].body.amount <= v + Limit
          BY <1>1, <2>3, <3>1, <3>2, <3>3, <3>6, <4>1
        <5> QED
          BY <5>1, <5>2 DEF Reserved
      <4> QED
        BY <4>2, <4>3
    <3> QED
      BY <2>2, <3>4, <3>5, <3>6 DEF Reserved
  <2> QED
    BY <2>4, <2>5
<1>3. RowsDated'
  <2> DEFINE s == slot[k]
             row == [ledger |-> s.body.ledger, amount |-> s.body.amount,
                     decision |-> s.decision, status |-> StatusOf(s.decision),
                     day |-> s.day, seen |-> s.seen, lapsed |-> FALSE]
  <2>1. s.day \in 0..today /\ s.body \in Body
    BY SlotAt DEF SaveTransaction
  <2>2. s.decision = "ALLOW" => StatusOf(s.decision) = "PENDING"
    BY DEF StatusOf
  <2>3. s.decision = "ALLOW" => s.body.amount <= Limit
    <3> SUFFICES ASSUME s.decision = "ALLOW" PROVE s.body.amount <= Limit
      OBVIOUS
    <3>1. k \in Waiting(s.body.ledger, s.day) /\ s.body.ledger \in LedgerId
      BY <1>1, <2>1 DEF Waiting, Body
    <3> QED
      BY <2>1, <3>1 DEF LimitInv, Modest
  <2>4. rows' = Append(rows, row) /\ rows \in Seq(Row)
    BY DEF SaveTransaction, TypeOK
  <2>5. /\ row.day = s.day /\ row.decision = s.decision /\ row.amount = s.body.amount
        /\ row.status = StatusOf(s.decision)
    OBVIOUS
  <2>6. row.day <= today
    BY <2>1, <2>5, RowsFinite
  <2> HIDE DEF row
  <2>7. \A i \in DOMAIN rows' : rows'[i] = row \/ (i \in DOMAIN rows /\ rows'[i] = rows[i])
    <3>1. DOMAIN rows = 1 .. Len(rows) /\ Len(rows) \in Nat
      BY <2>4, LenProperties
    <3> QED
      BY <2>4, <3>1
  <2> QED
    BY <1>1, <2>2, <2>3, <2>5, <2>6, <2>7 DEF LimitInv, RowsDated
<1> QED
  BY <1>1, <1>2, <1>3 DEF LimitInv

(* A change of the whitelist moves no money. *)
LEMMA AdminLimit ==
    ASSUME TypeOK, LimitInv, NEW a \in Address, AddWhitelistEntry(a) \/ DeleteWhitelistEntry(a)
    PROVE  LimitInv'
<1>1. PICK b \in BOOLEAN : Witness(a, b)
  BY DEF AddWhitelistEntry, DeleteWhitelistEntry
<1>2. UNCHANGED <<rows, today>>
  BY DEF AddWhitelistEntry, DeleteWhitelistEntry
<1>3. \A k \in Slot :
        /\ slot'[k].pc = slot[k].pc
        /\ slot[k].pc \in {"priced", "flushed"} =>
            /\ slot'[k].body = slot[k].body
            /\ slot'[k].decision = slot[k].decision
        /\ slot[k].pc = "flushed" => slot'[k].day = slot[k].day
  BY <1>1, WitnessKeeps
<1>4. \A l, day : Waiting(l, day)' = Waiting(l, day)
  BY <1>2, <1>3 DEF Waiting
<1>5. \A l, day : \A k \in Waiting(l, day) : slot'[k].body = slot[k].body
  BY <1>3 DEF Waiting
<1> QED
  BY <1>2, <1>4, <1>5, LimitFrame

(* A change of status makes no row steady: what comes back has failed before. *)
LEMMA AdvanceLimit ==
    ASSUME TypeOK, TypeOK', LimitInv, NEW i \in DOMAIN rows, Advance(i)
    PROVE  LimitInv'
<1>1. UNCHANGED <<today, slot>> /\ DOMAIN rows' = DOMAIN rows
  BY AdvanceKeeps DEF Advance
<1>2. \A j \in DOMAIN rows :
        /\ rows'[j].ledger = rows[j].ledger /\ rows'[j].day = rows[j].day
        /\ rows'[j].amount = rows[j].amount /\ rows'[j].decision = rows[j].decision
        /\ rows[j].lapsed => rows'[j].lapsed
        /\ \/ rows'[j] = rows[j]
           \/ rows'[j].status = "PENDING"
           \/ rows'[j].status = "FAILED" /\ rows'[j].lapsed
  BY AdvanceKeeps DEF SameButStatus
<1>3. RowsDated'
  BY <1>1, <1>2 DEF RowsDated, LimitInv
<1>4. ASSUME NEW l, NEW day PROVE SteadyOn(l, day)' <= SteadyOn(l, day)
  <2>1. ASSUME NEW j \in Steady(l, day)' PROVE j \in Steady(l, day)
    <3>1. /\ j \in DOMAIN rows /\ rows'[j].ledger = l /\ rows'[j].day = day
          /\ Counts(rows'[j]) /\ rows'[j].decision = "ALLOW" /\ ~rows'[j].lapsed
      BY <1>1, <2>1 DEF Steady, AllowedRows
    <3>2. rows[j].decision = "ALLOW" /\ ~rows[j].lapsed
      BY <1>2, <3>1
    <3>3. Counts(rows[j])
      BY <3>1, <3>2 DEF LimitInv, RowsDated, Counts
    <3> QED
      BY <1>2, <3>1, <3>2, <3>3 DEF Steady, AllowedRows
  <2>2. Steady(l, day)' \in SUBSET Steady(l, day)
    BY <2>1
  <2> QED
    BY <1>1, <1>2, <2>2, SteadyShrinks
<1>5. ASSUME NEW l \in LedgerId, NEW day \in 0..today
      PROVE  Modest(l, day)' /\ Reserved(l, day)'
  <2>1. Waiting(l, day)' \in SUBSET Waiting(l, day)
    BY <1>1 DEF Waiting
  <2>2. Modest(l, day) /\ Reserved(l, day)
    BY DEF LimitInv
  <2>3. SteadyOn(l, day)' \in Nat /\ SteadyOn(l, day)' <= SteadyOn(l, day)
    BY <1>4, SteadyNatNext
  <2> QED
    BY <1>1, <2>1, <2>2, <2>3, ReservationKept
<1> QED
  BY <1>1, <1>3, <1>5 DEF LimitInv

(* At midnight every limit is whole again: what has decided and is not flushed goes
   over to the new day, what is flushed stays with the old one. *)
LEMMA MidnightLimit ==
    ASSUME TypeOK, TypeOK', LimitInv, Midnight
    PROVE  LimitInv'
<1>1. UNCHANGED <<rows, slot>> /\ today' = today + 1 /\ today \in Nat
  BY RowsFinite DEF Midnight
<1>2. \A l, day : SteadyOn(l, day)' = SteadyOn(l, day)
  BY <1>1 DEF SteadyOn, SumOf, Steady, AllowedRows
<1>3. ASSUME NEW l \in LedgerId, NEW day \in 0..today
      PROVE  Modest(l, day)' /\ Reserved(l, day)'
  <2>1. day \in Nat /\ day # today + 1
    BY <1>1
  <2>2. Waiting(l, day)' \in SUBSET Waiting(l, day)
    BY <1>1, <2>1 DEF Waiting
  <2>3. Modest(l, day) /\ Reserved(l, day)
    BY DEF LimitInv
  <2>4. SteadyOn(l, day)' \in Nat /\ SteadyOn(l, day)' <= SteadyOn(l, day)
    BY <1>2, SteadyIsNat
  <2> QED
    BY <1>1, <2>2, <2>3, <2>4, ReservationKept
<1>4. ASSUME NEW l \in LedgerId, NEW day, day = today + 1
      PROVE  Modest(l, day)' /\ Reserved(l, day)'
  <2>1. ASSUME NEW k \in Waiting(l, day)' PROVE k \in Waiting(l, today) /\ slot'[k] = slot[k]
    <3>1. k \in Slot /\ slot'[k] = slot[k] /\ slot[k].pc \in {"priced", "flushed"}
      BY <1>1, <2>1 DEF Waiting
    <3>2. slot[k].pc = "flushed" => slot[k].day # day
      BY <1>1, <1>4, <3>1, SlotAt
    <3> QED
      BY <1>1, <1>4, <2>1, <3>1, <3>2 DEF Waiting
  <2>2. Modest(l, day)'
    <3>1. today \in 0..today
      BY <1>1
    <3> QED
      BY <2>1, <3>1 DEF Modest, LimitInv
  <2>3. SteadyOn(l, day) = 0
    <3> DEFINE A == [i \in DOMAIN rows |-> rows[i].amount]
    <3>1. \A i \in DOMAIN rows : rows[i].day \in Nat /\ rows[i].day <= today
      BY RowsFinite, GatekeeperAssumption DEF Row, LimitInv, RowsDated
    <3>2. Steady(l, day) = {}
      BY <1>1, <1>4, <3>1 DEF Steady, AllowedRows
    <3>3. SteadyOn(l, day) = SumFunctionOnSet(A, {})
      BY <3>2 DEF SteadyOn, SumOf
    <3> HIDE DEF A
    <3> QED
      BY <3>3, FS_EmptySet, SumUnfolds
  <2>4. Unused(l, day)' \in Nat
    <3>1. Waiting(l, day)' \in SUBSET Slot
      BY DEF Waiting
    <3> QED
      BY <3>1, LimitsOf DEF Unused
  <2>5. SteadyOn(l, day)' <= Unused(l, day)'
    BY <1>2, <2>3, <2>4
  <2> QED
    BY <2>2, <2>5 DEF Reserved
<1>5. RowsDated'
  <2>1. \A i \in DOMAIN rows : rows[i].day \in Nat
    BY RowsFinite, GatekeeperAssumption DEF Row
  <2> QED
    BY <1>1, <2>1 DEF RowsDated, LimitInv
<1>6. \A day \in 0..today' : day \in 0..today \/ day = today + 1
  BY <1>1
<1> QED
  BY <1>3, <1>4, <1>5, <1>6 DEF LimitInv

(* LimitInv is inductive. *)
LEMMA LimitNext == TypeOK /\ LimitInv /\ [Next]_vars => LimitInv'
<1> SUFFICES ASSUME TypeOK, LimitInv, [Next]_vars PROVE LimitInv'
  OBVIOUS
<1>1. TypeOK'
  BY GatekeeperTyped
<1>2. CASE UNCHANGED vars
  <2>1. \A l, day : /\ Waiting(l, day)' = Waiting(l, day)
                    /\ \A k \in Waiting(l, day) : slot'[k].body = slot[k].body
    BY <1>2 DEF vars, Waiting
  <2> QED
    BY <1>2, <2>1, LimitFrame DEF vars
<1> QED
  BY <1>1, <1>2, RequestLimit, SaveLimit, AdminLimit, AdvanceLimit, MidnightLimit DEF Next

(* However requests, failures, returns, approvals and midnights interleave, what one
   ledger was allowed on one day without review is bounded by the limit times the
   requests in service (router.py:56-80 reads the sum and inserts without a lock),
   and a limit more for each withdrawal that a handler with an old read took back
   from FAILED (lifecycle.py:97-139).  With one request at a time and no such
   return that is the limit itself. *)
THEOREM DailyLimitWithinSlots == Spec => []AllowedWithinSlots
<1>1. Init => LimitInv
  <2> SUFFICES ASSUME Init PROVE LimitInv
    OBVIOUS
  <2>1. rows = <<>> /\ DOMAIN rows = {} /\ today = 0
    BY DEF Init
  <2>2. \A l, day : SteadyOn(l, day) = 0
    <3> TAKE l, day
    <3> DEFINE A == [i \in DOMAIN rows |-> rows[i].amount]
    <3>1. Steady(l, day) = {}
      BY <2>1 DEF Steady, AllowedRows
    <3>2. SteadyOn(l, day) = SumFunctionOnSet(A, {})
      BY <3>1 DEF SteadyOn, SumOf
    <3> HIDE DEF A
    <3> QED
      BY <3>2, FS_EmptySet, SumUnfolds
  <2>3. \A l, day : Waiting(l, day) = {} /\ Unused(l, day) \in Nat
    BY UnusedCounts DEF Init, Waiting, Free
  <2> QED
    BY <2>1, <2>2, <2>3 DEF LimitInv, RowsDated, Modest, Reserved
<1>2. Init => TypeOK
  BY EmptySeq, GatekeeperAssumption DEF Init, TypeOK
<1> QED
  BY <1>1, <1>2, LimitEnough, LimitNext, GatekeeperTyped, PTL DEF Spec

=============================================================================
