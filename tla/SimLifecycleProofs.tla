------------------------- MODULE SimLifecycleProofs -------------------------
(***************************************************************************)
(* The safety of the simulation lifecycle, for every number of calls and   *)
(* withdrawals, every prime, threshold and key: the trail, the hash, what  *)
(* a quorum and what less than a quorum answers, and that one payload is   *)
(* all a withdrawal ever gets.  What the shares are worth is proved in     *)
(* KeyShardingProofs.                                                      *)
(***************************************************************************)
EXTENDS SimLifecycle, KeyShardingProofs

-----------------------------------------------------------------------------
(* What the variables are.  The keys reconstruct_secret returns are left open: they
   are the result of an interpolation. *)
Fields(x) == x = [pc |-> x.pc, tx |-> x.tx, text |-> x.text, payload |-> x.payload,
                  quorum |-> x.quorum, from |-> x.from]

SimTyped ==
    /\ call = [c \in Caller |-> call[c]] /\ \A c \in Caller : Fields(call[c])
    /\ status \in [Tx -> Status \cup {"ABSENT"}]
    /\ decision \in [Tx -> Decision]
    /\ txHash = [t \in Tx |-> txHash[t]]
    /\ log = [t \in Tx |-> log[t]] /\ \A t \in Tx : log[t] \in Seq(Range(log[t]))

(* A call that has got hold of a withdrawal. *)
Holding(c) == call[c].pc \in {"loaded", "signed", "committed", "sent"}

(* Where a call can be that has asked for no key. *)
Keyless == {"idle", "reviewing", "over"}

(* Nothing is signed before the key is split, so that it is split once. *)
Started ==
    /\ \A c \in Caller : call[c].pc \notin Keyless => shares # <<>>
    /\ returned \cup emitted # {} => shares # <<>>

Allowed(t) == t \in Tx /\ Exists(t) /\ Cleared(t)
Challenged(t) == t \in Tx /\ Exists(t) /\ decision[t] = "CHALLENGE"

(* A withdrawal is reviewed only if it was challenged, is picked up only if it was
   cleared, and goes on only after its row SIGNED is in the trail. *)
RowsAudited ==
    \A t \in Tx : /\ status[t] = "PENDING" => Cleared(t)
                  /\ status[t] = "PENDING_REVIEW" => decision[t] = "CHALLENGE"

CallsAudited ==
    \A c \in Caller :
        /\ call[c].pc = "reviewing" => Challenged(call[c].tx)
        /\ Holding(c) => Allowed(call[c].tx)
        /\ call[c].pc \in {"committed", "sent"} => HasEvent(call[c].tx, "SIGNED")

PayloadsAudited == \A x \in returned \cup emitted : Allowed(x[1]) /\ HasEvent(x[1], "SIGNED")

SimAudit == RowsAudited /\ CallsAudited /\ PayloadsAudited

(* A commit of BROADCAST that is under way is of a payload that was emitted. *)
SimHash ==
    /\ \A c \in Caller : call[c].pc = "sent" => <<call[c].tx, call[c].payload>> \in emitted
    /\ HashSurvives

(* What is signed, returned or emitted for t is made with the key that was split. *)
Signs(t, p) == \E text \in Text :
    p = [key |-> secret, data |-> [tx |-> t, text |-> text]]

SimPayload ==
    /\ \A c \in Caller :
        /\ call[c].pc = "loaded" => call[c].text \in Text
        /\ call[c].pc \in {"signed", "committed", "sent"} => Signs(call[c].tx, call[c].payload)
    /\ \A x \in returned \cup emitted : x = <<x[1], x[2]>> /\ Signs(x[1], x[2])

-----------------------------------------------------------------------------
(* Audit rows only come, behind those that are there. *)
LEMMA RowsGrow ==
    ASSUME NEW rows, NEW row, rows \in Seq(Range(rows))
    PROVE  /\ Append(rows, row) \in Seq(Range(Append(rows, row)))
           /\ Len(Append(rows, row)) = Len(rows) + 1
           /\ Append(rows, row)[Len(rows) + 1] = row
           /\ \A i \in DOMAIN rows :
                i \in DOMAIN Append(rows, row) /\ Append(rows, row)[i] = rows[i]
<1> DEFINE S == Range(rows) \cup {row}
<1>1. rows \in Seq(S) /\ row \in S
  BY SeqMonotonic
<1>2. /\ Append(rows, row) \in Seq(S)
      /\ Len(Append(rows, row)) = Len(rows) + 1
      /\ Append(rows, row)[Len(rows) + 1] = row
      /\ \A i \in DOMAIN rows :
            i \in DOMAIN Append(rows, row) /\ Append(rows, row)[i] = rows[i]
  BY <1>1
<1>3. Append(rows, row) \in Seq(Range(Append(rows, row)))
  BY <1>2 DEF Range
<1> QED
  BY <1>2, <1>3

(* What the audit row of a commit adds to the trails. *)
LEMMA EventRecorded ==
    ASSUME SimTyped, NEW t \in Tx, NEW e, NEW s, NEW h, RecordEvent(t, e, s, h)
    PROVE  /\ log' = [u \in Tx |-> log'[u]]
           /\ \A u \in Tx : log'[u] \in Seq(Range(log'[u]))
           /\ \A u \in Tx : \A f : HasEvent(u, f)' <=> (HasEvent(u, f) \/ (u = t /\ f = e))
<1> DEFINE row == [event |-> e, status |-> s, hash |-> h]
<1>1. log' = [log EXCEPT ![t] = Append(log[t], row)]
  BY DEF RecordEvent
<1>2. row.event = e
  OBVIOUS
<1> HIDE DEF row
<1>3. log'[t] = Append(log[t], row) /\ \A u \in Tx \ {t} : log'[u] = log[u]
  BY <1>1 DEF SimTyped
<1>4. log[t] \in Seq(Range(log[t]))
  BY DEF SimTyped
<1>5. \A u \in Tx : log'[u] \in Seq(Range(log'[u]))
  <2>1. log'[t] \in Seq(Range(log'[t]))
    BY <1>3, <1>4, RowsGrow
  <2>2. \A u \in Tx \ {t} : log'[u] \in Seq(Range(log'[u]))
    BY <1>3 DEF SimTyped
  <2> QED
    BY <2>1, <2>2
<1>6. /\ DOMAIN log'[t] = 1 .. (Len(log[t]) + 1)
      /\ DOMAIN log[t] = 1 .. Len(log[t]) /\ Len(log[t]) \in Nat
  BY <1>3, <1>4, <1>5, RowsGrow
<1>7. \A f : HasEvent(t, f)' <=> HasEvent(t, f) \/ f = e
  <2> SUFFICES ASSUME NEW f
              PROVE  HasEvent(t, f)' <=> HasEvent(t, f) \/ f = e
    OBVIOUS
  <2>1. HasEvent(t, f)' => HasEvent(t, f) \/ f = e
    BY <1>2, <1>3, <1>4, <1>6, RowsGrow DEF HasEvent
  <2>2. HasEvent(t, f) => HasEvent(t, f)'
    BY <1>3, <1>4, RowsGrow DEF HasEvent
  <2>3. HasEvent(t, e)'
    BY <1>2, <1>3, <1>4, <1>6, RowsGrow DEF HasEvent
  <2> QED
    BY <2>1, <2>2, <2>3
<1>8. \A u \in Tx \ {t} : \A f : HasEvent(u, f)' <=> HasEvent(u, f)
  BY <1>3 DEF HasEvent
<1>9. log' = [u \in Tx |-> log'[u]]
  BY <1>1 DEF SimTyped
<1>10. \A u \in Tx : \A f : HasEvent(u, f)' <=> (HasEvent(u, f) \/ (u = t /\ f = e))
  BY <1>7, <1>8
<1> QED
  BY <1>5, <1>9, <1>10

(* The one state a call moves to, the others stay. *)
LEMMA CallMoves ==
    ASSUME SimTyped, NEW c \in Caller, NEW x, Become(c, x)
    PROVE  /\ call' = [d \in Caller |-> call'[d]]
           /\ call'[c] = x /\ \A d \in Caller \ {c} : call'[d] = call[d]
BY DEF SimTyped, Become

LEMMA CallGoes ==
    ASSUME SimTyped, NEW c \in Caller, NEW pc, Go(c, pc)
    PROVE  /\ call' = [d \in Caller |-> call'[d]]
           /\ \A d \in Caller \ {c} : call'[d] = call[d]
           /\ call'[c] = [call[c] EXCEPT !.pc = pc]
           /\ Fields(call'[c]) /\ call'[c].pc = pc
           /\ call'[c].tx = call[c].tx /\ call'[c].payload = call[c].payload
           /\ call'[c].quorum = call[c].quorum /\ call'[c].from = call[c].from
<1>1. call'[c] = [call[c] EXCEPT !.pc = pc] /\ Fields(call[c])
  BY DEF SimTyped, Go
<1>2. /\ Fields(call'[c]) /\ call'[c].pc = pc
      /\ call'[c].tx = call[c].tx /\ call'[c].payload = call[c].payload
      /\ call'[c].quorum = call[c].quorum /\ call'[c].from = call[c].from
  BY <1>1 DEF Fields
<1> QED
  BY <1>1, <1>2 DEF SimTyped, Go

(* A step, with the call it is of. *)
CallStep(c) ==
    \/ InsertOwn(c) \/ Sign(c) \/ CommitSigned(c) \/ Broadcast(c)
    \/ CommitBroadcast(c) \/ CommitReview(c) \/ Recover(c) \/ Leave(c)
    \/ \E t \in Tx : ReviewWithdrawal(c, t) \/ Load(c, t) \/ \E x \in returned : LoadSigned(c, t, x[2])

LEMMA NextSteps ==
    ASSUME [Next]_vars
    PROVE  \/ UNCHANGED vars
           \/ SplitKey
           \/ RequestWithdrawal
           \/ \E c \in Caller : CallStep(c)
BY DEF Next, Quiescent, CallStep

-----------------------------------------------------------------------------
(* The types. *)
(* The records of calls: one field changed, and then the next one. *)
LEMMA AnyFields ==
    \A pc, tx, text, payload, quorum, from :
        Fields([pc |-> pc, tx |-> tx, text |-> text, payload |-> payload,
                quorum |-> quorum, from |-> from])
BY DEF Fields

LEMMA SetPc ==
    ASSUME NEW x, Fields(x), NEW v, NEW y, y = [x EXCEPT !.pc = v]
    PROVE  /\ Fields(y) /\ y.pc = v
           /\ y.tx = x.tx /\ y.text = x.text /\ y.payload = x.payload
           /\ y.quorum = x.quorum /\ y.from = x.from
BY DEF Fields

LEMMA SetTx ==
    ASSUME NEW x, Fields(x), NEW v, NEW y, y = [x EXCEPT !.tx = v]
    PROVE  /\ Fields(y) /\ y.tx = v
           /\ y.pc = x.pc /\ y.text = x.text /\ y.payload = x.payload
           /\ y.quorum = x.quorum /\ y.from = x.from
BY DEF Fields

LEMMA SetText ==
    ASSUME NEW x, Fields(x), NEW v, NEW y, y = [x EXCEPT !.text = v]
    PROVE  /\ Fields(y) /\ y.text = v
           /\ y.pc = x.pc /\ y.tx = x.tx /\ y.payload = x.payload
           /\ y.quorum = x.quorum /\ y.from = x.from
BY DEF Fields

LEMMA SetPayload ==
    ASSUME NEW x, Fields(x), NEW v, NEW y, y = [x EXCEPT !.payload = v]
    PROVE  /\ Fields(y) /\ y.payload = v
           /\ y.pc = x.pc /\ y.tx = x.tx /\ y.text = x.text
           /\ y.quorum = x.quorum /\ y.from = x.from
BY DEF Fields

LEMMA SetQuorum ==
    ASSUME NEW x, Fields(x), NEW v, NEW y, y = [x EXCEPT !.quorum = v]
    PROVE  /\ Fields(y) /\ y.quorum = v
           /\ y.pc = x.pc /\ y.tx = x.tx /\ y.text = x.text
           /\ y.payload = x.payload /\ y.from = x.from
BY DEF Fields

LEMMA SetFrom ==
    ASSUME NEW x, Fields(x), NEW v, NEW y, y = [x EXCEPT !.from = v]
    PROVE  /\ Fields(y) /\ y.from = v
           /\ y.pc = x.pc /\ y.tx = x.tx /\ y.text = x.text
           /\ y.payload = x.payload /\ y.quorum = x.quorum
BY DEF Fields

LEMMA IdleFields ==
    /\ Fields(Idle) /\ Idle.pc = "idle" /\ Idle.payload = NoPayload
    /\ Fields(Over) /\ Over.pc = "over"
<1> DEFINE quorum == FALSE  from == Raised
<1>1. Idle = [pc |-> "idle", tx |-> 0, text |-> "loaded", payload |-> NoPayload,
              quorum |-> quorum, from |-> from]
  BY DEF Idle
<1> HIDE DEF quorum, from
<1>2. Fields(Idle) /\ Idle.pc = "idle" /\ Idle.payload = NoPayload
  BY <1>1, AnyFields
<1>3. PICK y : y = [Idle EXCEPT !.pc = "over"]
  OBVIOUS
<1>4. Fields(y) /\ y.pc = "over"
  BY <1>2, <1>3, SetPc
<1> QED
  BY <1>2, <1>3, <1>4 DEF Over

LEMMA ReviewingFields ==
    ASSUME NEW t
    PROVE  \A x : x = [Idle EXCEPT !.pc = "reviewing", !.tx = t]
                => Fields(x) /\ x.pc = "reviewing" /\ x.tx = t
<1>1. PICK y : y = [Idle EXCEPT !.pc = "reviewing"]
  OBVIOUS
<1>2. PICK z : z = [y EXCEPT !.tx = t]
  OBVIOUS
<1>3. z = [Idle EXCEPT !.pc = "reviewing", !.tx = t]
  BY <1>1, <1>2
<1>4. Fields(y) /\ y.pc = "reviewing"
  BY <1>1, SetPc, IdleFields
<1>5. Fields(z) /\ z.pc = "reviewing" /\ z.tx = t
  BY <1>2, <1>4, SetTx
<1> QED
  BY <1>3, <1>5, Zenon

LEMMA LoadedFields ==
    ASSUME NEW t
    PROVE  \A x : x = [Idle EXCEPT !.pc = "loaded", !.tx = t]
                => Fields(x) /\ x.pc = "loaded" /\ x.tx = t /\ x.text = "loaded"
<1>1. PICK y : y = [Idle EXCEPT !.pc = "loaded"]
  OBVIOUS
<1>2. PICK z : z = [y EXCEPT !.tx = t]
  OBVIOUS
<1>3. z = [Idle EXCEPT !.pc = "loaded", !.tx = t]
  BY <1>1, <1>2
<1>4. Fields(y) /\ y.pc = "loaded" /\ y.text = Idle.text
  BY <1>1, SetPc, IdleFields
<1>5. Fields(z) /\ z.pc = "loaded" /\ z.tx = t /\ z.text = Idle.text
  BY <1>2, <1>4, SetTx
<1>6. Idle.text = "loaded"
  BY DEF Idle
<1> QED
  BY <1>3, <1>5, <1>6, Zenon

LEMMA InsertedFields ==
    ASSUME NEW t
    PROVE  \A x : x = [Idle EXCEPT !.pc = "loaded", !.tx = t, !.text = "inserted"]
                => Fields(x) /\ x.pc = "loaded" /\ x.tx = t /\ x.text = "inserted"
<1>1. PICK y : y = [Idle EXCEPT !.pc = "loaded", !.tx = t]
  OBVIOUS
<1>2. PICK z : z = [y EXCEPT !.text = "inserted"]
  OBVIOUS
<1>3. z = [Idle EXCEPT !.pc = "loaded", !.tx = t, !.text = "inserted"]
  BY <1>1, <1>2
<1>4. Fields(y) /\ y.pc = "loaded" /\ y.tx = t
  BY <1>1, LoadedFields, Zenon
<1>5. Fields(z) /\ z.pc = "loaded" /\ z.tx = t /\ z.text = "inserted"
  BY <1>2, <1>4, SetText
<1> QED
  BY <1>3, <1>5, Zenon

LEMMA CommittedFields ==
    ASSUME NEW t, NEW p
    PROVE  \A x : x = [Idle EXCEPT !.pc = "committed", !.tx = t, !.payload = p]
                => Fields(x) /\ x.pc = "committed" /\ x.tx = t /\ x.payload = p
<1>1. PICK y : y = [Idle EXCEPT !.pc = "committed"]
  OBVIOUS
<1>2. PICK z : z = [y EXCEPT !.tx = t]
  OBVIOUS
<1>3. PICK w : w = [z EXCEPT !.payload = p]
  OBVIOUS
<1>4. w = [Idle EXCEPT !.pc = "committed", !.tx = t, !.payload = p]
  BY <1>1, <1>2, <1>3
<1>5. Fields(y) /\ y.pc = "committed"
  BY <1>1, SetPc, IdleFields
<1>6. Fields(z) /\ z.pc = "committed" /\ z.tx = t
  BY <1>2, <1>5, SetTx
<1>7. Fields(w) /\ w.pc = "committed" /\ w.tx = t /\ w.payload = p
  BY <1>3, <1>6, SetPayload
<1> QED
  BY <1>4, <1>7, Zenon

LEMMA AnsweredFields ==
    ASSUME NEW q, NEW f
    PROVE  \A x : x = [Idle EXCEPT !.pc = "answered", !.quorum = q, !.from = f]
                => Fields(x) /\ x.pc = "answered" /\ x.quorum = q /\ x.from = f
<1>1. PICK y : y = [Idle EXCEPT !.pc = "answered"]
  OBVIOUS
<1>2. PICK z : z = [y EXCEPT !.quorum = q]
  OBVIOUS
<1>3. PICK w : w = [z EXCEPT !.from = f]
  OBVIOUS
<1>4. w = [Idle EXCEPT !.pc = "answered", !.quorum = q, !.from = f]
  BY <1>1, <1>2, <1>3
<1>5. Fields(y) /\ y.pc = "answered"
  BY <1>1, SetPc, IdleFields
<1>6. Fields(z) /\ z.pc = "answered" /\ z.quorum = q
  BY <1>2, <1>5, SetQuorum
<1>7. Fields(w) /\ w.pc = "answered" /\ w.quorum = q /\ w.from = f
  BY <1>3, <1>6, SetFrom
<1> QED
  BY <1>4, <1>7, Zenon

LEMMA InsertTyped ==
    ASSUME SimTyped, NEW t \in Tx, NEW d \in Decision, Insert(t, d)
    PROVE  /\ status' \in [Tx -> Status \cup {"ABSENT"}] /\ decision' \in [Tx -> Decision]
           /\ ~Exists(t) /\ status'[t] = InitialStatus(d) /\ decision'[t] = d
           /\ \A u \in Tx \ {t} : status'[u] = status[u] /\ decision'[u] = decision[u]
           /\ UNCHANGED <<txHash, log>>
<1>1. InitialStatus(d) \in Status
  BY DEF InitialStatus, Status, Decision
<1> QED
  BY <1>1 DEF SimTyped, Insert, InsertRow

(* What each action makes of its call. *)
LEMMA InsertOwnCall ==
    ASSUME SimTyped, NEW c \in Caller, InsertOwn(c)
    PROVE  \E t \in Tx : /\ Insert(t, "ALLOW") /\ Fields(call'[c])
                         /\ call'[c].pc = "loaded" /\ call'[c].tx = t
                         /\ call'[c].text = "inserted"
<1>1. PICK t \in Tx :
        /\ Insert(t, "ALLOW")
        /\ Become(c, [Idle EXCEPT !.pc = "loaded", !.tx = t, !.text = "inserted"])
  BY DEF InsertOwn
<1>2. call'[c] = [Idle EXCEPT !.pc = "loaded", !.tx = t, !.text = "inserted"]
  BY <1>1, CallMoves
<1>3. \A x : x = [Idle EXCEPT !.pc = "loaded", !.tx = t, !.text = "inserted"]
            => Fields(x) /\ x.pc = "loaded" /\ x.tx = t /\ x.text = "inserted"
  BY InsertedFields, Zenon
<1> QED
  BY <1>1, <1>2, <1>3, Zenon

LEMMA ReviewCall ==
    ASSUME SimTyped, NEW c \in Caller, NEW t \in Tx, ReviewWithdrawal(c, t)
    PROVE  Fields(call'[c]) /\ call'[c].pc = "reviewing" /\ call'[c].tx = t
<1>1. call'[c] = [Idle EXCEPT !.pc = "reviewing", !.tx = t]
  BY CallMoves DEF ReviewWithdrawal
<1>2. \A x : x = [Idle EXCEPT !.pc = "reviewing", !.tx = t]
            => Fields(x) /\ x.pc = "reviewing" /\ x.tx = t
  BY ReviewingFields, Zenon
<1> QED
  BY <1>1, <1>2, Zenon

LEMMA LoadCall ==
    ASSUME SimTyped, NEW c \in Caller, NEW t \in Tx, Load(c, t)
    PROVE  /\ Fields(call'[c]) /\ call'[c].pc = "loaded" /\ call'[c].tx = t
           /\ call'[c].text = "loaded"
<1>1. call'[c] = [Idle EXCEPT !.pc = "loaded", !.tx = t]
  BY CallMoves DEF Load
<1>2. \A x : x = [Idle EXCEPT !.pc = "loaded", !.tx = t]
            => Fields(x) /\ x.pc = "loaded" /\ x.tx = t /\ x.text = "loaded"
  BY LoadedFields, Zenon
<1> QED
  BY <1>1, <1>2, Zenon

LEMMA SignCall ==
    ASSUME SimTyped, NEW c \in Caller, Sign(c)
    PROVE  \E indices \in Presentable :
            LET from == ReconstructSecret(indices)
            IN  /\ Fields(call'[c]) /\ call'[c].tx = call[c].tx
                /\ call'[c].quorum = Quorum(indices) /\ call'[c].from = from
                /\ call'[c].pc = IF from.raised THEN "answered" ELSE "signed"
                /\ call'[c].payload = IF from.raised THEN NoPayload
                                      ELSE [key |-> from.key, data |-> Serialize(c)]
<1>1. PICK indices \in Presentable :
        LET from == ReconstructSecret(indices)
        IN  Become(c, [call[c] EXCEPT !.quorum = Quorum(indices), !.from = from,
                !.pc = IF from.raised THEN "answered" ELSE "signed",
                !.payload = IF from.raised THEN NoPayload
                            ELSE [key |-> from.key, data |-> Serialize(c)]])
  BY DEF Sign
<1> DEFINE f == ReconstructSecret(indices)
           q == Quorum(indices)
           pc == IF f.raised THEN "answered" ELSE "signed"
           p == IF f.raised THEN NoPayload ELSE [key |-> f.key, data |-> Serialize(c)]
<1>2. Become(c, [call[c] EXCEPT !.quorum = q, !.from = f, !.pc = pc, !.payload = p])
  BY <1>1
<1>3. Fields(call[c])
  BY DEF SimTyped
<1>4. /\ Fields(call'[c]) /\ call'[c].tx = call[c].tx
      /\ call'[c].quorum = q /\ call'[c].from = f
      /\ call'[c].pc = pc /\ call'[c].payload = p
  <2>1. PICK u, qu, fr, at, pa :
            u = call[c] /\ Fields(u) /\ qu = q /\ fr = f /\ at = pc /\ pa = p
    BY <1>3
  <2> HIDE DEF f, q, pc, p
  <2>2. PICK x : x = call'[c]
    OBVIOUS
  <2>3. x = [u EXCEPT !.quorum = qu, !.from = fr, !.pc = at, !.payload = pa]
    BY <1>2, <2>1, <2>2, CallMoves
  <2>4. PICK y : y = [u EXCEPT !.quorum = qu]
    OBVIOUS
  <2>5. PICK z : z = [y EXCEPT !.from = fr]
    OBVIOUS
  <2>6. PICK v : v = [z EXCEPT !.pc = at]
    OBVIOUS
  <2>7. x = [v EXCEPT !.payload = pa]
    BY <2>3, <2>4, <2>5, <2>6
  <2>8. Fields(u)
    BY <2>1
  <2>9. Fields(y) /\ y.quorum = qu /\ y.tx = u.tx
    BY <2>4, <2>8, SetQuorum
  <2>10. Fields(z) /\ z.quorum = qu /\ z.from = fr /\ z.tx = u.tx
    BY <2>5, <2>9, SetFrom
  <2>11. Fields(v) /\ v.quorum = qu /\ v.from = fr /\ v.tx = u.tx /\ v.pc = at
    BY <2>6, <2>10, SetPc
  <2>12. /\ Fields(x) /\ x.quorum = qu /\ x.from = fr /\ x.tx = u.tx /\ x.pc = at
         /\ x.payload = pa
    BY <2>7, <2>11, SetPayload
  <2> QED
    BY <2>1, <2>2, <2>12
<1> QED
  BY <1>4

LEMMA LoadSignedCall ==
    ASSUME SimTyped, NEW c \in Caller, NEW t \in Tx, NEW p, LoadSigned(c, t, p)
    PROVE  /\ Fields(call'[c]) /\ call'[c].pc = "committed" /\ call'[c].tx = t
           /\ call'[c].payload = p
<1>1. call'[c] = [Idle EXCEPT !.pc = "committed", !.tx = t, !.payload = p]
  BY CallMoves DEF LoadSigned
<1>2. \A x : x = [Idle EXCEPT !.pc = "committed", !.tx = t, !.payload = p]
            => Fields(x) /\ x.pc = "committed" /\ x.tx = t /\ x.payload = p
  BY CommittedFields, Zenon
<1> QED
  BY <1>1, <1>2, Zenon

LEMMA RecoverCall ==
    ASSUME SimTyped, NEW c \in Caller, Recover(c)
    PROVE  \E indices \in Presentable :
            /\ Fields(call'[c]) /\ call'[c].pc = "answered"
            /\ call'[c].quorum = Quorum(indices) /\ call'[c].from = ReconstructSecret(indices)
<1>1. PICK indices \in Presentable :
        Become(c, [Idle EXCEPT !.pc = "answered", !.quorum = Quorum(indices),
                               !.from = ReconstructSecret(indices)])
  BY DEF Recover
<1> DEFINE q == Quorum(indices)  f == ReconstructSecret(indices)
<1>2. call'[c] = [Idle EXCEPT !.pc = "answered", !.quorum = q, !.from = f]
  BY <1>1, CallMoves
<1>3. /\ Fields(call'[c]) /\ call'[c].pc = "answered"
      /\ call'[c].quorum = q /\ call'[c].from = f
  <2> HIDE DEF q, f
  <2>1. \A x : x = [Idle EXCEPT !.pc = "answered", !.quorum = q, !.from = f]
              => Fields(x) /\ x.pc = "answered" /\ x.quorum = q /\ x.from = f
    BY AnsweredFields, Zenon
  <2> QED
    BY <1>2, <2>1, Zenon
<1> QED
  BY <1>3

LEMMA OverCall ==
    ASSUME SimTyped, NEW c \in Caller, Become(c, Over)
    PROVE  Fields(call'[c]) /\ call'[c].pc = "over"
BY CallMoves, IdleFields

LEMMA LateCalls ==
    ASSUME SimTyped, NEW c \in Caller
    PROVE  /\ CommitSigned(c) => call'[c].pc = "committed"
           /\ Broadcast(c) => call'[c].pc \in {"sent", "over"}
           /\ CommitBroadcast(c) \/ CommitReview(c) \/ Leave(c) => call'[c].pc = "over"
<1>1. CommitSigned(c) => Go(c, "committed")
  BY DEF CommitSigned
<1>2. Broadcast(c) => Go(c, "sent") \/ Become(c, Over)
  BY DEF Broadcast
<1>3. CommitBroadcast(c) \/ CommitReview(c) \/ Leave(c) => Become(c, Over)
  BY DEF CommitBroadcast, CommitReview, Leave
<1>4. \A pc : Go(c, pc) => call'[c].pc = pc
  BY CallGoes
<1>5. Become(c, Over) => call'[c].pc = "over"
  BY OverCall
<1> QED
  BY <1>1, <1>2, <1>3, <1>4, <1>5

LEMMA CallTyped ==
    ASSUME SimTyped, NEW c \in Caller, CallStep(c)
    PROVE  /\ call' = [d \in Caller |-> call'[d]] /\ \A d \in Caller : Fields(call'[d])
           /\ \A d \in Caller \ {c} : call'[d] = call[d]
<1>1. \/ \E x : Become(c, x)
      \/ \E pc : Go(c, pc)
  BY Zenon DEF CallStep, InsertOwn, Sign, CommitSigned, Broadcast, CommitBroadcast,
     CommitReview, Recover, Leave, ReviewWithdrawal, Load, LoadSigned
<1>2. /\ call' = [d \in Caller |-> call'[d]]
      /\ \A d \in Caller \ {c} : call'[d] = call[d]
  BY <1>1, CallMoves, CallGoes
<1>3. Fields(call'[c])
  <2>1. CASE InsertOwn(c)
    BY <2>1, InsertOwnCall
  <2>2. CASE Sign(c)
    BY <2>2, SignCall
  <2>3. CASE CommitSigned(c) \/ Broadcast(c) \/ CommitBroadcast(c) \/ CommitReview(c) \/ Leave(c)
    BY <2>3, CallGoes, OverCall
       DEF CommitSigned, Broadcast, CommitBroadcast, CommitReview, Leave
  <2>4. CASE Recover(c)
    BY <2>4, RecoverCall
  <2>5. CASE \E t \in Tx : \/ ReviewWithdrawal(c, t) \/ Load(c, t)
                           \/ \E x \in returned : LoadSigned(c, t, x[2])
    BY <2>5, ReviewCall, LoadCall, LoadSignedCall
  <2> QED
    BY <2>1, <2>2, <2>3, <2>4, <2>5 DEF CallStep
<1> QED
  BY <1>2, <1>3 DEF SimTyped

(* What the withdrawals of calls under way are. *)
Named == \A c \in Caller : Holding(c) \/ call[c].pc = "reviewing" => call[c].tx \in Tx

(* What a review handler commits. *)
Verdicts == {<<"APPROVED", "PENDING">>, <<"REJECTED", "FAILED">>}

LEMMA ReviewCommits ==
    ASSUME NEW c \in Caller, CommitReview(c), NEW t, t = call[c].tx
    PROVE  \E v \in Verdicts : UpdateStatus(t, v[1], v[2], NoHash)
<1>1. \/ UpdateStatus(t, "APPROVED", "PENDING", NoHash)
      \/ UpdateStatus(t, "REJECTED", "FAILED", NoHash)
  BY DEF CommitReview
<1>2. <<"APPROVED", "PENDING">> \in Verdicts /\ <<"REJECTED", "FAILED">> \in Verdicts
  BY DEF Verdicts
<1>3. \A e, s : UpdateStatus(t, e, s, NoHash)
            => UpdateStatus(t, <<e, s>>[1], <<e, s>>[2], NoHash)
  OBVIOUS
<1> QED
  BY <1>1, <1>2, <1>3

(* The ledger changes by one commit at a time. *)
LEMMA LedgerSteps ==
    ASSUME SimTyped, Named, NEW c \in Caller, CallStep(c)
    PROVE  \/ UNCHANGED ledgerVars
           \/ InsertOwn(c) /\ \E t \in Tx : Insert(t, "ALLOW")
           \/ CommitSigned(c) /\ call[c].tx \in Tx
           \/ CommitBroadcast(c) /\ call[c].tx \in Tx
           \/ CommitReview(c) /\ call[c].tx \in Tx
<1>1. CommitSigned(c) \/ CommitBroadcast(c) \/ CommitReview(c) => call[c].tx \in Tx
  BY DEF Named, Holding, CommitSigned, CommitBroadcast, CommitReview
<1>2. InsertOwn(c) => \E t \in Tx : Insert(t, "ALLOW")
  BY DEF InsertOwn
<1>3. Sign(c) \/ Broadcast(c) \/ Recover(c) \/ Leave(c) => UNCHANGED ledgerVars
  BY DEF Sign, Broadcast, Recover, Leave
<1>4. \A t \in Tx : ReviewWithdrawal(c, t) \/ Load(c, t)
                        \/ (\E x \in returned : LoadSigned(c, t, x[2]))
                        => UNCHANGED ledgerVars
  BY DEF ReviewWithdrawal, Load, LoadSigned
<1> QED
  BY <1>1, <1>2, <1>3, <1>4 DEF CallStep

LEMMA TypedNext ==
    ASSUME SimTyped, Named, [Next]_vars
    PROVE  SimTyped'
<1>1. CASE UNCHANGED vars
  BY <1>1 DEF SimTyped, vars, ledgerVars
<1>2. CASE SplitKey
  BY <1>2 DEF SplitKey, SimTyped, ledgerVars
<1>3. CASE RequestWithdrawal
  <2>1. PICK t \in Tx, d \in Decision : Insert(t, d)
    BY <1>3 DEF RequestWithdrawal
  <2>2. call' = call
    BY <1>3 DEF RequestWithdrawal
  <2> QED
    BY <2>1, <2>2, InsertTyped DEF SimTyped
<1>4. ASSUME NEW c \in Caller, CallStep(c)
      PROVE  SimTyped'
  <2>1. call' = [d \in Caller |-> call'[d]] /\ \A d \in Caller : Fields(call'[d])
    BY <1>4, CallTyped
  <2>2. CASE UNCHANGED ledgerVars
    BY <2>1, <2>2 DEF SimTyped, ledgerVars
  <2>3. ASSUME NEW t \in Tx, Insert(t, "ALLOW")
        PROVE  SimTyped'
    <3>1. "ALLOW" \in Decision
      BY DEF Decision
    <3> QED
      BY <2>1, <2>3, <3>1, InsertTyped DEF SimTyped
  <2>4. CASE CommitSigned(c) /\ call[c].tx \in Tx
    <3>1. PICK t \in Tx : t = call[c].tx
      BY <2>4
    <3>2. UpdateStatus(t, "SIGNED", "SIGNED", NoHash)
      BY <2>4, <3>1 DEF CommitSigned
    <3>3. /\ log' = [u \in Tx |-> log'[u]]
          /\ \A u \in Tx : log'[u] \in Seq(Range(log'[u]))
      BY <3>2, EventRecorded DEF UpdateStatus
    <3> QED
      BY <2>1, <3>2, <3>3 DEF UpdateStatus, SimTyped, Status
  <2>5. CASE CommitBroadcast(c) /\ call[c].tx \in Tx
    <3>1. PICK t, p : t \in Tx /\ t = call[c].tx /\ p = call[c].payload
      BY <2>5
    <3>2. UpdateBroadcast(t, p)
      BY <2>5, <3>1 DEF CommitBroadcast
    <3>3. /\ log' = [u \in Tx |-> log'[u]]
          /\ \A u \in Tx : log'[u] \in Seq(Range(log'[u]))
      BY <3>1, <3>2, EventRecorded DEF UpdateBroadcast
    <3> QED
      BY <2>1, <3>1, <3>2, <3>3 DEF UpdateBroadcast, SimTyped, Status
  <2>6. CASE CommitReview(c) /\ call[c].tx \in Tx
    <3>1. PICK t \in Tx : t = call[c].tx
      BY <2>6
    <3>2. PICK v \in Verdicts : UpdateStatus(t, v[1], v[2], NoHash)
      BY <2>6, <3>1, ReviewCommits
    <3>3. PICK e, s : e = v[1] /\ s = v[2]
      OBVIOUS
    <3>4. UpdateStatus(t, e, s, NoHash) /\ s \in Status
      BY <3>2, <3>3 DEF Verdicts, Status
    <3>5. /\ log' = [u \in Tx |-> log'[u]]
          /\ \A u \in Tx : log'[u] \in Seq(Range(log'[u]))
      BY <3>4, EventRecorded DEF UpdateStatus
    <3> QED
      BY <2>1, <3>4, <3>5 DEF UpdateStatus, SimTyped
  <2> QED
    BY <1>4, <2>2, <2>3, <2>4, <2>5, <2>6, LedgerSteps
<1> QED
  BY <1>1, <1>2, <1>3, <1>4, NextSteps

LEMMA TypedStart == Init => SimTyped
<1> SUFFICES ASSUME Init
            PROVE  SimTyped
  OBVIOUS
<1>1. /\ call = [c \in Caller |-> Idle]
      /\ status = [t \in Tx |-> "ABSENT"] /\ decision = [t \in Tx |-> "BLOCK"]
      /\ txHash = [t \in Tx |-> NoHash] /\ log = [t \in Tx |-> <<>>]
  BY DEF Init, LedgerInit
<1>2. call = [c \in Caller |-> call[c]] /\ \A c \in Caller : Fields(call[c])
  BY <1>1, IdleFields
<1>3. \A t \in Tx : log[t] \in Seq(Range(log[t]))
  BY <1>1
<1> QED
  BY <1>1, <1>2, <1>3 DEF SimTyped, Decision

-----------------------------------------------------------------------------
(* What has been is not undone: a row keeps its decision and its audit rows. *)
LEMMA RowsStay ==
    ASSUME SimTyped, Named, [Next]_vars, NEW t \in Tx
    PROVE  /\ Exists(t) => Exists(t)' /\ decision'[t] = decision[t]
           /\ \A e : HasEvent(t, e) => HasEvent(t, e)'
<1>1. CASE UNCHANGED ledgerVars
  BY <1>1 DEF ledgerVars, Exists, HasEvent
<1>2. ASSUME NEW u \in Tx, NEW d \in Decision, Insert(u, d)
      PROVE  /\ Exists(t) => Exists(t)' /\ decision'[t] = decision[t]
             /\ \A e : HasEvent(t, e) => HasEvent(t, e)'
  <2>1. log' = log /\ ~Exists(u)
    BY <1>2 DEF Insert, InsertRow
  <2>2. t # u => status'[t] = status[t] /\ decision'[t] = decision[t]
    BY <1>2, InsertTyped
  <2> QED
    BY <2>1, <2>2 DEF Exists, HasEvent
<1>3. ASSUME NEW u \in Tx, NEW p, NEW v, NEW s \in Status,
             UpdateStatus(u, v, s, NoHash) \/ UpdateBroadcast(u, p)
      PROVE  /\ Exists(t) => Exists(t)' /\ decision'[t] = decision[t]
             /\ \A e : HasEvent(t, e) => HasEvent(t, e)'
  <2>1. \A f : HasEvent(t, f) => HasEvent(t, f)'
    BY <1>3, EventRecorded DEF UpdateStatus, UpdateBroadcast
  <2> QED
    BY <1>3, <2>1 DEF UpdateStatus, UpdateBroadcast, SimTyped, Exists, Status
<1>4. ASSUME NEW c \in Caller, CallStep(c)
      PROVE  /\ Exists(t) => Exists(t)' /\ decision'[t] = decision[t]
             /\ \A e : HasEvent(t, e) => HasEvent(t, e)'
  <2>1. "ALLOW" \in Decision
    BY DEF Decision
  <2>2. PICK u, p : u = call[c].tx /\ p = call[c].payload
    OBVIOUS
  <2>6. \A s \in {"SIGNED", "PENDING", "FAILED"} : s \in Status
    BY DEF Status
  <2>3. CASE CommitSigned(c) /\ call[c].tx \in Tx
    BY <1>3, <2>2, <2>3, <2>6 DEF CommitSigned
  <2>4. CASE CommitBroadcast(c) /\ call[c].tx \in Tx
    BY <1>3, <2>2, <2>4, <2>6 DEF CommitBroadcast
  <2>5. CASE CommitReview(c) /\ call[c].tx \in Tx
    BY <1>3, <2>2, <2>5, <2>6 DEF CommitReview
  <2> QED
    BY <1>1, <1>2, <1>4, <2>1, <2>3, <2>4, <2>5, LedgerSteps
<1>5. UNCHANGED vars \/ SplitKey => UNCHANGED ledgerVars
  BY DEF vars, SplitKey
<1>6. RequestWithdrawal => \E u \in Tx, d \in Decision : Insert(u, d)
  BY DEF RequestWithdrawal
<1> QED
  BY <1>1, <1>2, <1>4, <1>5, <1>6, NextSteps

LEMMA AuditStays ==
    ASSUME SimTyped, Named, [Next]_vars, NEW t
    PROVE  /\ Allowed(t) => Allowed(t)' /\ (HasEvent(t, "SIGNED") => HasEvent(t, "SIGNED")')
           /\ Challenged(t) => Challenged(t)'
BY RowsStay DEF Allowed, Cleared, Challenged

-----------------------------------------------------------------------------
(* Named is a part of SimAudit. *)
LEMMA AuditNames == SimAudit => Named
BY DEF SimAudit, CallsAudited, Named, Allowed, Challenged

(* What can be queued and what can be reviewed. *)
LEMMA StatusesNext ==
    ASSUME SimTyped, SimAudit, [Next]_vars, NEW t \in Tx
    PROVE  /\ status'[t] = "PENDING" => Cleared(t)'
           /\ status'[t] = "PENDING_REVIEW" => decision'[t] = "CHALLENGE"
<1> DEFINE Goal == /\ status'[t] = "PENDING" => Cleared(t)'
                   /\ status'[t] = "PENDING_REVIEW" => decision'[t] = "CHALLENGE"
<1>n. Named
  BY AuditNames
<1>1. /\ status[t] = "PENDING" => Cleared(t)'
      /\ status[t] = "PENDING_REVIEW" => decision'[t] = "CHALLENGE"
  <2>1. status[t] \in {"PENDING", "PENDING_REVIEW"} => Exists(t)
    BY DEF Exists
  <2>2. Exists(t) => /\ decision'[t] = decision[t]
                     /\ HasEvent(t, "APPROVED") => HasEvent(t, "APPROVED")'
    BY <1>n, RowsStay
  <2>3. Exists(t) /\ Cleared(t) => Cleared(t)'
    BY <2>2 DEF Cleared
  <2> QED
    BY <2>1, <2>2, <2>3 DEF SimAudit, RowsAudited
<1>2. ASSUME status'[t] = status[t]
      PROVE  Goal
  BY <1>1, <1>2
<1>3. ASSUME NEW u \in Tx, NEW d \in Decision, Insert(u, d)
      PROVE  Goal
  <2>1. CASE t = u
    BY <1>3, <2>1, InsertTyped DEF InitialStatus, Decision, Cleared
  <2>2. CASE t # u
    BY <1>2, <1>3, <2>2, InsertTyped
  <2> QED
    BY <2>1, <2>2
<1>4. ASSUME NEW u \in Tx, NEW p,
             UpdateStatus(u, "SIGNED", "SIGNED", NoHash) \/ UpdateBroadcast(u, p)
      PROVE  Goal
  BY <1>2, <1>4 DEF UpdateStatus, UpdateBroadcast, SimTyped
<1>5. ASSUME UNCHANGED ledgerVars
      PROVE  Goal
  BY <1>2, <1>5 DEF ledgerVars
<1>6. ASSUME NEW c \in Caller, CommitReview(c), call[c].tx \in Tx
      PROVE  Goal
  <2>1. PICK u \in Tx : u = call[c].tx
    BY <1>6
  <2>2. CASE t = u
    <3>1. decision[u] = "CHALLENGE"
      BY <1>6, <2>1 DEF CommitReview, SimAudit, CallsAudited, Challenged
    <3>2. CASE UpdateStatus(u, "APPROVED", "PENDING", NoHash)
      <4>1. HasEvent(u, "APPROVED")'
        BY <3>2, EventRecorded DEF UpdateStatus
      <4> QED
        BY <2>2, <3>1, <3>2, <4>1 DEF UpdateStatus, SimTyped, Cleared
    <3>3. CASE UpdateStatus(u, "REJECTED", "FAILED", NoHash)
      BY <2>2, <3>3 DEF UpdateStatus, SimTyped
    <3> QED
      BY <1>6, <2>1, <3>2, <3>3 DEF CommitReview
  <2>3. CASE t # u
    BY <1>2, <1>6, <2>1, <2>3 DEF CommitReview, UpdateStatus, SimTyped
  <2> QED
    BY <2>2, <2>3
<1>7. ASSUME NEW c \in Caller, CallStep(c)
      PROVE  Goal
  <2>1. "ALLOW" \in Decision
    BY DEF Decision
  <2>2. PICK u, p : u = call[c].tx /\ p = call[c].payload
    OBVIOUS
  <2>3. CASE CommitSigned(c) /\ call[c].tx \in Tx
    BY <1>4, <2>2, <2>3 DEF CommitSigned
  <2>4. CASE CommitBroadcast(c) /\ call[c].tx \in Tx
    BY <1>4, <2>2, <2>4 DEF CommitBroadcast
  <2> QED
    BY <1>n, <1>3, <1>5, <1>6, <1>7, <2>1, <2>3, <2>4, LedgerSteps
<1>8. UNCHANGED vars \/ SplitKey => UNCHANGED ledgerVars
  BY DEF vars, SplitKey
<1>9. RequestWithdrawal => \E u \in Tx, d \in Decision : Insert(u, d)
  BY DEF RequestWithdrawal
<1> QED
  BY <1>3, <1>5, <1>7, <1>8, <1>9, NextSteps

(* SimAudit after a step, part by part. *)
LEMMA AuditParts ==
    ASSUME \A t \in Tx : /\ status'[t] = "PENDING" => Cleared(t)'
                         /\ status'[t] = "PENDING_REVIEW" => decision'[t] = "CHALLENGE",
           \A c \in Caller : \A t : t = call'[c].tx =>
                /\ Holding(c)' => Allowed(t)'
                /\ call'[c].pc = "reviewing" => Challenged(t)'
                /\ call'[c].pc \in {"committed", "sent"} => HasEvent(t, "SIGNED")',
           \A x \in returned' \cup emitted' : Allowed(x[1])' /\ HasEvent(x[1], "SIGNED")'
    PROVE  SimAudit'
<1>1. \A c \in Caller : call'[c].pc = "reviewing" => Challenged(call[c].tx)'
  BY DEF Challenged, Exists
<1>2. \A c \in Caller : Holding(c)' => Allowed(call[c].tx)'
  BY DEF Allowed, Cleared, HasEvent, Exists
<1>3. \A c \in Caller : call'[c].pc \in {"committed", "sent"} => HasEvent(call[c].tx, "SIGNED")'
  BY DEF HasEvent
<1>4. RowsAudited'
  BY DEF RowsAudited, Cleared, HasEvent
<1>5. CallsAudited'
  BY <1>1, <1>2, <1>3 DEF CallsAudited, Allowed, Challenged, Cleared, HasEvent, Exists, Holding
<1>6. PayloadsAudited'
  BY DEF PayloadsAudited, Allowed, Cleared, HasEvent, Exists
<1> QED
  BY <1>4, <1>5, <1>6 DEF SimAudit

LEMMA AuditStart == Init => SimAudit
BY IdleFields
   DEF Init, LedgerInit, SimAudit, RowsAudited, CallsAudited, PayloadsAudited, Holding

(* A step as SimAudit sees it: what is held was allowed, what is returned or emitted is
   in the trail. *)
LEMMA AuditNext ==
    ASSUME SimTyped, SimAudit, [Next]_vars
    PROVE  SimAudit'
<1>n. Named
  BY AuditNames
<1>s. /\ \A t : Allowed(t) => Allowed(t)'
      /\ \A t : Allowed(t) /\ HasEvent(t, "SIGNED") => HasEvent(t, "SIGNED")'
  BY <1>n, AuditStays
<1>h. \A c \in Caller : \A t : t = call[c].tx =>
        /\ Holding(c) => Allowed(t)'
        /\ call[c].pc \in {"committed", "sent"} => Allowed(t)' /\ HasEvent(t, "SIGNED")'
  BY <1>s DEF SimAudit, CallsAudited, Holding
<1>r. \A c \in Caller : \A t : t = call[c].tx /\ call[c].pc = "reviewing" => Challenged(t)'
  BY <1>n, AuditStays DEF SimAudit, CallsAudited
<1>p. \A t \in Tx : /\ status'[t] = "PENDING" => Cleared(t)'
                    /\ status'[t] = "PENDING_REVIEW" => decision'[t] = "CHALLENGE"
  BY StatusesNext
<1>1. CASE UNCHANGED vars \/ SplitKey \/ RequestWithdrawal
  <2>1. UNCHANGED <<call, returned, emitted>>
    BY <1>1 DEF vars, SplitKey, RequestWithdrawal
  <2>2. ASSUME NEW c \in Caller, NEW t, t = call'[c].tx
        PROVE  /\ Holding(c)' => Allowed(t)'
               /\ call'[c].pc = "reviewing" => Challenged(t)'
               /\ call'[c].pc \in {"committed", "sent"} => HasEvent(t, "SIGNED")'
    BY <1>h, <1>r, <2>1, <2>2 DEF Holding
  <2>3. \A x \in returned' \cup emitted' : Allowed(x[1])' /\ HasEvent(x[1], "SIGNED")'
    BY <1>s, <2>1 DEF SimAudit, PayloadsAudited
  <2> QED
    BY <1>p, <2>2, <2>3, AuditParts
<1>2. ASSUME NEW c \in Caller, CallStep(c)
      PROVE  SimAudit'
  <2>1. \A d \in Caller \ {c} : call'[d] = call[d]
    BY <1>2, CallTyped
  <2>2. SUFFICES ASSUME NEW v, v = call'[c].tx
                 PROVE  /\ Holding(c)' => Allowed(v)'
                        /\ call'[c].pc = "reviewing" => Challenged(v)'
                        /\ call'[c].pc \in {"committed", "sent"} => HasEvent(v, "SIGNED")'
                        /\ \A x \in returned' \cup emitted' :
                                Allowed(x[1])' /\ HasEvent(x[1], "SIGNED")'
    <3>1. ASSUME NEW d \in Caller, d # c, NEW v, v = call'[d].tx
          PROVE  /\ Holding(d)' => Allowed(v)'
                 /\ call'[d].pc = "reviewing" => Challenged(v)'
                 /\ call'[d].pc \in {"committed", "sent"} => HasEvent(v, "SIGNED")'
      BY <1>h, <1>r, <2>1, <3>1 DEF Holding
    <3> QED
      BY <1>p, <3>1, AuditParts
  <2>3. \A x \in returned \cup emitted : Allowed(x[1])' /\ HasEvent(x[1], "SIGNED")'
    BY <1>s DEF SimAudit, PayloadsAudited
  <2>4. CASE InsertOwn(c)
    <3>1. PICK t \in Tx : Insert(t, "ALLOW") /\ call'[c].pc = "loaded" /\ call'[c].tx = t
      BY <2>4, InsertOwnCall
    <3>2. Allowed(t)'
      <4>1. "ALLOW" \in Decision
        BY DEF Decision
      <4> QED
        BY <3>1, <4>1, InsertTyped DEF Allowed, Cleared, Exists, InitialStatus
    <3>3. UNCHANGED <<returned, emitted>>
      BY <2>4 DEF InsertOwn
    <3> QED
      BY <2>2, <2>3, <3>1, <3>2, <3>3
  <2>5. CASE Sign(c)
    <3>1. /\ call'[c].tx = call[c].tx /\ call'[c].pc \in {"answered", "signed"}
      BY <2>5, SignCall
    <3>2. UNCHANGED <<returned, emitted>> /\ Holding(c)
      BY <2>5 DEF Sign, Holding
    <3> QED
      BY <1>h, <2>2, <2>3, <3>1, <3>2
  <2>6. CASE CommitSigned(c)
    <3>1. PICK t, p : t = call[c].tx /\ p = call[c].payload
      OBVIOUS
    <3>2. Holding(c) /\ t \in Tx /\ Allowed(t)
      BY <2>6, <3>1 DEF CommitSigned, Holding, SimAudit, CallsAudited, Allowed
    <3>3. HasEvent(t, "SIGNED")'
      BY <2>6, <3>1, <3>2, EventRecorded DEF CommitSigned, UpdateStatus
    <3>4. call'[c].tx = t /\ call'[c].pc = "committed"
      BY <2>6, <3>1, CallGoes DEF CommitSigned
    <3>5. returned' = returned \cup {<<t, p>>} /\ emitted' = emitted
      BY <2>6, <3>1 DEF CommitSigned
    <3>6. \A x \in returned' \cup emitted' : x \in returned \cup emitted \/ x[1] = t
      BY <3>5
    <3> QED
      BY <1>s, <2>2, <2>3, <3>2, <3>3, <3>4, <3>6
  <2>7. CASE Broadcast(c)
    <3>1. PICK t, p : t = call[c].tx /\ p = call[c].payload
      OBVIOUS
    <3>2. Allowed(t) /\ HasEvent(t, "SIGNED")
      BY <2>7, <3>1 DEF Broadcast, Holding, SimAudit, CallsAudited
    <3>3. emitted' = emitted \cup {<<t, p>>} /\ returned' = returned
      BY <2>7, <3>1 DEF Broadcast
    <3>4. \A x \in returned' \cup emitted' : x \in returned \cup emitted \/ x[1] = t
      BY <3>3
    <3>5. (call'[c].tx = t /\ call'[c].pc = "sent") \/ call'[c].pc = "over"
      BY <2>7, <3>1, CallGoes, OverCall DEF Broadcast
    <3> QED
      BY <1>s, <2>2, <2>3, <3>2, <3>4, <3>5 DEF Holding
  <2>8. CASE CommitBroadcast(c) \/ CommitReview(c) \/ Leave(c)
    <3>1. UNCHANGED <<returned, emitted>> /\ call'[c].pc = "over"
      BY <2>8, OverCall DEF CommitBroadcast, CommitReview, Leave
    <3> QED
      BY <2>3, <3>1 DEF Holding
  <2>9. CASE Recover(c)
    <3>1. UNCHANGED <<returned, emitted>> /\ call'[c].pc = "answered"
      BY <2>9, RecoverCall DEF Recover
    <3> QED
      BY <2>3, <3>1 DEF Holding
  <2>10. ASSUME NEW t \in Tx, Load(c, t)
         PROVE  /\ Holding(c)' => Allowed(v)'
                /\ call'[c].pc = "reviewing" => Challenged(v)'
                /\ call'[c].pc \in {"committed", "sent"} => HasEvent(v, "SIGNED")'
                /\ \A x \in returned' \cup emitted' : Allowed(x[1])' /\ HasEvent(x[1], "SIGNED")'
    <3>1. Allowed(t)
      <4>1. status[t] = "PENDING"
        BY <2>10 DEF Load
      <4>2. Cleared(t)
        BY <4>1 DEF SimAudit, RowsAudited
      <4> QED
        BY <4>1, <4>2 DEF Allowed, Exists
    <3>2. UNCHANGED <<returned, emitted>> /\ call'[c].pc = "loaded" /\ call'[c].tx = t
      BY <2>10, LoadCall DEF Load
    <3> QED
      BY <1>s, <2>2, <2>3, <3>1, <3>2
  <2>11. ASSUME NEW t \in Tx, NEW x \in returned, LoadSigned(c, t, x[2])
         PROVE  /\ Holding(c)' => Allowed(v)'
                /\ call'[c].pc = "reviewing" => Challenged(v)'
                /\ call'[c].pc \in {"committed", "sent"} => HasEvent(v, "SIGNED")'
                /\ \A y \in returned' \cup emitted' : Allowed(y[1])' /\ HasEvent(y[1], "SIGNED")'
    <3>1. PICK p : p = x[2]
      OBVIOUS
    <3>2. <<t, p>> \in returned
      BY <2>11, <3>1 DEF LoadSigned
    <3>3. Allowed(t) /\ HasEvent(t, "SIGNED")
      BY <3>2 DEF SimAudit, PayloadsAudited
    <3>4. UNCHANGED <<returned, emitted>> /\ call'[c].tx = t /\ call'[c].pc = "committed"
      BY <2>11, <3>1, LoadSignedCall DEF LoadSigned
    <3> QED
      BY <1>s, <2>2, <2>3, <3>3, <3>4
  <2>12. ASSUME NEW t \in Tx, ReviewWithdrawal(c, t)
         PROVE  /\ Holding(c)' => Allowed(v)'
                /\ call'[c].pc = "reviewing" => Challenged(v)'
                /\ call'[c].pc \in {"committed", "sent"} => HasEvent(v, "SIGNED")'
                /\ \A x \in returned' \cup emitted' : Allowed(x[1])' /\ HasEvent(x[1], "SIGNED")'
    <3>1. Challenged(t)
      BY <2>12 DEF ReviewWithdrawal, SimAudit, RowsAudited, Challenged, Exists
    <3>2. Challenged(t)'
      BY <1>n, <3>1, AuditStays
    <3>3. UNCHANGED <<returned, emitted>> /\ call'[c].pc = "reviewing" /\ call'[c].tx = t
      BY <2>12, ReviewCall DEF ReviewWithdrawal
    <3> QED
      BY <2>2, <2>3, <3>2, <3>3 DEF Holding
  <2> QED
    BY <1>2, <2>4, <2>5, <2>6, <2>7, <2>8, <2>9, <2>10, <2>11, <2>12 DEF CallStep
<1> QED
  BY <1>1, <1>2, NextSteps

(* Whatever leaves for the network was allowed, or challenged and approved, with both
   the approval and SIGNED in its trail. *)
THEOREM EmissionsAudited == Spec => []EmittedAudited
<1>1. Init => SimTyped /\ SimAudit
  BY TypedStart, AuditStart
<1>2. SimTyped /\ SimAudit /\ [Next]_vars => SimTyped' /\ SimAudit'
  BY TypedNext, AuditNext, AuditNames
<1>3. SimAudit => EmittedAudited
  BY DEF SimAudit, PayloadsAudited, EmittedAudited, Allowed
<1> QED
  BY <1>1, <1>2, <1>3, PTL DEF Spec

-----------------------------------------------------------------------------
(* What is emitted stays emitted. *)
LEMMA EmittedGrows ==
    ASSUME [Next]_vars
    PROVE  emitted \subseteq emitted'
<1>1. ASSUME NEW c \in Caller, CallStep(c)
      PROVE  emitted \subseteq emitted'
  BY <1>1 DEF CallStep, InsertOwn, Sign, CommitSigned, Broadcast, CommitBroadcast,
     CommitReview, Recover, Leave, ReviewWithdrawal, Load, LoadSigned
<1>2. UNCHANGED vars \/ SplitKey \/ RequestWithdrawal => emitted' = emitted
  BY DEF vars, SplitKey, RequestWithdrawal
<1> QED
  BY <1>1, <1>2, NextSteps

(* Only Broadcast leads to a commit of BROADCAST, after it has emitted the payload. *)
LEMMA SentNext ==
    ASSUME SimTyped, SimHash, NEW c \in Caller, CallStep(c),
           NEW t, NEW p, t = call'[c].tx, p = call'[c].payload, call'[c].pc = "sent"
    PROVE  <<t, p>> \in emitted'
<1>1. CASE Broadcast(c)
  <2>1. call'[c].pc # "over"
    OBVIOUS
  <2>2. Go(c, "sent")
    BY <1>1, <2>1, OverCall DEF Broadcast
  <2>3. t = call[c].tx /\ p = call[c].payload
    BY <2>2, CallGoes
  <2>4. emitted' = emitted \cup {<<call[c].tx, call[c].payload>>}
    BY <1>1 DEF Broadcast
  <2> QED
    BY <2>3, <2>4
<1>2. ~InsertOwn(c) /\ ~Sign(c) /\ ~Recover(c)
  BY InsertOwnCall, SignCall, RecoverCall
<1>3. ~CommitSigned(c) /\ ~CommitBroadcast(c) /\ ~CommitReview(c) /\ ~Leave(c)
  BY LateCalls
<1>4. \A u \in Tx : /\ ~ReviewWithdrawal(c, u) /\ ~Load(c, u)
                    /\ \A x \in returned : ~LoadSigned(c, u, x[2])
  BY ReviewCall, LoadCall, LoadSignedCall
<1> QED
  BY <1>1, <1>2, <1>3, <1>4 DEF CallStep

LEMMA HashNext ==
    ASSUME SimTyped, Named, SimHash, [Next]_vars
    PROVE  SimHash'
<1>g. emitted \subseteq emitted'
  BY EmittedGrows
<1>1. ASSUME NEW c \in Caller, NEW t, NEW p, t = call'[c].tx, p = call'[c].payload,
             call'[c].pc = "sent"
      PROVE  <<t, p>> \in emitted'
  <2>1. CASE call'[c] = call[c]
    BY <1>g, <1>1, <2>1 DEF SimHash
  <2>2. UNCHANGED vars \/ SplitKey \/ RequestWithdrawal => call'[c] = call[c]
    BY DEF vars, SplitKey, RequestWithdrawal
  <2>3. ASSUME NEW d \in Caller, CallStep(d)
        PROVE  <<t, p>> \in emitted'
    <3>1. CASE d = c
      BY <1>1, <2>3, <3>1, SentNext
    <3>2. CASE d # c
      BY <2>1, <2>3, <3>2, CallTyped
    <3> QED
      BY <3>1, <3>2
  <2> QED
    BY <2>1, <2>2, <2>3, NextSteps
<1>2. ASSUME NEW t \in Tx, HasEvent(t, "BROADCAST")'
      PROVE  <<t, txHash'[t]>> \in emitted'
  <2>1. CASE txHash'[t] = txHash[t] /\ HasEvent(t, "BROADCAST")
    BY <1>g, <2>1 DEF SimHash, HashSurvives
  <2>2. CASE UNCHANGED ledgerVars
    <3>1. HasEvent(t, "BROADCAST") /\ txHash'[t] = txHash[t]
      BY <1>2, <2>2 DEF ledgerVars, HasEvent
    <3> QED
      BY <2>1, <3>1
  <2>3. ASSUME NEW u \in Tx, NEW d \in Decision, Insert(u, d)
        PROVE  <<t, txHash'[t]>> \in emitted'
    <3>1. HasEvent(t, "BROADCAST") /\ txHash'[t] = txHash[t]
      BY <1>2, <2>3 DEF Insert, InsertRow, HasEvent
    <3> QED
      BY <2>1, <3>1
  <2>4. ASSUME NEW c \in Caller, CommitSigned(c), call[c].tx \in Tx
        PROVE  <<t, txHash'[t]>> \in emitted'
    <3>1. PICK u \in Tx : u = call[c].tx
      BY <2>4
    <3>2. UpdateStatus(u, "SIGNED", "SIGNED", NoHash)
      BY <2>4, <3>1 DEF CommitSigned
    <3>3. HasEvent(t, "BROADCAST")
      BY <1>2, <3>2, EventRecorded DEF UpdateStatus
    <3>4. txHash' = txHash
      BY <3>2 DEF UpdateStatus
    <3> QED
      BY <2>1, <3>3, <3>4
  <2>5. ASSUME NEW c \in Caller, CommitBroadcast(c), call[c].tx \in Tx
        PROVE  <<t, txHash'[t]>> \in emitted'
    <3>1. PICK u, p : u \in Tx /\ u = call[c].tx /\ p = call[c].payload
      BY <2>5
    <3>2. UpdateBroadcast(u, p)
      BY <2>5, <3>1 DEF CommitBroadcast
    <3>3. <<u, p>> \in emitted
      BY <2>5, <3>1 DEF CommitBroadcast, SimHash
    <3>4. CASE t = u
      <4>1. txHash'[t] = p
        BY <3>2, <3>4 DEF UpdateBroadcast, SimTyped
      <4> QED
        BY <1>g, <3>3, <3>4, <4>1
    <3>5. CASE t # u
      <4>1. HasEvent(t, "BROADCAST")
        BY <1>2, <3>1, <3>2, <3>5, EventRecorded DEF UpdateBroadcast
      <4>2. txHash'[t] = txHash[t]
        BY <3>1, <3>2, <3>5 DEF UpdateBroadcast, SimTyped
      <4> QED
        BY <2>1, <4>1, <4>2
    <3> QED
      BY <3>4, <3>5
  <2>6. UNCHANGED vars \/ SplitKey => UNCHANGED ledgerVars
    BY DEF vars, SplitKey
  <2>7. RequestWithdrawal => \E u \in Tx, d \in Decision : Insert(u, d)
    BY DEF RequestWithdrawal
  <2>8. "ALLOW" \in Decision
    BY DEF Decision
  <2>9. ASSUME NEW c \in Caller, CommitReview(c), call[c].tx \in Tx
        PROVE  <<t, txHash'[t]>> \in emitted'
    <3>1. PICK u \in Tx : u = call[c].tx
      BY <2>9
    <3>2. PICK e, s : e \in {"APPROVED", "REJECTED"} /\ UpdateStatus(u, e, s, NoHash)
      BY <2>9, <3>1 DEF CommitReview
    <3>3. HasEvent(t, "BROADCAST")
      BY <1>2, <3>2, EventRecorded DEF UpdateStatus
    <3>4. txHash' = txHash
      BY <3>2 DEF UpdateStatus
    <3> QED
      BY <2>1, <3>3, <3>4
  <2> QED
    BY <2>2, <2>3, <2>4, <2>5, <2>6, <2>7, <2>8, <2>9, NextSteps, LedgerSteps
<1>3. \A c \in Caller : call'[c].pc = "sent" => <<call'[c].tx, call'[c].payload>> \in emitted'
  BY <1>1
<1> QED
  BY <1>2, <1>3 DEF SimHash, HashSurvives

(* However the commits of SIGNED and BROADCAST of several calls overtake each other, the
   hash in the row is one of a payload that was emitted. *)
THEOREM HashKept == Spec => []HashSurvives
<1>1. Init => SimTyped /\ SimAudit /\ SimHash
  <2>1. Init => SimHash
    BY IdleFields DEF Init, LedgerInit, SimHash, HashSurvives, HasEvent
  <2> QED
    BY <2>1, TypedStart, AuditStart
<1>2. SimTyped /\ SimAudit /\ SimHash /\ [Next]_vars => SimTyped' /\ SimAudit' /\ SimHash'
  BY TypedNext, AuditNext, AuditNames, HashNext
<1>3. SimHash => HashSurvives
  BY DEF SimHash
<1> QED
  BY <1>1, <1>2, <1>3, PTL DEF Spec

-----------------------------------------------------------------------------
(* A call is asked once, and what it was answered does not change. *)
LEMMA AskedNext ==
    ASSUME SimTyped, FewerNeverAnswer, [Next]_vars
    PROVE  FewerNeverAnswer'
<1> SUFFICES ASSUME NEW c \in Caller, Asked(c)', ~call'[c].quorum
             PROVE  call'[c].from = Raised
  BY DEF FewerNeverAnswer
<1>1. CASE call'[c] = call[c]
  BY <1>1 DEF FewerNeverAnswer, Asked
<1>2. UNCHANGED vars \/ SplitKey \/ RequestWithdrawal => call'[c] = call[c]
  BY DEF vars, SplitKey, RequestWithdrawal
<1>3. ASSUME CallStep(c)
      PROVE  call'[c].from = Raised
  <2>1. CASE Sign(c) \/ Recover(c)
    <3>1. PICK indices \in Presentable :
            call'[c].quorum = Quorum(indices) /\ call'[c].from = ReconstructSecret(indices)
      BY <2>1, SignCall, RecoverCall
    <3> QED
      BY <3>1, FewerRaise
  <2>2. ~InsertOwn(c) /\ ~CommitSigned(c)
    BY InsertOwnCall, LateCalls DEF Asked
  <2>3. ~Broadcast(c) /\ ~CommitBroadcast(c) /\ ~CommitReview(c) /\ ~Leave(c)
    BY LateCalls DEF Asked
  <2>4. \A t \in Tx : /\ ~ReviewWithdrawal(c, t) /\ ~Load(c, t)
                      /\ \A x \in returned : ~LoadSigned(c, t, x[2])
    BY ReviewCall, LoadCall, LoadSignedCall DEF Asked
  <2> QED
    BY <1>3, <2>1, <2>2, <2>3, <2>4 DEF CallStep
<1>4. ASSUME NEW d \in Caller \ {c}, CallStep(d)
      PROVE  call'[c] = call[c]
  BY <1>4, CallTyped
<1> QED
  BY <1>1, <1>2, <1>3, <1>4, NextSteps

(* Fewer shares than the threshold, or copies that make up the number, raise. *)
THEOREM FewerRaises == Spec => []FewerNeverAnswer
<1>1. Init => FewerNeverAnswer
  BY IdleFields DEF Init, FewerNeverAnswer, Asked
<1>2. Init => SimTyped /\ SimAudit
  BY TypedStart, AuditStart
<1>3. SimTyped /\ SimAudit /\ FewerNeverAnswer /\ [Next]_vars
        => SimTyped' /\ SimAudit' /\ FewerNeverAnswer'
  BY TypedNext, AuditNext, AuditNames, AskedNext
<1> QED
  BY <1>1, <1>2, <1>3, PTL DEF Spec

-----------------------------------------------------------------------------
(* The key is split before anybody asks for it, and once. *)
LEMMA StartedStep ==
    ASSUME SimTyped, Started, NEW c \in Caller, CallStep(c)
    PROVE  /\ UNCHANGED shardVars
           /\ shares # <<>> \/ (call'[c].pc \in Keyless /\ UNCHANGED <<returned, emitted>>)
<1>1. InsertOwn(c) \/ Recover(c) => shares # <<>> /\ UNCHANGED shardVars
  BY DEF InsertOwn, Recover
<1>2. Sign(c) \/ CommitSigned(c) \/ Broadcast(c) \/ CommitBroadcast(c)
        => shares # <<>> /\ UNCHANGED shardVars
  BY DEF Started, Keyless, Sign, CommitSigned, Broadcast, CommitBroadcast
<1>3. Leave(c) \/ CommitReview(c)
        => UNCHANGED shardVars /\ call'[c].pc \in Keyless /\ UNCHANGED <<returned, emitted>>
  BY LateCalls DEF Leave, CommitReview, Keyless
<1>4. \A t \in Tx : Load(c, t) => shares # <<>> /\ UNCHANGED shardVars
  BY DEF Load
<1>5. \A t \in Tx, x \in returned :
        LoadSigned(c, t, x[2]) => shares # <<>> /\ UNCHANGED shardVars
  BY DEF LoadSigned, Started
<1>6. \A t \in Tx : ReviewWithdrawal(c, t)
        => UNCHANGED shardVars /\ call'[c].pc \in Keyless /\ UNCHANGED <<returned, emitted>>
  BY ReviewCall DEF ReviewWithdrawal, Keyless
<1> QED
  BY <1>1, <1>2, <1>3, <1>4, <1>5, <1>6 DEF CallStep

LEMMA StartedNext ==
    ASSUME SimTyped, Started, [Next]_vars
    PROVE  Started'
<1>1. CASE UNCHANGED vars \/ SplitKey \/ RequestWithdrawal
  <2>1. UNCHANGED <<call, returned, emitted>>
    BY <1>1 DEF vars, SplitKey, RequestWithdrawal
  <2>2. shares = <<>> \/ UNCHANGED shares
    BY <1>1 DEF vars, shardVars, SplitKey, Split, RequestWithdrawal
  <2> QED
    BY <2>1, <2>2 DEF Started
<1>2. ASSUME NEW c \in Caller, CallStep(c)
      PROVE  Started'
  <2>1. UNCHANGED shares /\ \A d \in Caller \ {c} : call'[d] = call[d]
    BY <1>2, StartedStep, CallTyped DEF shardVars
  <2>2. shares # <<>> \/ (call'[c].pc \in Keyless /\ UNCHANGED <<returned, emitted>>)
    BY <1>2, StartedStep
  <2> QED
    BY <2>1, <2>2 DEF Started
<1> QED
  BY <1>1, <1>2, NextSteps

(* And from then on the shares are those of a split of the key. *)
SharesSplit == shares # <<>> =>
    \E coefficients \in [1 .. MaxSecretSize -> [1 .. (Threshold - 1) -> Element]] :
        IsSplit(secret, coefficients) /\ shares = SplitSecret(secret, coefficients)

LEMMA SharesNext ==
    ASSUME SimTyped, Started, SharesSplit, [Next]_vars
    PROVE  SharesSplit'
<1>1. CASE UNCHANGED shardVars
  BY <1>1 DEF SharesSplit, shardVars
<1>2. CASE SplitKey
  <2>1. PICK length \in 0 .. MaxSecretSize : \E s \in [1 .. length -> Element] :
             \E coefficients \in [1 .. MaxSecretSize -> [1 .. (Threshold - 1) -> Element]] :
                secret' = s /\ shares' = SplitSecret(s, coefficients)
    BY <1>2 DEF SplitKey, Split
  <2>2. PICK s \in [1 .. length -> Element],
             coefficients \in [1 .. MaxSecretSize -> [1 .. (Threshold - 1) -> Element]] :
                secret' = s /\ shares' = SplitSecret(s, coefficients)
    BY <2>1
  <2>3. IsSplit(s, coefficients)
    BY DEF IsSplit
  <2> QED
    BY <2>2, <2>3 DEF SharesSplit
<1>3. ASSUME NEW c \in Caller, CallStep(c)
      PROVE  UNCHANGED shardVars
  BY <1>3, StartedStep
<1>4. UNCHANGED vars \/ RequestWithdrawal => UNCHANGED shardVars
  BY DEF vars, shardVars, RequestWithdrawal
<1> QED
  BY <1>1, <1>2, <1>3, <1>4, NextSteps

(* What a call is answered from a quorum is the key. *)
LEMMA RecoveredNext ==
    ASSUME SimTyped, Started, SharesSplit, AnyQuorumRecovers, [Next]_vars
    PROVE  AnyQuorumRecovers'
<1> SUFFICES ASSUME NEW c \in Caller, Asked(c)', call'[c].quorum
             PROVE  call'[c].from = Key(secret')
  BY DEF AnyQuorumRecovers, Key
<1>1. CASE UNCHANGED shardVars /\ call'[c] = call[c]
  BY <1>1 DEF AnyQuorumRecovers, Asked, shardVars
<1>2. UNCHANGED vars \/ RequestWithdrawal => UNCHANGED shardVars /\ call'[c] = call[c]
  BY DEF vars, shardVars, RequestWithdrawal
<1>3. ~SplitKey
  <2> SUFFICES ASSUME SplitKey PROVE FALSE
    OBVIOUS
  <2>1. shares = <<>> /\ call'[c] = call[c]
    BY DEF SplitKey, Split
  <2>2. call[c].pc \in Keyless
    BY <2>1 DEF Started
  <2> QED
    BY <2>1, <2>2 DEF Asked, Keyless
<1>4. ASSUME CallStep(c)
      PROVE  call'[c].from = Key(secret')
  <2>s. shares # <<>> /\ UNCHANGED shardVars
    BY <1>4, StartedStep DEF Asked, Keyless
  <2>1. CASE Sign(c) \/ Recover(c)
    <3>1. PICK indices \in Presentable :
            call'[c].quorum = Quorum(indices) /\ call'[c].from = ReconstructSecret(indices)
      BY <2>1, SignCall, RecoverCall
    <3>2. PICK coefficients :
            IsSplit(secret, coefficients) /\ shares = SplitSecret(secret, coefficients)
      BY <2>s DEF SharesSplit
    <3>3. ReconstructSecret(indices) = Key(secret)
      <4>1. PICK s : s = secret
        OBVIOUS
      <4>2. ReconstructSecret(indices) = Key(s)
        BY <3>1, <3>2, <4>1, QuorumRecovers
      <4> QED
        BY <4>1, <4>2
    <3> QED
      BY <2>s, <3>1, <3>3 DEF shardVars, Key
  <2>2. ~InsertOwn(c) /\ ~CommitSigned(c)
    BY InsertOwnCall, LateCalls DEF Asked
  <2>3. ~Broadcast(c) /\ ~CommitBroadcast(c) /\ ~CommitReview(c) /\ ~Leave(c)
    BY LateCalls DEF Asked
  <2>4. \A t \in Tx : /\ ~ReviewWithdrawal(c, t) /\ ~Load(c, t)
                      /\ \A x \in returned : ~LoadSigned(c, t, x[2])
    BY ReviewCall, LoadCall, LoadSignedCall DEF Asked
  <2> QED
    BY <1>4, <2>1, <2>2, <2>3, <2>4 DEF CallStep
<1>5. ASSUME NEW d \in Caller \ {c}, CallStep(d)
      PROVE  UNCHANGED shardVars /\ call'[c] = call[c]
  BY <1>5, CallTyped, StartedStep
<1> QED
  BY <1>1, <1>2, <1>3, <1>4, <1>5, NextSteps

(* All that is kept about the key. *)
KeyInv == Started /\ SharesSplit /\ AnyQuorumRecovers

LEMMA KeyStart == Init => KeyInv
BY IdleFields DEF Init, ShardInit, KeyInv, Started, Keyless, SharesSplit, AnyQuorumRecovers, Asked

(* Any quorum of shares answers with the key that was split, whatever the prime, the
   threshold, the coefficients and the order of the shares. *)
THEOREM QuorumsRecover == Spec => []AnyQuorumRecovers
<1>1. Init => SimTyped /\ SimAudit /\ KeyInv
  BY TypedStart, AuditStart, KeyStart
<1>2. SimTyped /\ SimAudit /\ KeyInv /\ [Next]_vars => SimTyped' /\ SimAudit' /\ KeyInv'
  BY TypedNext, AuditNext, AuditNames, StartedNext, SharesNext, RecoveredNext DEF KeyInv
<1>3. KeyInv => AnyQuorumRecovers
  BY DEF KeyInv
<1> QED
  BY <1>1, <1>2, <1>3, PTL DEF Spec

-----------------------------------------------------------------------------
(* The signature of a call that was answered. *)
LEMMA SignSigns ==
    ASSUME SimTyped, SimPayload, FewerNeverAnswer', AnyQuorumRecovers', UNCHANGED shardVars,
           NEW c \in Caller, Sign(c), call'[c].pc = "signed",
           NEW t, NEW p, t = call'[c].tx, p = call'[c].payload
    PROVE  Signs(t, p)
<1>1. PICK indices \in Presentable :
        LET from == ReconstructSecret(indices)
        IN  /\ call'[c].tx = call[c].tx
            /\ call'[c].quorum = Quorum(indices) /\ call'[c].from = from
            /\ call'[c].pc = IF from.raised THEN "answered" ELSE "signed"
            /\ call'[c].payload = IF from.raised THEN NoPayload
                                  ELSE [key |-> from.key, data |-> Serialize(c)]
  BY SignCall
<1>2. PICK from : from = ReconstructSecret(indices)
  OBVIOUS
<1>3. ~from.raised /\ call'[c].from = from /\ t = call[c].tx
      /\ p = [key |-> from.key, data |-> Serialize(c)]
  BY <1>1, <1>2
<1>4. from # Raised
  BY <1>3 DEF Raised
<1>5. from = Key(secret)
  BY <1>3, <1>4 DEF FewerNeverAnswer, AnyQuorumRecovers, Asked, Key, shardVars
<1>6. from.key = secret
  BY <1>5 DEF Key
<1>7. PICK text : text = call[c].text
  OBVIOUS
<1>8. text \in Text
  BY <1>7 DEF Sign, SimPayload
<1>9. Serialize(c) = [tx |-> t, text |-> text]
  BY <1>3, <1>7 DEF Serialize
<1> QED
  BY <1>3, <1>6, <1>8, <1>9 DEF Signs

(* What a step signs, returns or emits. *)
LEMMA PayloadStep ==
    ASSUME SimTyped, SimPayload, FewerNeverAnswer', AnyQuorumRecovers', UNCHANGED shardVars,
           NEW c \in Caller, CallStep(c), NEW t, NEW p, t = call'[c].tx, p = call'[c].payload
    PROVE  /\ call'[c].pc = "loaded" => call'[c].text \in Text
           /\ call'[c].pc \in {"signed", "committed", "sent"} => Signs(t, p)
           /\ \A x \in returned' \cup emitted' : x = <<x[1], x[2]>> /\ Signs(x[1], x[2])
<1> DEFINE New(x) == x = <<x[1], x[2]>> /\ Signs(x[1], x[2])
<1>k. \A x \in returned \cup emitted : New(x)
  BY DEF SimPayload
<1>p. \A u, q : Signs(u, q) => New(<<u, q>>)
  OBVIOUS
<1> HIDE DEF New
<1>1. CASE InsertOwn(c)
  <2>1. call'[c].pc = "loaded" /\ call'[c].text = "inserted"
    BY <1>1, InsertOwnCall
  <2>2. UNCHANGED <<returned, emitted>>
    BY <1>1 DEF InsertOwn
  <2> QED
    BY <1>k, <2>1, <2>2 DEF Text, New
<1>2. CASE Sign(c)
  <2>1. call'[c].pc \in {"answered", "signed"}
    BY <1>2, SignCall
  <2>2. UNCHANGED <<returned, emitted>>
    BY <1>2 DEF Sign
  <2> QED
    BY <1>2, <1>k, <2>1, <2>2, SignSigns DEF New
<1>3. CASE CommitSigned(c)
  <2>1. call'[c].pc = "committed"
    BY <1>3, LateCalls
  <2>2. t = call[c].tx /\ p = call[c].payload /\ call[c].pc = "signed"
    BY <1>3, CallGoes DEF CommitSigned
  <2>3. Signs(t, p)
    <3>1. \A u, q : u = call[c].tx /\ q = call[c].payload => Signs(u, q)
      BY <2>2 DEF SimPayload, Signs
    <3> QED
      BY <2>2, <3>1
  <2>4. returned' = returned \cup {<<t, p>>} /\ emitted' = emitted
    BY <1>3, <2>2 DEF CommitSigned
  <2>5. \A x \in returned' \cup emitted' : New(x)
    BY <1>k, <1>p, <2>3, <2>4
  <2> QED
    BY <2>1, <2>3, <2>5 DEF New
<1>4. CASE Broadcast(c)
  <2>1. call'[c].pc \in {"sent", "over"}
    BY <1>4, LateCalls
  <2>2. PICK u, q : u = call[c].tx /\ q = call[c].payload
    OBVIOUS
  <2>3. Signs(u, q)
    BY <1>4, <2>2 DEF Broadcast, SimPayload, Signs
  <2>4. call'[c].pc = "sent" => t = u /\ p = q
    <3>1. Go(c, "sent") \/ Become(c, Over)
      BY <1>4 DEF Broadcast
    <3>2. Become(c, Over) => call'[c].pc = "over"
      BY OverCall
    <3>3. Go(c, "sent") => t = u /\ p = q
      BY <2>2, CallGoes
    <3> QED
      BY <3>1, <3>2, <3>3
  <2>5. emitted' = emitted \cup {<<u, q>>} /\ returned' = returned
    BY <1>4, <2>2 DEF Broadcast
  <2>6. \A x \in returned' \cup emitted' : New(x)
    BY <1>k, <1>p, <2>3, <2>5
  <2> QED
    BY <2>1, <2>3, <2>4, <2>6 DEF New
<1>5. CASE CommitBroadcast(c) \/ CommitReview(c) \/ Leave(c) \/ Recover(c)
  <2>1. call'[c].pc \in {"over", "answered"}
    BY <1>5, LateCalls, RecoverCall
  <2>2. UNCHANGED <<returned, emitted>>
    BY <1>5 DEF CommitBroadcast, CommitReview, Leave, Recover
  <2> QED
    BY <1>k, <2>1, <2>2 DEF New
<1>6. ASSUME NEW u \in Tx, Load(c, u)
      PROVE  /\ call'[c].pc = "loaded" /\ call'[c].text \in Text
             /\ UNCHANGED <<returned, emitted>>
  BY <1>6, LoadCall DEF Load, Text
<1>7. ASSUME NEW u \in Tx, NEW x \in returned, LoadSigned(c, u, x[2])
      PROVE  /\ call'[c].pc = "committed" /\ Signs(t, p)
             /\ UNCHANGED <<returned, emitted>>
  <2>1. PICK q : q = x[2]
    OBVIOUS
  <2>2. <<u, q>> \in returned
    BY <1>7, <2>1 DEF LoadSigned
  <2>3. Signs(u, q)
    BY <2>2 DEF SimPayload
  <2>4. call'[c].pc = "committed" /\ t = u /\ p = q
    BY <1>7, <2>1, LoadSignedCall
  <2> QED
    BY <1>7, <2>3, <2>4 DEF LoadSigned
<1>8. ASSUME NEW u \in Tx, ReviewWithdrawal(c, u)
      PROVE  call'[c].pc = "reviewing" /\ UNCHANGED <<returned, emitted>>
  BY <1>8, ReviewCall DEF ReviewWithdrawal
<1>9. CASE \E u \in Tx : \/ ReviewWithdrawal(c, u) \/ Load(c, u)
                         \/ \E x \in returned : LoadSigned(c, u, x[2])
  <2>1. UNCHANGED <<returned, emitted>>
    BY <1>6, <1>7, <1>8, <1>9
  <2>2. /\ call'[c].pc = "loaded" => call'[c].text \in Text
        /\ call'[c].pc \in {"signed", "committed", "sent"} => Signs(t, p)
    BY <1>6, <1>7, <1>8, <1>9
  <2> QED
    BY <1>k, <2>1, <2>2 DEF New
<1> QED
  BY <1>1, <1>2, <1>3, <1>4, <1>5, <1>9 DEF CallStep

LEMMA PayloadNext ==
    ASSUME SimTyped, Started, SimPayload, FewerNeverAnswer', AnyQuorumRecovers', [Next]_vars
    PROVE  SimPayload'
<1>1. CASE UNCHANGED vars \/ SplitKey \/ RequestWithdrawal
  <2>1. UNCHANGED <<call, returned, emitted>>
    BY <1>1 DEF vars, SplitKey, RequestWithdrawal
  <2>2. CASE UNCHANGED shardVars
    BY <2>1, <2>2 DEF SimPayload, Signs, shardVars
  <2>3. CASE shares = <<>>
    <3>1. (\A c \in Caller : call[c].pc \in Keyless) /\ returned \cup emitted = {}
      BY <2>3 DEF Started
    <3> QED
      BY <2>1, <3>1 DEF SimPayload, Keyless
  <2> QED
    BY <1>1, <2>2, <2>3 DEF vars, SplitKey, Split, RequestWithdrawal
<1>2. ASSUME NEW c \in Caller, CallStep(c)
      PROVE  SimPayload'
  <2>1. UNCHANGED shardVars
    BY <1>2, StartedStep
  <2>2. \A u, q : Signs(u, q)' <=> Signs(u, q)
    BY <2>1 DEF Signs, shardVars
  <2>3. ASSUME NEW d \in Caller, NEW t, NEW p, t = call'[d].tx, p = call'[d].payload
        PROVE  /\ call'[d].pc = "loaded" => call'[d].text \in Text
               /\ call'[d].pc \in {"signed", "committed", "sent"} => Signs(t, p)
    <3>1. CASE d = c
      BY <1>2, <2>1, <2>3, <3>1, PayloadStep
    <3>2. CASE d # c
      <4>1. call'[d] = call[d]
        BY <1>2, <3>2, CallTyped
      <4>2. \A u, q : u = call[d].tx /\ q = call[d].payload
                        /\ call[d].pc \in {"signed", "committed", "sent"} => Signs(u, q)
        BY DEF SimPayload, Signs
      <4> QED
        BY <2>3, <4>1, <4>2 DEF SimPayload
    <3> QED
      BY <3>1, <3>2
  <2>4. \A x \in returned' \cup emitted' : x = <<x[1], x[2]>> /\ Signs(x[1], x[2])
    <3>1. PICK t, p : t = call'[c].tx /\ p = call'[c].payload
      OBVIOUS
    <3> QED
      BY <1>2, <2>1, <3>1, PayloadStep
  <2> QED
    BY <2>1, <2>3, <2>4 DEF SimPayload, Signs, shardVars
<1> QED
  BY <1>1, <1>2, NextSteps

(* No race, retry or choice of shares emits two payloads for one spelling of a row. *)
THEOREM OnePayloadOfTheKey == Spec => []OnePayload
<1> DEFINE Inv == SimTyped /\ SimAudit /\ KeyInv /\ FewerNeverAnswer /\ SimPayload
<1>1. Init => Inv
  <2>1. Init => FewerNeverAnswer /\ SimPayload
    BY IdleFields DEF Init, FewerNeverAnswer, Asked, SimPayload
  <2> QED
    BY <2>1, TypedStart, AuditStart, KeyStart
<1>2. Inv /\ [Next]_vars => Inv'
  BY TypedNext, AuditNext, AuditNames, AskedNext, StartedNext, SharesNext, RecoveredNext,
     PayloadNext DEF KeyInv
<1>3. Inv => OnePayload
  <2> SUFFICES ASSUME SimPayload, NEW x \in emitted, NEW y \in emitted,
                      x[1] = y[1], x[2].data.text = y[2].data.text
              PROVE  x = y
    BY DEF OnePayload
  <2>1. x = <<x[1], x[2]>> /\ Signs(x[1], x[2]) /\ y = <<y[1], y[2]>> /\ Signs(y[1], y[2])
    BY DEF SimPayload
  <2>2. PICK a : x[2] = [key |-> secret, data |-> [tx |-> x[1], text |-> a]]
    BY <2>1 DEF Signs
  <2>3. PICK b : y[2] = [key |-> secret, data |-> [tx |-> y[1], text |-> b]]
    BY <2>1 DEF Signs
  <2>4. a = b
    BY <2>2, <2>3
  <2>5. x[2] = y[2]
    BY <2>2, <2>3, <2>4
  <2> QED
    BY <2>1, <2>5
<1> QED
  BY <1>1, <1>2, <1>3, PTL DEF Spec

=============================================================================
