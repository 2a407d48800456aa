-------------------------- MODULE SyncServerProofs --------------------------
(***************************************************************************)
(* Theorems about SyncServer, for any number of handlers, users, op ids    *)
(* and inspections, any payloads, any requests and any lock key function.  *)
(***************************************************************************)
EXTENDS SyncServer, SyncRulesProofs, SequenceTheorems

\* The inductive invariant.
Inv == TypeOK /\ LocksHeld /\ NoLedgerClash /\ DecisionIsFresh

InTxn == {"ledger", "load", "decide", "commit"}

\* What Inv says of one handler.
HandlerInv(c) ==
    /\ pc[c] # "idle" => who[c] \in Users /\ Len(results[c]) <= Len(batch[c])
    /\ pc[c] = "idle" => results[c] = << >>
    /\ pc[c] \in InTxn => MoreOps(c) /\ ~ Malformed(Op(c)) /\ opLock[Hash[Op(c)]] = c
    /\ pc[c] = "decide" /\ seen[c] # None => /\ rowLock[Target(c)] = c
                                             /\ seen[c] = rows[Target(c)]
    /\ pc[c] = "commit" => /\ out[c].status \in LedgeredStatus
                           /\ out[c].row # None => rowLock[Target(c)] = c
    /\ pc[c] \in {"load", "decide", "commit"} => ledger[Op(c)] = None
    /\ pc[c] = "commit" =>
          out[c] = Outcome(who[c], Op(c),
                           IF out[c].row = None THEN None ELSE rows[Target(c)],
                           Target(c) \in waiting)

\* A step of handler c, as the others see it.
OthersKeep(c) ==
    \A d \in Conns : d # c =>
        /\ pc'[d] = pc[d] /\ who'[d] = who[d] /\ batch'[d] = batch[d]
        /\ results'[d] = results[d] /\ seen'[d] = seen[d] /\ out'[d] = out[d]
        /\ \A k \in Keys : opLock[k] = d => opLock'[k] = d
        /\ \A i \in Inspections : rowLock[i] = d => rowLock'[i] = d

Writes(c) ==
    /\ pc[c] = "commit"
    /\ rows' = IF out[c].row = None THEN rows ELSE [rows EXCEPT ![Target(c)] = out[c].row]
    /\ ledger' = [ledger EXCEPT ![Op(c)] = Entry(who[c], out[c])]

-----------------------------------------------------------------------------
(* Facts about the state *)

\* A handler with an operation left has one in hand, with its payload.
LEMMA OpType ==
    ASSUME TypeOK, NEW c \in Conns, MoreOps(c)
    PROVE  /\ Op(c) \in OpIds
           /\ Target(c) \in Inspections
           /\ Hash[Op(c)] \in Keys
<1>1. /\ batch[c] \in Seq(OpIds) /\ results[c] \in Seq(AnswerStatus)
      /\ Len(results[c]) \in Nat /\ Len(batch[c]) \in Nat
      /\ Len(results[c]) < Len(batch[c])
  BY DEF TypeOK, MoreOps
<1>2. Len(results[c]) + 1 \in 1 .. Len(batch[c])
  BY <1>1
<1>3. Op(c) \in OpIds
  BY <1>1, <1>2 DEF Op
<1> QED
  BY <1>3, PayloadType, HashAssumption DEF Target

\* What a handler decides is an outcome.
LEMMA DecisionType ==
    ASSUME TypeOK, LocksHeld, NEW c \in Conns, pc[c] = "decide"
    PROVE  Decision(c) \in Outcomes
<1>1. who[c] \in Users /\ MoreOps(c)
  BY DEF LocksHeld
<1>2. Op(c) \in OpIds /\ seen[c] \in Row \cup {None} /\ (Target(c) \in waiting) \in BOOLEAN
  BY <1>1, OpType DEF TypeOK
<1> QED
  BY <1>1, <1>2, OutcomeType DEF Decision


\* The end of a transaction keeps types, whatever it answers.
LEMMA ReleaseType ==
    ASSUME TypeOK, NEW c \in Conns, Release(c)
    PROVE  /\ opLock' \in [Keys -> Conns \cup {None}]
           /\ rowLock' \in [Inspections -> Conns \cup {None}]
           /\ seen' \in [Conns -> Row \cup {None}]
           /\ out' \in [Conns -> Outcomes]
<1>1. NoOutcome \in Outcomes
  BY DEF NoOutcome, Reply, Outcomes, OutcomeStatus
<1> QED
  BY <1>1 DEF TypeOK, Release, Outcomes

\* Answering an operation keeps the handler's own variables typed.
LEMMA AnswerType ==
    ASSUME TypeOK, NEW c \in Conns, NEW s \in AnswerStatus, Answer(c, s)
    PROVE  /\ results' \in [Conns -> Seq(AnswerStatus)]
           /\ pc' \in [Conns -> Places]
           /\ who' = who /\ batch' = batch /\ waiting' = waiting
<1>1. Append(results[c], s) \in Seq(AnswerStatus)
  BY DEF TypeOK
<1> QED
  BY <1>1 DEF TypeOK, Answer, Places, request

-----------------------------------------------------------------------------
(* Type correctness *)

\* The variables start with their types.
LEMMA InitType == Init => TypeOK
<1> SUFFICES ASSUME Init PROVE TypeOK
  OBVIOUS
<1>1. rows \in [Inspections -> Row \cup {None}]
  <2>1. \A u \in Users : SeedRow(u) \in Row
    BY ValuesAssumption DEF SeedRow, Row
  <2> QED
    BY <2>1, AssignedAssumption DEF Init, SeedRows
<1>2. out \in [Conns -> Outcomes]
  BY DEF Init, NoOutcome, Reply, Outcomes, OutcomeStatus
<1> QED
  BY <1>1, <1>2 DEF Init, TypeOK, Places, Outcomes

\* A step that ends in an answer and leaves the store as it is.
LEMMA AnswerOnlyType ==
    ASSUME TypeOK, NEW c \in Conns, NEW s \in AnswerStatus, Answer(c, s), UNCHANGED store
    PROVE  TypeOK'
<1>1. Release(c)
  BY DEF Answer
<1> QED
  BY <1>1, ReleaseType, AnswerType DEF TypeOK, store, Outcomes

\* A handler that answers its request, or dies, keeps types.
LEMMA LeaveType ==
    ASSUME TypeOK, NEW c \in Conns, Leave(c)
    PROVE  TypeOK'
<1>1. Release(c)
  BY DEF Leave
<1>2. << >> \in Seq(OpIds) /\ << >> \in Seq(AnswerStatus)
  OBVIOUS
<1>3. /\ pc' \in [Conns -> Places]
      /\ who' \in [Conns -> Users \cup {None}]
      /\ batch' \in [Conns -> Seq(OpIds)]
      /\ results' \in [Conns -> Seq(AnswerStatus)]
      /\ UNCHANGED <<rows, ledger, waiting>>
  BY <1>2 DEF TypeOK, Leave, Places, store
<1> QED
  BY <1>1, <1>3, ReleaseType DEF TypeOK, Outcomes

\* A commit keeps types: what it writes are rows and entries.
LEMMA CommitType ==
    ASSUME TypeOK, LocksHeld, NEW c \in Conns, NEW s \in AnswerStatus, CommitAnd(c, s)
    PROVE  TypeOK'
<1>1. /\ pc[c] = "commit"
      /\ who[c] \in Users /\ MoreOps(c) /\ out[c].status \in LedgeredStatus
      /\ out[c] \in Outcomes
  BY DEF CommitAnd, LocksHeld, TypeOK, Outcomes
<1>2. Op(c) \in OpIds /\ Target(c) \in Inspections
  BY <1>1, OpType
<1>3. CASE ledger[Op(c)] # None
  <2>1. "error" \in AnswerStatus
    BY DEF AnswerStatus, OutcomeStatus
  <2> QED
    BY <1>3, <2>1, AnswerOnlyType DEF CommitAnd
<1>4. CASE ledger[Op(c)] = None
  <2>1. rows' \in [Inspections -> Row \cup {None}]
    BY <1>1, <1>2, <1>4 DEF CommitAnd, TypeOK, Outcomes
  <2>2. ledger' \in [OpIds -> Entries \cup {None}]
    <3>1. Entry(who[c], out[c]) \in Entries
      BY <1>1, EntryType
    <3>2. ledger' = [ledger EXCEPT ![Op(c)] = Entry(who[c], out[c])]
      BY <1>4 DEF CommitAnd
    <3> QED
      BY <1>2, <3>1, <3>2 DEF TypeOK
  <2>3. Answer(c, s) /\ Release(c)
    BY <1>4 DEF CommitAnd, Answer
  <2> QED
    BY <2>1, <2>2, <2>3, AnswerType, ReleaseType DEF TypeOK, Outcomes
<1> QED
  BY <1>3, <1>4

\* Every step keeps types, given what the places of handlers presume.
LEMMA NextType ==
    ASSUME TypeOK, LocksHeld, Next
    PROVE  TypeOK'
<1> USE DEF Outcomes
<1>1. ASSUME NEW c \in Conns, NEW u \in Users, NEW b \in Batches, Receive(c, u, b)
      PROVE  TypeOK'
  <2>1. b \in Seq(OpIds)
    BY BatchesAssumption
  <2> QED
    BY <1>1, <2>1 DEF Receive, TypeOK, store, locks, txn, Places
<1>2. ASSUME NEW c \in Conns, Respond(c)
      PROVE  TypeOK'
  BY <1>2, LeaveType DEF Respond
<1>3. ASSUME NEW c \in Conns, RejectMalformed(c)
      PROVE  TypeOK'
  BY <1>3, AnswerOnlyType DEF RejectMalformed, AnswerStatus, OutcomeStatus, LedgeredStatus
<1>4. ASSUME NEW c \in Conns, LockOp(c)
      PROVE  TypeOK'
  BY <1>4, OpType DEF LockOp, TypeOK, store, request, txn, Places
<1>5. ASSUME NEW c \in Conns, Replay(c)
      PROVE  TypeOK'
  <2>1. MoreOps(c)
    BY <1>5 DEF Replay, LocksHeld
  <2>2. Op(c) \in OpIds
    BY <2>1, OpType
  <2>3. ledger[Op(c)] \in Entries
    BY <1>5, <2>2 DEF Replay, TypeOK
  <2>4. ledger[Op(c)].status \in LedgeredStatus
    BY <2>3 DEF Entries
  <2>5. MarkDuplicate(ledger[Op(c)].status) \in AnswerStatus /\ "invalid" \in AnswerStatus
    BY <2>4 DEF MarkDuplicate, AnswerStatus, OutcomeStatus, LedgeredStatus
  <2> QED
    BY <1>5, <2>5, AnswerOnlyType DEF Replay
<1>6. ASSUME NEW c \in Conns, FirstDelivery(c)
      PROVE  TypeOK'
  BY <1>6 DEF FirstDelivery, TypeOK, store, locks, request, txn, Places
<1>7. ASSUME NEW c \in Conns, LoadRow(c)
      PROVE  TypeOK'
  <2>1. Target(c) \in Inspections
    BY <1>7, OpType DEF LoadRow, LocksHeld
  <2>2. rowLock' \in [Inspections -> Conns \cup {None}]
    BY <1>7, <2>1 DEF LoadRow, TypeOK
  <2>3. seen' \in [Conns -> Row \cup {None}] /\ pc' \in [Conns -> Places]
    BY <1>7, <2>1 DEF LoadRow, TypeOK, Places
  <2> QED
    BY <1>7, <2>2, <2>3 DEF LoadRow, TypeOK, store, request
<1>8. ASSUME NEW c \in Conns, Decide(c)
      PROVE  TypeOK'
  <2>1. Decision(c) \in Outcomes
    BY <1>8, DecisionType DEF Decide
  <2>2. CASE Decision(c).status \in LedgeredStatus
    <3>1. /\ out' = [out EXCEPT ![c] = Decision(c)]
          /\ pc' = [pc EXCEPT ![c] = "commit"]
          /\ UNCHANGED <<store, waiting, locks, request, results, seen>>
      BY <1>8, <2>2 DEF Decide
    <3>2. /\ out' \in [Conns -> Outcomes]
          /\ pc' \in [Conns -> Places]
      BY <2>1, <3>1 DEF TypeOK, Places
    <3> QED
      BY <3>1, <3>2 DEF TypeOK, store, locks, request
  <2>3. CASE Decision(c).status \notin LedgeredStatus
    <3>1. Decision(c).status \in AnswerStatus
      BY <2>1 DEF AnswerStatus
    <3> QED
      BY <1>8, <2>3, <3>1, AnswerOnlyType DEF Decide
  <2> QED
    BY <2>2, <2>3
<1>9. ASSUME NEW c \in Conns, Create(c)
      PROVE  TypeOK'
  <2>1. Decision(c) \in Outcomes
    BY <1>9, DecisionType DEF Create
  <2>2. Target(c) \in Inspections
    BY <1>9, OpType DEF Create, LocksHeld
  <2>3. CASE rows[Target(c)] = None
    <3>1. /\ rowLock' = [rowLock EXCEPT ![Target(c)] = c]
          /\ out' = [out EXCEPT ![c] = Decision(c)]
          /\ pc' = [pc EXCEPT ![c] = "commit"]
          /\ UNCHANGED <<store, waiting, opLock, request, results, seen>>
      BY <1>9, <2>3 DEF Create
    <3>2. /\ rowLock' \in [Inspections -> Conns \cup {None}]
          /\ out' \in [Conns -> Outcomes]
          /\ pc' \in [Conns -> Places]
      BY <2>1, <2>2, <3>1 DEF TypeOK, Places
    <3> QED
      BY <3>1, <3>2 DEF TypeOK, store, request
  <2>4. CASE rows[Target(c)] # None
    BY <1>9, <2>4, AnswerOnlyType DEF Create, AnswerStatus, OutcomeStatus
  <2> QED
    BY <2>3, <2>4
<1>10. ASSUME NEW c \in Conns, Commit(c)
       PROVE  TypeOK'
  <2>1. out[c].status \in AnswerStatus
    BY DEF TypeOK, AnswerStatus
  <2> QED
    BY <1>10, <2>1, CommitType DEF Commit
<1>11. ASSUME NEW c \in Conns, CommitUnacked(c)
       PROVE  TypeOK'
  BY <1>11, CommitType DEF CommitUnacked, AnswerStatus, OutcomeStatus
<1>12. ASSUME NEW c \in Conns, Fail(c)
       PROVE  TypeOK'
  BY <1>12, AnswerOnlyType DEF Fail, AnswerStatus, OutcomeStatus
<1>13. ASSUME NEW c \in Conns, Abandon(c)
       PROVE  TypeOK'
  BY <1>13, LeaveType DEF Abandon
<1>14. ASSUME NEW i \in Inspections, OpenAttachment(i) \/ CompleteAttachments(i)
       PROVE  TypeOK'
  BY <1>14 DEF OpenAttachment, CompleteAttachments, TypeOK, store, locks, request, txn
<1> QED
  BY <1>1, <1>2, <1>3, <1>4, <1>5, <1>6, <1>7, <1>8, <1>9, <1>10, <1>11, <1>12, <1>13,
     <1>14 DEF Next, Handle

-----------------------------------------------------------------------------
(* Locks, and the freshness of decisions *)

\* The inductive invariant, said of one handler at a time.
LEMMA InvByHandler ==
    /\ Inv <=> TypeOK /\ \A c \in Conns : HandlerInv(c)
    /\ Inv' <=> TypeOK' /\ \A c \in Conns : HandlerInv(c)'
BY DEF Inv, LocksHeld, NoLedgerClash, DecisionIsFresh, HandlerInv, InTxn

\* No step of one handler disturbs another: the committed rows and ledger
\* entries the other relies on are those its locks protect.
LEMMA OthersStay ==
    ASSUME Inv, NEW c \in Conns, OthersKeep(c), waiting' = waiting,
           UNCHANGED store \/ Writes(c),
           NEW d \in Conns, d # c
    PROVE  HandlerInv(d)'
<1>1. HandlerInv(d) /\ HandlerInv(c) /\ TypeOK
  BY InvByHandler
<1>2. /\ pc'[d] = pc[d] /\ who'[d] = who[d] /\ batch'[d] = batch[d]
      /\ results'[d] = results[d] /\ seen'[d] = seen[d] /\ out'[d] = out[d]
      /\ \A k \in Keys : opLock[k] = d => opLock'[k] = d
      /\ \A i \in Inspections : rowLock[i] = d => rowLock'[i] = d
  BY DEF OthersKeep
<1>3. /\ Op(d)' = Op(d) /\ Target(d)' = Target(d)
      /\ MoreOps(d)' = MoreOps(d) /\ Malformed(Op(d))' = Malformed(Op(d))
  BY <1>2 DEF Op, Target, MoreOps, Malformed
<1>4. ASSUME pc[d] \in InTxn
      PROVE  Op(d) \in OpIds /\ Target(d) \in Inspections /\ Hash[Op(d)] \in Keys
  BY <1>1, <1>4, OpType DEF HandlerInv
<1>5. ASSUME pc[d] \in {"load", "decide", "commit"}
      PROVE  ledger'[Op(d)] = None
  <2>1. ledger[Op(d)] = None /\ pc[d] \in InTxn /\ opLock[Hash[Op(d)]] = d
    BY <1>1, <1>5 DEF HandlerInv, InTxn
  <2>2. CASE UNCHANGED store
    BY <2>1, <2>2 DEF store
  <2>3. CASE Writes(c)
    <3>1. opLock[Hash[Op(c)]] = c
      BY <1>1, <2>3 DEF HandlerInv, Writes, InTxn
    <3>2. Op(c) # Op(d)
      BY <2>1, <3>1
    <3> QED
      BY <2>1, <2>3, <3>2, <1>4, <1>1 DEF Writes, TypeOK
  <2> QED
    BY <2>2, <2>3
<1>6. ASSUME pc[d] \in InTxn, rowLock[Target(d)] = d
      PROVE  rows'[Target(d)] = rows[Target(d)]
  <2>1. CASE UNCHANGED store
    BY <2>1 DEF store
  <2>2. CASE Writes(c) /\ out[c].row # None
    <3>1. rowLock[Target(c)] = c
      BY <1>1, <2>2 DEF HandlerInv, Writes
    <3>2. Target(c) # Target(d)
      BY <1>6, <3>1
    <3> QED
      BY <2>2, <3>2, <1>4, <1>6, <1>1 DEF Writes, TypeOK
  <2>3. CASE Writes(c) /\ out[c].row = None
    BY <2>3 DEF Writes
  <2> QED
    BY <2>1, <2>2, <2>3
<1>7. ASSUME pc[d] \in InTxn
      PROVE  MoreOps(d)' /\ ~ Malformed(Op(d))' /\ opLock'[Hash[Op(d)]] = d
  BY <1>1, <1>2, <1>3, <1>4, <1>7 DEF HandlerInv
<1>8. ASSUME pc[d] = "decide", seen[d] # None
      PROVE  rowLock'[Target(d)] = d /\ seen[d] = rows'[Target(d)]
  BY <1>1, <1>2, <1>4, <1>6, <1>8 DEF HandlerInv, InTxn
<1>9. ASSUME pc[d] = "commit"
      PROVE  /\ out[d].status \in LedgeredStatus
             /\ out[d].row # None => rowLock'[Target(d)] = d
             /\ out[d] = Outcome(who[d], Op(d),
                                 IF out[d].row = None THEN None ELSE rows'[Target(d)],
                                 Target(d) \in waiting)
  BY <1>1, <1>2, <1>4, <1>6, <1>9 DEF HandlerInv, InTxn
<1> QED
  BY <1>1, <1>2, <1>3, <1>5, <1>7, <1>8, <1>9 DEF HandlerInv, InTxn

\* The end of one transaction takes no lock from another.
LEMMA ReleaseKeepsOthers ==
    ASSUME TypeOK, NEW c \in Conns, Release(c)
    PROVE  \A d \in Conns : d # c =>
              /\ seen'[d] = seen[d] /\ out'[d] = out[d]
              /\ \A k \in Keys : opLock[k] = d => opLock'[k] = d
              /\ \A i \in Inspections : rowLock[i] = d => rowLock'[i] = d
BY DEF Release, TypeOK

\* An answer, whatever the step does to the store.
LEMMA AnswerInv ==
    ASSUME Inv, NEW c \in Conns, NEW s \in AnswerStatus, pc[c] # "idle", MoreOps(c),
           Answer(c, s), UNCHANGED store \/ Writes(c)
    PROVE  \A d \in Conns : HandlerInv(d)'
<1>1. TypeOK /\ HandlerInv(c) /\ Release(c) /\ waiting' = waiting
  BY InvByHandler DEF Answer
<1>2. OthersKeep(c)
  BY <1>1, ReleaseKeepsOthers DEF OthersKeep, Answer, TypeOK, request
<1>3. HandlerInv(c)'
  <2>1. /\ results[c] \in Seq(AnswerStatus) /\ batch[c] \in Seq(OpIds)
        /\ results'[c] = Append(results[c], s) /\ batch'[c] = batch[c]
        /\ pc'[c] = "next" /\ who'[c] = who[c]
    BY <1>1 DEF Answer, TypeOK, request
  <2>2. Len(results'[c]) = Len(results[c]) + 1 /\ Len(results[c]) < Len(batch[c])
        /\ Len(results[c]) \in Nat /\ Len(batch[c]) \in Nat
    BY <2>1 DEF MoreOps
  <2>3. Len(results'[c]) <= Len(batch'[c])
    BY <2>1, <2>2
  <2> QED
    BY <1>1, <2>1, <2>3 DEF HandlerInv, InTxn
<1> QED
  BY <1>1, <1>2, <1>3, OthersStay

\* A handler that answers its request, or dies, keeps the invariant.
LEMMA LeaveInv ==
    ASSUME Inv, NEW c \in Conns, Leave(c)
    PROVE  \A d \in Conns : HandlerInv(d)'
<1>1. TypeOK /\ Release(c) /\ waiting' = waiting /\ UNCHANGED store
  BY InvByHandler DEF Leave
<1>2. OthersKeep(c)
  BY <1>1, ReleaseKeepsOthers DEF OthersKeep, Leave, TypeOK
<1>3. pc'[c] = "idle" /\ results'[c] = << >>
  BY <1>1 DEF Leave, TypeOK
<1>4. HandlerInv(c)'
  BY <1>3 DEF HandlerInv, InTxn
<1> QED
  BY <1>1, <1>2, <1>4, OthersStay

\* A commit keeps the invariant; it never meets an entry of its op id.
LEMMA CommitInv ==
    ASSUME Inv, NEW c \in Conns, NEW s \in AnswerStatus, CommitAnd(c, s)
    PROVE  \A d \in Conns : HandlerInv(d)'
<1>1. pc[c] = "commit" /\ MoreOps(c) /\ ledger[Op(c)] = None
  BY InvByHandler DEF CommitAnd, HandlerInv, InTxn
<1>2. Writes(c) /\ Answer(c, s)
  BY <1>1 DEF CommitAnd, Writes
<1> QED
  BY <1>1, <1>2, AnswerInv

\* A step of c that stays within its transaction and writes nothing.
LEMMA WithinTxn ==
    ASSUME Inv, NEW c \in Conns, OthersKeep(c), UNCHANGED <<store, waiting>>, HandlerInv(c)'
    PROVE  \A d \in Conns : HandlerInv(d)'
BY OthersStay

\* An upload handler's step: it may add an incomplete attachment only to an
\* inspection whose row nobody holds, and taking one away never changes an
\* outcome that is about to be committed.
LEMMA AttachmentInv ==
    ASSUME Inv, NEW i \in Inspections,
           \/ rows[i] # None /\ rowLock[i] = None /\ waiting' = waiting \cup {i}
           \/ i \in waiting /\ waiting' = waiting \ {i},
           UNCHANGED <<store, locks, pc, request, results, txn>>
    PROVE  \A d \in Conns : HandlerInv(d)'
<1> SUFFICES ASSUME NEW d \in Conns PROVE HandlerInv(d)'
  OBVIOUS
<1>1. TypeOK /\ HandlerInv(d)
  BY InvByHandler
<1>2. UNCHANGED <<rows, ledger, opLock, rowLock, pc, who, batch, results, seen, out>>
  BY DEF store, locks, request, txn
<1>3. Op(d)' = Op(d) /\ MoreOps(d)' = MoreOps(d) /\ Target(d)' = Target(d)
  BY <1>2 DEF Op, MoreOps, Target
<1> DEFINE base == IF out[d].row = None THEN None ELSE rows[Target(d)]
<1>4. ASSUME pc[d] = "commit"
      PROVE  out[d] = Outcome(who[d], Op(d), base, Target(d) \in waiting')
  <2>1. /\ who[d] \in Users /\ Op(d) \in OpIds /\ Target(d) \in Inspections
        /\ out[d] = Outcome(who[d], Op(d), base, Target(d) \in waiting)
        /\ out[d].status \in LedgeredStatus
        /\ out[d].row # None => rowLock[Target(d)] = d
    BY <1>1, <1>4, OpType DEF HandlerInv, InTxn
  <2>2. base \in Row \cup {None}
    BY <1>1, <2>1 DEF TypeOK
  <2>3. CASE (Target(d) \in waiting') = (Target(d) \in waiting)
    BY <2>1, <2>3
  <2>4. CASE Target(d) \in waiting' /\ Target(d) \notin waiting
    <3>1. rowLock[Target(d)] = None
      BY <2>4
    <3>2. out[d].row = None
      BY <2>1, <3>1, ConnsAssumption
    <3> QED
      BY <2>1, <3>2, AbsentIgnoresWaiting
  <2>5. CASE Target(d) \notin waiting' /\ Target(d) \in waiting
    <3>1. out[d] = Outcome(who[d], Op(d), base, TRUE)
      <4>1. (Target(d) \in waiting) = TRUE
        BY <2>5
      <4> QED
        BY <2>1, <4>1
    <3>2. out[d] = Outcome(who[d], Op(d), base, FALSE)
      BY <2>1, <2>2, <3>1, GateOnlyRefuses
    <3> QED
      <4>1. (Target(d) \in waiting') = FALSE
        BY <2>5
      <4> QED
        BY <3>2, <4>1
  <2> QED
    BY <2>3, <2>4, <2>5
<1> QED
  BY <1>1, <1>2, <1>3, <1>4 DEF HandlerInv, InTxn, Malformed

\* The invariant holds before any request.
LEMMA InitInv == Init => Inv
<1> SUFFICES ASSUME Init PROVE Inv
  OBVIOUS
<1>1. TypeOK
  BY InitType
<1>2. \A c \in Conns : pc[c] = "idle" /\ results[c] = << >>
  BY DEF Init
<1>3. \A c \in Conns : HandlerInv(c)
  BY <1>2 DEF HandlerInv, InTxn
<1> QED
  BY <1>1, <1>3, InvByHandler

\* Every step keeps what the invariant says of every handler.
LEMMA NextHandlers ==
    ASSUME Inv, Next
    PROVE  \A d \in Conns : HandlerInv(d)'
<1>0. TypeOK /\ \A c \in Conns : HandlerInv(c)
  BY InvByHandler
<1>1. ASSUME NEW c \in Conns, NEW u \in Users, NEW b \in Batches, Receive(c, u, b)
      PROVE  \A d \in Conns : HandlerInv(d)'
  <2>1. OthersKeep(c) /\ UNCHANGED <<store, waiting>>
    BY <1>0, <1>1 DEF OthersKeep, Receive, TypeOK, locks, txn
  <2>2. /\ pc'[c] = "next" /\ who'[c] = u /\ batch'[c] = b /\ results'[c] = << >>
    BY <1>0, <1>1 DEF Receive, TypeOK, HandlerInv
  <2>3. Len(results'[c]) <= Len(batch'[c])
    <3>1. b \in Seq(OpIds)
      BY BatchesAssumption
    <3>2. Len(b) \in Nat /\ Len(<< >>) = 0
      BY <3>1
    <3> QED
      BY <2>2, <3>2
  <2>4. HandlerInv(c)'
    BY <2>2, <2>3 DEF HandlerInv, InTxn
  <2> QED
    BY <2>1, <2>4, WithinTxn
<1>2. ASSUME NEW c \in Conns, Respond(c)
      PROVE  \A d \in Conns : HandlerInv(d)'
  BY <1>2, LeaveInv DEF Respond
<1>3. ASSUME NEW c \in Conns, RejectMalformed(c)
      PROVE  \A d \in Conns : HandlerInv(d)'
  BY <1>3, AnswerInv DEF RejectMalformed, AnswerStatus, OutcomeStatus, LedgeredStatus
<1>4. ASSUME NEW c \in Conns, LockOp(c)
      PROVE  \A d \in Conns : HandlerInv(d)'
  <2>1. Hash[Op(c)] \in Keys
    BY <1>0, <1>4, OpType DEF LockOp
  <2>2. OthersKeep(c) /\ UNCHANGED <<store, waiting>>
    BY <1>0, <1>4, ConnsAssumption DEF OthersKeep, LockOp, TypeOK, request, txn
  <2>3. /\ pc'[c] = "ledger" /\ who'[c] = who[c] /\ batch' = batch /\ results' = results
        /\ opLock'[Hash[Op(c)]] = c
    BY <1>0, <1>4, <2>1 DEF LockOp, TypeOK, request
  <2>4. Op(c)' = Op(c) /\ MoreOps(c)' = MoreOps(c)
    BY <2>3 DEF Op, MoreOps
  <2>5. HandlerInv(c)'
    BY <1>0, <1>4, <2>3, <2>4 DEF HandlerInv, InTxn, LockOp, Malformed
  <2> QED
    BY <2>2, <2>5, WithinTxn
<1>5. ASSUME NEW c \in Conns, Replay(c)
      PROVE  \A d \in Conns : HandlerInv(d)'
  <2>1. MoreOps(c)
    BY <1>0, <1>5 DEF Replay, HandlerInv, InTxn
  <2>2. ledger[Op(c)] \in Entries
    BY <1>0, <1>5, <2>1, OpType DEF Replay, TypeOK
  <2>3. ledger[Op(c)].status \in LedgeredStatus
    BY <2>2 DEF Entries
  <2>4. MarkDuplicate(ledger[Op(c)].status) \in AnswerStatus /\ "invalid" \in AnswerStatus
    BY <2>3 DEF MarkDuplicate, AnswerStatus, OutcomeStatus, LedgeredStatus
  <2> QED
    BY <1>5, <2>1, <2>4, AnswerInv DEF Replay
<1>6. ASSUME NEW c \in Conns, FirstDelivery(c)
      PROVE  \A d \in Conns : HandlerInv(d)'
  <2>1. OthersKeep(c) /\ UNCHANGED <<store, waiting>>
    BY <1>0, <1>6 DEF OthersKeep, FirstDelivery, TypeOK, locks, request, txn
  <2>2. /\ pc'[c] = "load" /\ who' = who /\ batch' = batch /\ results' = results
        /\ opLock' = opLock /\ ledger' = ledger
    BY <1>0, <1>6 DEF FirstDelivery, TypeOK, request, locks, store
  <2>3. Op(c)' = Op(c) /\ MoreOps(c)' = MoreOps(c)
    BY <2>2 DEF Op, MoreOps
  <2>4. HandlerInv(c)'
    BY <1>0, <1>6, <2>2, <2>3 DEF HandlerInv, InTxn, FirstDelivery, Malformed
  <2> QED
    BY <2>1, <2>4, WithinTxn
<1>7. ASSUME NEW c \in Conns, LoadRow(c)
      PROVE  \A d \in Conns : HandlerInv(d)'
  <2>1. Target(c) \in Inspections /\ pc[c] = "load"
    BY <1>0, <1>7, OpType DEF LoadRow, HandlerInv, InTxn
  <2>2. OthersKeep(c) /\ UNCHANGED <<store, waiting>>
    BY <1>0, <1>7, <2>1, ConnsAssumption DEF OthersKeep, LoadRow, TypeOK, request
  <2>3. /\ pc'[c] = "decide" /\ who' = who /\ batch' = batch /\ results' = results
        /\ opLock' = opLock /\ ledger' = ledger /\ rows' = rows
        /\ seen'[c] = rows[Target(c)]
        /\ rows[Target(c)] # None => rowLock'[Target(c)] = c
    BY <1>0, <1>7, <2>1 DEF LoadRow, TypeOK, request, store
  <2>4. Op(c)' = Op(c) /\ MoreOps(c)' = MoreOps(c) /\ Target(c)' = Target(c)
    BY <2>3 DEF Op, MoreOps, Target
  <2>5. HandlerInv(c)'
    BY <1>0, <2>1, <2>3, <2>4 DEF HandlerInv, InTxn, Malformed
  <2> QED
    BY <2>2, <2>5, WithinTxn
<1>8. ASSUME NEW c \in Conns, Decide(c)
      PROVE  \A d \in Conns : HandlerInv(d)'
  <2>1. /\ pc[c] = "decide" /\ MoreOps(c) /\ who[c] \in Users /\ ~ Creates(c)
        /\ Op(c) \in OpIds /\ Target(c) \in Inspections
        /\ seen[c] \in Row \cup {None}
    BY <1>0, <1>8, OpType DEF Decide, HandlerInv, InTxn, TypeOK
  <2>2. Decision(c) \in Outcomes /\ (Decision(c).row = None => seen[c] = None)
    <3>1. (Target(c) \in waiting) \in BOOLEAN
      OBVIOUS
    <3> QED
      BY <2>1, <3>1, OutcomeType DEF Decision
  <2>3. CASE Decision(c).status \notin LedgeredStatus
    <3>1. Decision(c).status \in AnswerStatus
      BY <2>2 DEF AnswerStatus, Outcomes
    <3> QED
      BY <1>8, <2>1, <2>3, <3>1, AnswerInv DEF Decide
  <2>4. CASE Decision(c).status \in LedgeredStatus
    <3>1. /\ out' = [out EXCEPT ![c] = Decision(c)]
          /\ pc' = [pc EXCEPT ![c] = "commit"]
          /\ UNCHANGED <<store, waiting, locks, request, results, seen>>
      BY <1>8, <2>4 DEF Decide
    <3>2. OthersKeep(c)
      BY <1>0, <3>1 DEF OthersKeep, TypeOK, locks, request
    <3>3. /\ pc'[c] = "commit" /\ out'[c] = Decision(c) /\ who' = who /\ batch' = batch
          /\ results' = results /\ opLock' = opLock /\ rowLock' = rowLock
          /\ rows' = rows /\ ledger' = ledger /\ waiting' = waiting
      BY <1>0, <3>1 DEF TypeOK, locks, request, store
    <3>4. Op(c)' = Op(c) /\ MoreOps(c)' = MoreOps(c) /\ Target(c)' = Target(c)
      BY <3>3 DEF Op, MoreOps, Target
    <3>5. Decision(c).row # None => /\ rowLock[Target(c)] = c
                                    /\ seen[c] = rows[Target(c)]
      BY <1>0, <2>1 DEF Creates, HandlerInv
    <3>6. Decision(c) = Outcome(who[c], Op(c),
                                IF Decision(c).row = None THEN None ELSE rows[Target(c)],
                                Target(c) \in waiting)
      BY <2>2, <3>5 DEF Decision
    <3>7. HandlerInv(c)'
      BY <1>0, <2>1, <2>4, <3>3, <3>4, <3>5, <3>6 DEF HandlerInv, InTxn, Malformed
    <3> QED
      BY <3>1, <3>2, <3>7, WithinTxn
  <2> QED
    BY <2>3, <2>4
<1>9. ASSUME NEW c \in Conns, Create(c)
      PROVE  \A d \in Conns : HandlerInv(d)'
  <2>1. /\ pc[c] = "decide" /\ MoreOps(c) /\ who[c] \in Users
        /\ seen[c] = None /\ Decision(c).row # None
        /\ Op(c) \in OpIds /\ Target(c) \in Inspections
    BY <1>0, <1>9, OpType DEF Create, Creates, HandlerInv, InTxn, TypeOK
  <2>2. CASE rows[Target(c)] # None
    BY <1>9, <2>1, <2>2, AnswerInv DEF Create, AnswerStatus, OutcomeStatus
  <2>3. CASE rows[Target(c)] = None
    <3>1. /\ rowLock' = [rowLock EXCEPT ![Target(c)] = c]
          /\ rowLock[Target(c)] = None
          /\ out' = [out EXCEPT ![c] = Decision(c)]
          /\ pc' = [pc EXCEPT ![c] = "commit"]
          /\ UNCHANGED <<store, waiting, opLock, request, results, seen>>
      BY <1>9, <2>3 DEF Create
    <3>2. OthersKeep(c)
      BY <1>0, <2>1, <3>1, ConnsAssumption DEF OthersKeep, TypeOK, request
    <3>3. /\ pc'[c] = "commit" /\ out'[c] = Decision(c) /\ who' = who /\ batch' = batch
          /\ results' = results /\ opLock' = opLock /\ rowLock'[Target(c)] = c
          /\ rows' = rows /\ ledger' = ledger /\ waiting' = waiting
      BY <1>0, <2>1, <3>1 DEF TypeOK, request, store
    <3>4. Op(c)' = Op(c) /\ MoreOps(c)' = MoreOps(c) /\ Target(c)' = Target(c)
      BY <3>3 DEF Op, MoreOps, Target
    <3>5. Decision(c).status \in LedgeredStatus
      <4>1. (Target(c) \in waiting) \in BOOLEAN
        OBVIOUS
      <4>2. Decision(c) = Outcome(who[c], Op(c), None, Target(c) \in waiting)
        BY <2>1 DEF Decision
      <4> QED
        BY <2>1, <4>1, <4>2, CreationIsLedgered
    <3>6. Decision(c) = Outcome(who[c], Op(c), rows[Target(c)], Target(c) \in waiting)
      BY <2>1, <2>3 DEF Decision
    <3>7. HandlerInv(c)'
      BY <1>0, <2>1, <3>3, <3>4, <3>5, <3>6 DEF HandlerInv, InTxn, Malformed
    <3> QED
      BY <3>1, <3>2, <3>7, WithinTxn
  <2> QED
    BY <2>2, <2>3
<1>10. ASSUME NEW c \in Conns, Commit(c)
       PROVE  \A d \in Conns : HandlerInv(d)'
  <2>1. out[c].status \in AnswerStatus
    BY <1>0 DEF TypeOK, AnswerStatus
  <2> QED
    BY <1>10, <2>1, CommitInv DEF Commit
<1>11. ASSUME NEW c \in Conns, CommitUnacked(c)
       PROVE  \A d \in Conns : HandlerInv(d)'
  BY <1>11, CommitInv DEF CommitUnacked, AnswerStatus, OutcomeStatus
<1>12. ASSUME NEW c \in Conns, Fail(c)
       PROVE  \A d \in Conns : HandlerInv(d)'
  BY <1>12, AnswerInv DEF Fail, AnswerStatus, OutcomeStatus
<1>13. ASSUME NEW c \in Conns, Abandon(c)
       PROVE  \A d \in Conns : HandlerInv(d)'
  BY <1>13, LeaveInv DEF Abandon
<1>14. ASSUME NEW i \in Inspections, OpenAttachment(i)
       PROVE  \A d \in Conns : HandlerInv(d)'
  BY <1>14, AttachmentInv DEF OpenAttachment
<1>15. ASSUME NEW i \in Inspections, CompleteAttachments(i)
       PROVE  \A d \in Conns : HandlerInv(d)'
  BY <1>15, AttachmentInv DEF CompleteAttachments
<1> QED
  BY <1>1, <1>2, <1>3, <1>4, <1>5, <1>6, <1>7, <1>8, <1>9, <1>10, <1>11, <1>12, <1>13,
     <1>14, <1>15 DEF Next, Handle

\* The inductive invariant holds in every reachable state.
THEOREM Invariance == Spec => []Inv
<1>1. Inv /\ [Next]_vars => Inv'
  <2> SUFFICES ASSUME Inv, [Next]_vars PROVE Inv'
    OBVIOUS
  <2>1. CASE Next
    <3>1. TypeOK /\ LocksHeld
      BY DEF Inv
    <3>2. TypeOK'
      BY <2>1, <3>1, NextType
    <3> QED
      BY <2>1, <3>2, NextHandlers, InvByHandler
  <2>2. CASE UNCHANGED vars
    BY <2>2 DEF vars, Inv, TypeOK, LocksHeld, NoLedgerClash, DecisionIsFresh, MoreOps, Op,
                Target, Malformed
  <2> QED
    BY <2>1, <2>2
<1> QED
  BY InitInv, <1>1, PTL DEF Spec

\* Every variable keeps its type.
THEOREM TypeCorrect == Spec => []TypeOK
BY Invariance, PTL DEF Inv

\* Transactions hold the locks their place presumes.
THEOREM LockSafety == Spec => []LocksHeld
BY Invariance, PTL DEF Inv

\* No delivery of an op ever meets the ledger's primary key.
THEOREM AtMostOnce == Spec => []NoLedgerClash
BY Invariance, PTL DEF Inv

\* What is about to be committed is what the committed state dictates.
THEOREM Freshness == Spec => []DecisionIsFresh
BY Invariance, PTL DEF Inv
=============================================================================
