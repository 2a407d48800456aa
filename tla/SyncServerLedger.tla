-------------------------- MODULE SyncServerLedger --------------------------
(***************************************************************************)
(* What the ledger of SyncServer stands for, for every value of the        *)
(* constants: the answers a handler has given, and the lineage of every    *)
(* value and every conflict in the rows.  Both rest on the ledger growing  *)
(* by new entries only; the lineage on the refinement of AtomicSync, by    *)
(* which a row changes only as an outcome says.                            *)
(***************************************************************************)
EXTENDS SyncServerRefinement

\* No step changes or removes an entry of the ledger.
LEMMA LedgerGrows ==
    ASSUME Inv, Next, NEW id \in OpIds, ledger[id] # None
    PROVE  ledger'[id] = ledger[id]
<1>1. ASSUME NEW c \in Conns, Writes(c)
      PROVE  ledger'[id] = ledger[id]
  <2>1. TypeOK /\ ledger[Op(c)] = None
    BY <1>1 DEF Inv, Writes, NoLedgerClash
  <2> QED
    BY <1>1, <2>1 DEF Writes, TypeOK
<1> QED
  BY <1>1, StoreStep DEF store

-----------------------------------------------------------------------------
(* Answers *)

\* What AnswersAreDurable says of the answer s to operation id of user u, if
\* entry is what the ledger has of it.
Stands(entry, u, id, s) ==
    LET mine == entry # None /\ entry.user = u
    IN  /\ s \in LedgeredStatus \ {"invalid"} => mine /\ entry.status = s
        /\ s = "duplicate" => mine /\ MarkDuplicate(entry.status) = "duplicate"
        /\ s = "invalid" =>
              \/ Malformed(id)
              \/ entry # None /\ (mine => entry.status = "invalid")

HandlerAnswers(c) ==
    \A j \in DOMAIN results[c] :
        Stands(ledger[batch[c][j]], who[c], batch[c][j], results[c][j])

AnswersStand == \A c \in Conns : HandlerAnswers(c)

\* What an answer stands for is not taken back.
LEMMA StandsOn ==
    ASSUME Inv, Next, NEW u, NEW id \in OpIds, NEW s, Stands(ledger[id], u, id, s)
    PROVE  Stands(ledger'[id], u, id, s)
<1>1. CASE ledger[id] # None
  BY <1>1, LedgerGrows
<1>2. CASE ledger[id] = None
  BY <1>2 DEF Stands
<1> QED
  BY <1>1, <1>2

\* The answers a handler has given stand, if it keeps its request.
LEMMA AnswersStandOn ==
    ASSUME Inv, Next, NEW c \in Conns, HandlerAnswers(c),
           who'[c] = who[c], batch'[c] = batch[c], NEW j \in DOMAIN results[c]
    PROVE  Stands(ledger'[batch'[c][j]], who'[c], batch'[c][j], results[c][j])
<1>1. Len(results[c]) <= Len(batch[c]) /\ TypeOK
  BY DEF Inv, LocksHeld
<1>2. batch[c][j] \in OpIds
  BY <1>1 DEF TypeOK
<1> QED
  BY <1>2, StandsOn DEF HandlerAnswers

\* A handler that answers its operation, with an answer that stands, keeps all.
LEMMA AnswerGiven ==
    ASSUME Inv, Next, NEW c \in Conns, AnswersStand,
           MoreOps(c), NEW s \in AnswerStatus, Answer(c, s),
           Stands(ledger'[Op(c)], who[c], Op(c), s)
    PROVE  AnswersStand'
<1>1. /\ TypeOK
      /\ who' = who /\ batch' = batch
      /\ results' = [results EXCEPT ![c] = Append(@, s)]
  BY DEF Inv, Answer, request
<1>2. ASSUME NEW d \in Conns, d # c
      PROVE  HandlerAnswers(d)'
  <2>1. results'[d] = results[d] /\ who'[d] = who[d] /\ batch'[d] = batch[d]
    BY <1>1, <1>2 DEF TypeOK
  <2> QED
    BY <2>1, <1>2, AnswersStandOn DEF AnswersStand, HandlerAnswers
<1>3. HandlerAnswers(c)'
  <2> DEFINE n == Len(results[c])
  <2>1. /\ results[c] \in Seq(AnswerStatus) /\ n \in Nat
        /\ results'[c] = Append(results[c], s)
    BY <1>1 DEF TypeOK
  <2>2. /\ DOMAIN results'[c] = 1 .. n + 1
        /\ DOMAIN results[c] = 1 .. n
        /\ results'[c][n + 1] = s
        /\ \A j \in 1 .. n : results'[c][j] = results[c][j]
    BY <2>1
  <2>3. batch'[c][n + 1] = Op(c)
    BY <1>1 DEF Op
  <2> SUFFICES ASSUME NEW j \in 1 .. n + 1
               PROVE  Stands(ledger'[batch'[c][j]], who'[c], batch'[c][j], results'[c][j])
    BY <2>2 DEF HandlerAnswers
  <2>4. CASE j \in 1 .. n
    BY <1>1, <2>2, <2>4, AnswersStandOn DEF AnswersStand
  <2>5. CASE j = n + 1
    BY <1>1, <2>2, <2>3, <2>5
  <2> QED
    BY <2>1, <2>4, <2>5
<1> QED
  BY <1>2, <1>3 DEF AnswersStand

\* A handler that is gone has given no answers.
LEMMA LeftAnswers ==
    ASSUME Inv, Next, NEW c \in Conns, AnswersStand, Leave(c)
    PROVE  AnswersStand'
<1>1. TypeOK
  BY DEF Inv
<1>2. ASSUME NEW d \in Conns, d # c
      PROVE  HandlerAnswers(d)'
  <2>1. who'[d] = who[d] /\ batch'[d] = batch[d] /\ results'[d] = results[d]
    BY <1>1, <1>2 DEF Leave, TypeOK
  <2> QED
    BY <1>2, <2>1, AnswersStandOn DEF AnswersStand, HandlerAnswers
<1>3. HandlerAnswers(c)'
  BY <1>1 DEF Leave, TypeOK, HandlerAnswers
<1> QED
  BY <1>2, <1>3 DEF AnswersStand

\* A commit answers what it writes into the ledger, or that it does not know.
LEMMA CommitAnswers ==
    ASSUME Inv, Next, NEW c \in Conns, AnswersStand,
           NEW s \in AnswerStatus, s \in {out[c].status, "error"}, CommitAnd(c, s)
    PROVE  AnswersStand'
<1>1. /\ TypeOK /\ pc[c] = "commit" /\ MoreOps(c) /\ ledger[Op(c)] = None
      /\ who[c] \in Users /\ out[c].status \in LedgeredStatus
  BY DEF Inv, CommitAnd, LocksHeld, NoLedgerClash
<1>2. Op(c) \in OpIds /\ out[c] \in Outcomes
  BY <1>1, OpType DEF TypeOK, Outcomes
<1>3. /\ ledger' = [ledger EXCEPT ![Op(c)] = Entry(who[c], out[c])]
      /\ Answer(c, s)
  BY <1>1 DEF CommitAnd
<1>4. /\ ledger'[Op(c)] # None
      /\ ledger'[Op(c)].user = who[c]
      /\ ledger'[Op(c)].status = out[c].status
  BY <1>1, <1>2, <1>3, EntryType DEF TypeOK, Entry
<1>5. Stands(ledger'[Op(c)], who[c], Op(c), s)
  BY <1>1, <1>4 DEF Stands, LedgeredStatus
<1> QED
  BY <1>1, <1>3, <1>5, AnswerGiven

\* A replay answers what the ledger has, or refuses another user's operation.
LEMMA ReplayAnswers ==
    ASSUME Inv, Next, NEW c \in Conns, AnswersStand, Replay(c)
    PROVE  AnswersStand'
<1> DEFINE s == IF ledger[Op(c)].user = who[c] THEN MarkDuplicate(ledger[Op(c)].status)
                ELSE "invalid"
<1>1. TypeOK /\ MoreOps(c) /\ ledger[Op(c)] # None /\ ledger' = ledger /\ Answer(c, s)
  BY DEF Inv, Replay, LocksHeld, store
<1>2. ledger[Op(c)].status \in LedgeredStatus
  <2>1. ledger[Op(c)] \in Entries
    BY <1>1, OpType DEF TypeOK
  <2> QED
    BY <2>1 DEF Entries
<1>3. s \in AnswerStatus
  BY <1>2 DEF MarkDuplicate, AnswerStatus, OutcomeStatus, LedgeredStatus
<1>4. Stands(ledger'[Op(c)], who[c], Op(c), s)
  BY <1>1, <1>2 DEF Stands, MarkDuplicate, LedgeredStatus
<1> QED
  BY <1>1, <1>3, <1>4, AnswerGiven

\* An answer that is not ledgered promises nothing.
LEMMA OtherAnswers ==
    ASSUME Inv, Next, NEW c \in Conns, AnswersStand, MoreOps(c),
           NEW s \in OutcomeStatus \ LedgeredStatus, Answer(c, s)
    PROVE  AnswersStand'
<1>1. s \in AnswerStatus /\ Stands(ledger'[Op(c)], who[c], Op(c), s)
  BY DEF AnswerStatus, OutcomeStatus, Stands, LedgeredStatus
<1> QED
  BY <1>1, AnswerGiven

\* A handler that gives no answer keeps those it gave.
LEMMA NoAnswers ==
    ASSUME Inv, Next, AnswersStand, UNCHANGED <<request, results>>
    PROVE  AnswersStand'
<1> SUFFICES ASSUME NEW d \in Conns PROVE HandlerAnswers(d)'
  BY DEF AnswersStand
<1>1. who'[d] = who[d] /\ batch'[d] = batch[d] /\ results'[d] = results[d]
  BY DEF request
<1> QED
  BY <1>1, AnswersStandOn DEF AnswersStand, HandlerAnswers

\* Nothing a response reports can be lost, replayed differently or belong to
\* another user.
THEOREM AnswerSafety == Spec => []AnswersAreDurable
<1>1. Init => AnswersStand
  BY DEF Init, AnswersStand, HandlerAnswers
<1>2. Inv /\ AnswersStand /\ [Next]_vars => AnswersStand'
  <2> SUFFICES ASSUME Inv, AnswersStand, [Next]_vars PROVE AnswersStand'
    OBVIOUS
  <2>1. CASE UNCHANGED vars
    BY <2>1 DEF vars, AnswersStand, HandlerAnswers
  <2> SUFFICES ASSUME Next PROVE AnswersStand'
    BY <2>1
  <2>2. TypeOK
    BY DEF Inv
  <2>3. "error" \in OutcomeStatus \ LedgeredStatus
    BY DEF OutcomeStatus, LedgeredStatus
  <2>4. ASSUME NEW c \in Conns, NEW u \in Users, NEW b \in Batches, Receive(c, u, b)
        PROVE  AnswersStand'
    <3> SUFFICES ASSUME NEW d \in Conns PROVE HandlerAnswers(d)'
      BY DEF AnswersStand
    <3>1. CASE d = c
      BY <2>4, <3>1 DEF Inv, LocksHeld, Receive, HandlerAnswers
    <3>2. CASE d # c
      <4>1. who'[d] = who[d] /\ batch'[d] = batch[d] /\ results'[d] = results[d]
        BY <2>2, <2>4, <3>2 DEF Receive, TypeOK
      <4> QED
        BY <4>1, AnswersStandOn DEF AnswersStand, HandlerAnswers
    <3> QED
      BY <3>1, <3>2
  <2>5. ASSUME NEW c \in Conns, Respond(c) \/ Abandon(c)
        PROVE  AnswersStand'
    BY <2>5, LeftAnswers DEF Respond, Abandon
  <2>6. ASSUME NEW c \in Conns, RejectMalformed(c)
        PROVE  AnswersStand'
    <3>1. MoreOps(c) /\ Answer(c, "invalid") /\ "invalid" \in AnswerStatus
      BY <2>6 DEF RejectMalformed, AnswerStatus, OutcomeStatus, LedgeredStatus
    <3>2. Stands(ledger'[Op(c)], who[c], Op(c), "invalid")
      BY <2>6 DEF RejectMalformed, Stands
    <3> QED
      BY <3>1, <3>2, AnswerGiven
  <2>7. ASSUME NEW c \in Conns, LockOp(c) \/ FirstDelivery(c) \/ LoadRow(c)
        PROVE  AnswersStand'
    BY <2>7, NoAnswers DEF LockOp, FirstDelivery, LoadRow
  <2>8. ASSUME NEW c \in Conns, Decide(c)
        PROVE  AnswersStand'
    <3> DEFINE s == Decision(c).status
    <3>1. MoreOps(c) /\ s \in OutcomeStatus
      BY <2>2, <2>8, DecisionType DEF Decide, Inv, LocksHeld, Outcomes
    <3>2. \/ UNCHANGED <<request, results>>
          \/ s \notin LedgeredStatus /\ Answer(c, s)
      BY <2>8 DEF Decide
    <3> HIDE DEF s
    <3> QED
      BY <3>1, <3>2, OtherAnswers, NoAnswers
  <2>9. ASSUME NEW c \in Conns, Create(c)
        PROVE  AnswersStand'
    <3>1. MoreOps(c)
      BY <2>9 DEF Create, Inv, LocksHeld
    <3>2. UNCHANGED <<request, results>> \/ Answer(c, "error")
      BY <2>9 DEF Create
    <3> QED
      BY <2>3, <3>1, <3>2, OtherAnswers, NoAnswers
  <2>10. ASSUME NEW c \in Conns, Commit(c) \/ CommitUnacked(c)
         PROVE  AnswersStand'
    <3>1. out[c].status \in AnswerStatus /\ "error" \in AnswerStatus
      BY <2>2 DEF TypeOK, AnswerStatus, OutcomeStatus
    <3> QED
      BY <2>10, <3>1, CommitAnswers DEF Commit, CommitUnacked
  <2>11. ASSUME NEW c \in Conns, Fail(c)
         PROVE  AnswersStand'
    <3>1. MoreOps(c) /\ Answer(c, "error")
      BY <2>11 DEF Fail
    <3> QED
      BY <2>3, <3>1, OtherAnswers
  <2>12. ASSUME NEW i \in Inspections, OpenAttachment(i) \/ CompleteAttachments(i)
         PROVE  AnswersStand'
    BY <2>12, NoAnswers DEF OpenAttachment, CompleteAttachments
  <2> QED
    BY <2>4, <2>5, <2>6, <2>7, <2>8, <2>9, <2>10, <2>11, <2>12, ReplayAnswers DEF Next, Handle
<1>3. AnswersStand => AnswersAreDurable
  BY DEF AnswersStand, HandlerAnswers, Stands, AnswersAreDurable
<1> QED
  BY <1>1, <1>2, <1>3, Invariance, PTL DEF Spec

-----------------------------------------------------------------------------
(* Lineage *)

\* Where the lineage of a field comes from when the operation id leaves row
\* new with this status, old being the row it met, or None.
Descends(new, old, id, status, f) ==
    /\ \/ new.by[f] = id /\ status \in {"applied", "conflict"}
       \/ old # None /\ new.by[f] = old.by[f]
    /\ LET cf == new.conflict[f]
       IN  cf # None =>
              \/ old # None /\ cf = old.conflict[f]
              \/ /\ cf.clientOp = id /\ status = "conflict"
                 /\ \/ cf.serverOp = id
                    \/ old # None /\ cf.serverOp = old.by[f]
                    \/ old # None /\ old.conflict[f] # None
                       /\ cf.serverOp = old.conflict[f].serverOp

\* What the merge m of operation id into row takes its lineage from.
TakesLineage(m, row, id, f) ==
    /\ m.row.owner = row.owner
    /\ m.status \in {"applied", "conflict"}
    /\ m.row.by[f] = id \/ m.row.by[f] = row.by[f]
    /\ \/ m.row.conflict[f] = row.conflict[f]
       \/ /\ m.status = "conflict"
          /\ m.row.conflict[f].clientOp = id
          /\ m.row.conflict[f].serverOp = row.by[f]

\* A merge takes lineage from its operation and from the row it meets,
\* whether or not the operation has just made that row.
LEMMA MergeLineage ==
    ASSUME NEW id \in OpIds, NEW row \in Row, NEW f \in Editable
    PROVE  /\ TakesLineage(Merge(id, row, FALSE), row, id, f)
           /\ TakesLineage(Merge(id, row, TRUE), row, id, f)
<1> DEFINE ch == OpOf[id].changes
           ff == FieldsWith("apply", ch, row)
           cf == FieldsWith("conflict", ch, row)
<1>2. LET r == RecordConflict(row, f, ch[f].v, id)
      IN  r.clientOp = id /\ r.serverOp = row.by[f]
  BY DEF RecordConflict
<1>3. ASSUME NEW m,
             /\ m.row.owner = row.owner
             /\ m.row.by = [g \in Editable |-> IF g \in ff THEN id ELSE row.by[g]]
             /\ m.row.conflict = [g \in Editable |->
                                     IF g \in cf
                                     THEN RecordConflict(row, g, ch[g].v, id)
                                     ELSE row.conflict[g]]
             /\ m.status = IF cf = {} THEN "applied" ELSE "conflict"
      PROVE  TakesLineage(m, row, id, f)
  <2> HIDE DEF ff, cf, ch
  <2> QED
    BY <1>2, <1>3 DEF TakesLineage
<1>4. TakesLineage(Merge(id, row, FALSE), row, id, f)
  BY <1>3 DEF Merge
<1>5. TakesLineage(Merge(id, row, TRUE), row, id, f)
  BY <1>3 DEF Merge
<1> QED
  BY <1>4, <1>5

\* A row that an operation leaves otherwise than it met it, or that it made,
\* is of the operation's user, and descends from the operation and the row
\* it met.
LEMMA OutcomeLineage ==
    ASSUME NEW u \in Users, NEW id \in OpIds, NEW row \in Row \cup {None}, NEW w \in BOOLEAN,
           Outcome(u, id, row, w).row # None, Outcome(u, id, row, w).row # row,
           NEW f \in Editable
    PROVE  LET o == Outcome(u, id, row, w)
           IN  /\ o.row.owner = u
               /\ row # None => row.owner = u
               /\ Descends(o.row, row, id, o.status, f)
<1> DEFINE o  == Outcome(u, id, row, w)
           op == OpOf[id]
<1>0. \A s, r : Reply(s, r).row = r /\ Reply(s, r).status = s
  BY DEF Reply
<1> SUFFICES /\ o.row.owner = u
             /\ row # None => row.owner = u
             /\ Descends(o.row, row, id, o.status, f)
  OBVIOUS
<1>00. o.row # None /\ o.row # row
  OBVIOUS
<1> HIDE DEF o
<1>1. CASE op.type = "resolve_conflict"
  <2> DEFINE g == op.field
             settled == [row EXCEPT !.val[g] = op.value, !.by[g] = id,
                                    !.conflict[g] = None, !.rev = @ + 1]
  <2>1. o = ApplyResolve(u, id, row)
    BY <1>1 DEF o, Outcome
  <2>2. /\ row # None /\ g \in Editable /\ row.owner = u
        /\ o = Reply("applied", settled)
    BY <1>0, <1>00, <2>1 DEF ApplyResolve
  <2>3. row \in Row
    BY <2>2
  <2>4. /\ settled.owner = row.owner
        /\ settled.by = [row.by EXCEPT ![g] = id]
        /\ settled.conflict = [row.conflict EXCEPT ![g] = None]
    BY <2>3 DEF Row
  <2>5. /\ settled.by[f] = id \/ settled.by[f] = row.by[f]
        /\ settled.conflict[f] = None \/ settled.conflict[f] = row.conflict[f]
    BY <2>3, <2>4 DEF Row
  <2>6. o.row = settled /\ o.status = "applied"
    BY <1>0, <2>2
  <2> HIDE DEF settled
  <2> QED
    BY <2>2, <2>4, <2>5, <2>6 DEF Descends
<1>2. CASE op.type # "resolve_conflict" /\ row = None
  <2> DEFINE new == CreateInspection(u, id)
             m == Merge(id, new, TRUE)
  <2>1. o = ApplyToAbsent(u, id)
    BY <1>2 DEF o, Outcome
  <2>2. ValidateChanges(op.changes, TRUE) /\ o = ApplyUpsert(id, new, TRUE, FALSE)
    BY <1>0, <1>00, <1>2, <2>1 DEF ApplyToAbsent
  <2>3. o = m
    BY <1>00, <2>2, CreationMerges
  <2>4. /\ new \in Row /\ new.owner = u
        /\ new.by[f] = id /\ new.conflict[f] = None
    BY <2>2, CreateInspectionType DEF CreateInspection
  <2> HIDE DEF new
  <2>5. /\ m.row.owner = u /\ m.status \in {"applied", "conflict"} /\ m.row.by[f] = id
        /\ m.row.conflict[f] = None \/ /\ m.status = "conflict"
                                       /\ m.row.conflict[f].clientOp = id
                                       /\ m.row.conflict[f].serverOp = id
    <3>1. TakesLineage(m, new, id, f)
      BY <2>4, MergeLineage
    <3> QED
      BY <2>4, <3>1 DEF TakesLineage
  <2> HIDE DEF m
  <2> QED
    BY <1>2, <2>3, <2>5 DEF Descends
<1>3. CASE op.type # "resolve_conflict" /\ row # None
  <2>1. row \in Row /\ o = ApplyToRow(u, id, row, w)
    BY <1>3 DEF o, Outcome
  <2>2. row.owner = u
    BY <1>0, <1>00, <2>1 DEF ApplyToRow
  <2>3. CASE op.type = "delete"
    <3> DEFINE dead == [row EXCEPT !.deleted = TRUE, !.rev = @ + 1]
    <3>1. o = Reply("deleted", dead)
      BY <1>0, <1>00, <2>1, <2>3 DEF ApplyToRow
    <3>2. dead.owner = row.owner /\ dead.by = row.by /\ dead.conflict = row.conflict
      BY <2>1 DEF Row
    <3>3. o.row = dead
      BY <1>0, <3>1
    <3> HIDE DEF dead
    <3> QED
      BY <1>3, <2>2, <3>2, <3>3 DEF Descends
  <2>4. CASE op.type # "delete"
    <3> DEFINE m == Merge(id, row, FALSE)
    <3>1. o = ApplyUpsert(id, row, FALSE, w)
      BY <1>0, <1>00, <2>1, <2>2, <2>4 DEF ApplyToRow
    <3>2. o = m
      BY <1>00, <3>1, UpsertMerges
    <3>3. TakesLineage(m, row, id, f)
      BY <2>1, MergeLineage
    <3> HIDE DEF m
    <3> QED
      BY <1>3, <2>1, <2>2, <3>2, <3>3 DEF TakesLineage, Descends
  <2> QED
    BY <2>3, <2>4
<1> QED
  BY <1>1, <1>2, <1>3

\* A step that changes a row enters into the ledger what it did to that row.
LEMMA RowStepIsLedgered ==
    ASSUME Inv, Next, NEW i \in Inspections, rows'[i] # rows[i]
    PROVE  \E u \in Users, id \in OpIds, w \in BOOLEAN :
              LET o == Outcome(u, id, rows[i], w)
              IN  /\ OpOf[id].insp = i
                  /\ rows'[i] = o.row /\ o.row # None
                  /\ ledger'[id] # None
                  /\ ledger'[id].user = u /\ ledger'[id].status = o.status
<1>1. PICK c \in Conns : Writes(c)
  BY StoreStep DEF store
<1> DEFINE u  == who[c]
           id == Op(c)
<1>2. /\ TypeOK /\ MoreOps(c) /\ u \in Users
      /\ ledger[id] = None /\ out[c].status \in LedgeredStatus
      /\ out[c] = Outcome(u, id, IF out[c].row = None THEN None ELSE rows[Target(c)],
                          Target(c) \in waiting)
  BY <1>1 DEF Inv, Writes, LocksHeld, NoLedgerClash, DecisionIsFresh
<1>3. id \in OpIds /\ Target(c) \in Inspections /\ OpOf[id].insp = Target(c)
  BY <1>2, OpType DEF Target
<1>4. i = Target(c) /\ rows'[i] = out[c].row /\ out[c].row # None
  BY <1>1, <1>2, <1>3 DEF Writes, TypeOK
<1>5. ledger'[id] # None /\ ledger'[id].user = u /\ ledger'[id].status = out[c].status
  <2>1. Entry(u, out[c]) # None
    BY <1>2, EntryType DEF TypeOK, Outcomes
  <2>2. ledger'[id] = Entry(u, out[c])
    BY <1>1, <1>2, <1>3 DEF Writes, TypeOK
  <2> QED
    BY <2>1, <2>2 DEF Entry
<1>6. out[c] = Outcome(u, id, rows[i], TRUE) \/ out[c] = Outcome(u, id, rows[i], FALSE)
  <2>1. out[c] = Outcome(u, id, rows[i], i \in waiting)
    BY <1>2, <1>4
  <2>2. (i \in waiting) = TRUE \/ (i \in waiting) = FALSE
    OBVIOUS
  <2> QED
    BY <2>1, <2>2
<1>7. ASSUME NEW w \in BOOLEAN, out[c] = Outcome(u, id, rows[i], w)
      PROVE  \E v \in Users, op \in OpIds, x \in BOOLEAN :
                LET o == Outcome(v, op, rows[i], x)
                IN  /\ OpOf[op].insp = i
                    /\ rows'[i] = o.row /\ o.row # None
                    /\ ledger'[op] # None
                    /\ ledger'[op].user = v /\ ledger'[op].status = o.status
  <2> HIDE DEF u, id
  <2> QED
    BY <1>2, <1>3, <1>4, <1>5, <1>7
<1> QED
  BY <1>6, <1>7

\* What LineageIsLedgered says of operation id in the row that owner has of
\* inspection i, if entry is what the ledger has of it.
Backs(entry, id, i, owner, statuses) ==
    id = SeedOp \/ /\ OpOf[id].insp = i
                   /\ entry # None
                   /\ entry.user = owner
                   /\ entry.status \in statuses

Backed(row, i, book) ==
    \A f \in Editable :
        LET cf == row.conflict[f]
        IN  /\ Backs(book[row.by[f]], row.by[f], i, row.owner, {"applied", "conflict"})
            /\ cf # None =>
                  /\ Backs(book[cf.clientOp], cf.clientOp, i, row.owner, {"conflict"})
                  /\ Backs(book[cf.serverOp], cf.serverOp, i, row.owner,
                           {"applied", "conflict"})

Lineage == \A i \in Inspections : rows[i] # None => Backed(rows[i], i, ledger)

\* The ledger does not cease to back a row.
LEMMA BackedOn ==
    ASSUME Inv, Next, NEW row \in Row, NEW i, Backed(row, i, ledger)
    PROVE  Backed(row, i, ledger')
<1>1. ASSUME NEW id \in OpIds \cup {SeedOp}, NEW u, NEW statuses,
             Backs(ledger[id], id, i, u, statuses)
      PROVE  Backs(ledger'[id], id, i, u, statuses)
  BY <1>1, LedgerGrows DEF Backs
<1>2. ASSUME NEW f \in Editable
      PROVE  /\ row.by[f] \in OpIds \cup {SeedOp}
             /\ row.conflict[f] # None => /\ row.conflict[f].clientOp \in OpIds
                                          /\ row.conflict[f].serverOp \in OpIds \cup {SeedOp}
  BY DEF Row, Conflict
<1> QED
  BY <1>1, <1>2 DEF Backed

\* A row that an operation leaves is backed by the operation's entry and by
\* what backed the row it met.
LEMMA BackedByOutcome ==
    ASSUME NEW u \in Users, NEW id \in OpIds, NEW row \in Row \cup {None}, NEW w \in BOOLEAN,
           Outcome(u, id, row, w).row # None, Outcome(u, id, row, w).row # row,
           NEW i, OpOf[id].insp = i,
           NEW book, book[id] # None, book[id].user = u,
           book[id].status = Outcome(u, id, row, w).status,
           row # None => Backed(row, i, book)
    PROVE  Backed(Outcome(u, id, row, w).row, i, book)
<1> DEFINE o == Outcome(u, id, row, w)
<1>1. ASSUME NEW f \in Editable
      PROVE  /\ o.row.owner = u
             /\ row # None => row.owner = u
             /\ Descends(o.row, row, id, o.status, f)
  BY <1>1, OutcomeLineage
<1>2. o.row # None /\ book[id].status = o.status
  OBVIOUS
<1> HIDE DEF o
<1>3. ASSUME NEW statuses, o.status \in statuses
      PROVE  Backs(book[id], id, i, u, statuses)
  BY <1>2, <1>3 DEF Backs
<1>4. ASSUME NEW f \in Editable
      PROVE  /\ Backs(book[o.row.by[f]], o.row.by[f], i, u, {"applied", "conflict"})
             /\ o.row.conflict[f] # None =>
                   /\ Backs(book[o.row.conflict[f].clientOp], o.row.conflict[f].clientOp, i, u,
                            {"conflict"})
                   /\ Backs(book[o.row.conflict[f].serverOp], o.row.conflict[f].serverOp, i, u,
                            {"applied", "conflict"})
  BY <1>1, <1>3, <1>4 DEF Descends, Backed
<1>5. ASSUME NEW f \in Editable
      PROVE  o.row.owner = u
  BY <1>1, <1>5
<1>6. Backed(o.row, i, book)
  BY <1>4, <1>5 DEF Backed
<1> QED
  BY <1>6 DEF o

\* The ledger backs every value and every open conflict.
THEOREM LineageSafety == Spec => []LineageIsLedgered
<1>1. Init => Lineage
  <2> SUFFICES ASSUME Init, NEW i \in Inspections, rows[i] # None
               PROVE  Backed(rows[i], i, ledger)
    BY DEF Lineage
  <2>1. rows[i] = SeedRow(Assigned[i])
    BY DEF Init, SeedRows
  <2>2. \A f \in Editable : rows[i].by[f] = SeedOp /\ rows[i].conflict[f] = None
    BY <2>1 DEF SeedRow
  <2> QED
    BY <2>2 DEF Backed, Backs
<1>2. Inv /\ Lineage /\ [Next]_vars => Lineage'
  <2> SUFFICES ASSUME Inv, Lineage, Next PROVE Lineage'
    BY DEF Lineage, vars
  <2> SUFFICES ASSUME NEW i \in Inspections, rows'[i] # None
               PROVE  Backed(rows'[i], i, ledger')
    BY DEF Lineage
  <2>1. rows[i] \in Row \cup {None}
    BY DEF Inv, TypeOK
  <2>2. rows[i] # None => Backed(rows[i], i, ledger')
    BY <2>1, BackedOn DEF Lineage
  <2>3. CASE rows'[i] = rows[i]
    BY <2>2, <2>3
  <2>4. CASE rows'[i] # rows[i]
    <3>1. PICK u \in Users, id \in OpIds, w \in BOOLEAN :
             /\ OpOf[id].insp = i
             /\ rows'[i] = Outcome(u, id, rows[i], w).row
             /\ Outcome(u, id, rows[i], w).row # None
             /\ ledger'[id] # None
             /\ ledger'[id].user = u
             /\ ledger'[id].status = Outcome(u, id, rows[i], w).status
      BY <2>4, RowStepIsLedgered
    <3>2. Backed(Outcome(u, id, rows[i], w).row, i, ledger')
      BY <2>1, <2>2, <2>4, <3>1, BackedByOutcome
    <3> QED
      BY <3>1, <3>2
  <2> QED
    BY <2>3, <2>4
<1>3. Lineage => LineageIsLedgered
  BY DEF Lineage, Backed, Backs, LineageIsLedgered
<1> QED
  BY <1>1, <1>2, <1>3, Invariance, PTL DEF Spec
=============================================================================
