--------------------------- MODULE SyncServerSteps ---------------------------
(***************************************************************************)
(* What a step of SyncServer may never do, for every value of the          *)
(* constants.  The committed store changes in one place, the COMMIT of a   *)
(* transaction; by the invariant, what it commits is the outcome of the    *)
(* operation on the row as it is at that moment; so each theorem rests on  *)
(* a fact about Outcome alone.                                             *)
(***************************************************************************)
EXTENDS SyncServerProofs

-----------------------------------------------------------------------------
(* What an outcome may change of a row *)

\* A merge changes a value only if the payload names that value as its base,
\* and leaves an open conflict as it is, as it loses on no field that has one.
LEMMA MergeKeeps ==
    ASSUME NEW id \in OpIds, NEW row \in Row, NEW created \in BOOLEAN, NEW f \in Editable
    PROVE  LET m == Merge(id, row, created)
           IN  /\ m.row.val[f] # row.val[f] =>
                     /\ f \in DOMAIN OpOf[id].changes
                     /\ OpOf[id].changes[f].base = row.val[f]
               /\ ~ CannotRefresh(id, row) /\ row.conflict[f] # None =>
                     m.row.conflict[f] = row.conflict[f]
               /\ m.row.deleted = row.deleted
<1> DEFINE ch == OpOf[id].changes
           ff == FieldsWith("apply", ch, row)
           cf == FieldsWith("conflict", ch, row)
           m  == Merge(id, row, created)
<1>1. /\ m.row.val[f] = IF f \in ff THEN ch[f].v ELSE row.val[f]
      /\ m.row.conflict[f] = IF f \in cf THEN RecordConflict(row, f, ch[f].v, id)
                             ELSE row.conflict[f]
      /\ m.row.deleted = row.deleted
  BY DEF Merge
<1>2. f \in ff => f \in DOMAIN ch /\ ch[f].base = row.val[f]
  BY DEF FieldsWith, ClassifyField
<1>3. ~ CannotRefresh(id, row) /\ row.conflict[f] # None => f \notin cf
  BY DEF CannotRefresh
<1> QED
  BY <1>1, <1>2, <1>3

\* An upsert or a delete that changes a value of a row, or a conflict, is a
\* valid upsert, and merges without refreshing a conflict; behind the gate, it
\* does not submit.
LEMMA ToRowMerges ==
    ASSUME NEW u \in Users, NEW id \in OpIds, NEW row \in Row, NEW w \in BOOLEAN,
           OpOf[id].type \notin {"malformed", "resolve_conflict"},
           \/ ApplyToRow(u, id, row, w).row.val # row.val
           \/ ApplyToRow(u, id, row, w).row.conflict # row.conflict
    PROVE  /\ OpOf[id].type = "upsert"
           /\ ValidateChanges(OpOf[id].changes, FALSE)
           /\ ApplyToRow(u, id, row, w).row = Merge(id, row, FALSE).row
           /\ ~ CannotRefresh(id, row)
           /\ w = TRUE => ~ /\ Status \in DOMAIN OpOf[id].changes
                            /\ OpOf[id].changes[Status].v = Submitted
<1> DEFINE op == OpOf[id]
           dead == [row EXCEPT !.deleted = TRUE, !.rev = @ + 1]
<1>1. op.type \in {"upsert", "delete"}
  BY PayloadType DEF Operation
<1>2. \A s \in OutcomeStatus : Reply(s, row).row = row
  BY DEF Reply
<1>3. row.owner = u /\ ~ row.deleted
  BY ToRowIsLive
<1>4. op.type # "delete"
  <2>1. op.type = "delete" => ApplyToRow(u, id, row, w).row = dead
    BY <1>3 DEF ApplyToRow, Reply
  <2>2. dead.val = row.val /\ dead.conflict = row.conflict
    BY DEF Row
  <2> QED
    BY <2>1, <2>2
<1>5. /\ ValidateChanges(op.changes, FALSE)
      /\ ApplyToRow(u, id, row, w) = ApplyUpsert(id, row, FALSE, w)
  BY <1>1, <1>3, <1>4 DEF ApplyToRow, Reply
<1>6. ApplyUpsert(id, row, FALSE, w).row # row
  BY <1>5
<1> QED
  BY <1>1, <1>4, <1>5, <1>6, UpsertMerges

\* A value of a row changes only by an upsert that knows it, or by settling
\* an open conflict, of the row's owner.
LEMMA OutcomeOverwrites ==
    ASSUME NEW u \in Users, NEW id \in OpIds, NEW row \in Row, NEW w \in BOOLEAN,
           OpOf[id].type # "malformed", NEW f \in Editable,
           Outcome(u, id, row, w).row.val[f] # row.val[f]
    PROVE  /\ row.owner = u
           /\ \/ /\ OpOf[id].type = "upsert"
                 /\ f \in DOMAIN OpOf[id].changes
                 /\ OpOf[id].changes[f].base = row.val[f]
              \/ /\ OpOf[id].type = "resolve_conflict"
                 /\ OpOf[id].field = f
                 /\ row.conflict[f] # None
<1>1. row # None
  BY NoneAssumption
<1>2. CASE OpOf[id].type = "resolve_conflict"
  <2>1. Outcome(u, id, row, w) = ApplyResolve(u, id, row)
    BY <1>2 DEF Outcome
  <2> QED
    BY <1>2, <2>1, ResolveKeeps
<1>3. CASE OpOf[id].type # "resolve_conflict"
  <2>1. Outcome(u, id, row, w) = ApplyToRow(u, id, row, w)
    BY <1>1, <1>3 DEF Outcome
  <2>2. OpOf[id].type \notin {"malformed", "resolve_conflict"}
    BY <1>3
  <2>3. \/ ApplyToRow(u, id, row, w).row.val # row.val
        \/ ApplyToRow(u, id, row, w).row.conflict # row.conflict
    BY <2>1
  <2>4. /\ OpOf[id].type = "upsert"
        /\ ValidateChanges(OpOf[id].changes, FALSE)
        /\ ApplyToRow(u, id, row, w).row = Merge(id, row, FALSE).row
    BY <2>2, <2>3, ToRowMerges
  <2>5. row.owner = u
    BY <2>3, ToRowIsLive
  <2>6. Merge(id, row, FALSE).row.val[f] # row.val[f]
    BY <2>1, <2>4
  <2>7. f \in DOMAIN OpOf[id].changes /\ OpOf[id].changes[f].base = row.val[f]
    BY <2>4, <2>6, MergeKeeps
  <2> QED
    BY <2>4, <2>5, <2>7
<1> QED
  BY <1>2, <1>3

\* An open conflict changes only by a resolve_conflict of the row's owner for
\* its field, which ends it and sets the chosen value.
LEMMA OutcomeKeepsConflicts ==
    ASSUME NEW u \in Users, NEW id \in OpIds, NEW row \in Row, NEW w \in BOOLEAN,
           OpOf[id].type # "malformed", NEW f \in Editable,
           row.conflict[f] # None,
           Outcome(u, id, row, w).row.conflict[f] # row.conflict[f]
    PROVE  /\ OpOf[id].type = "resolve_conflict" /\ OpOf[id].field = f
           /\ row.owner = u
           /\ Outcome(u, id, row, w).row.conflict[f] = None
           /\ Outcome(u, id, row, w).row.val[f] = OpOf[id].value
<1>1. row # None
  BY NoneAssumption
<1>2. CASE OpOf[id].type = "resolve_conflict"
  <2>1. Outcome(u, id, row, w) = ApplyResolve(u, id, row)
    BY <1>2 DEF Outcome
  <2>2. OpOf[id].field = f /\ row.owner = u
    BY <1>2, <2>1, ResolveKeeps
  <2>3. ApplyResolve(u, id, row) =
           Reply("applied", [row EXCEPT !.val[f] = OpOf[id].value, !.by[f] = id,
                                        !.conflict[f] = None, !.rev = @ + 1])
    BY <2>1, <2>2 DEF ApplyResolve, Reply
  <2>4. /\ row.val \in [Editable -> Values]
        /\ row.conflict \in [Editable -> Conflict \cup {None}]
    BY DEF Row
  <2> DEFINE settled == [row EXCEPT !.val[f] = OpOf[id].value, !.by[f] = id,
                                    !.conflict[f] = None, !.rev = @ + 1]
  <2>5. /\ settled.val = [row.val EXCEPT ![f] = OpOf[id].value]
        /\ settled.conflict = [row.conflict EXCEPT ![f] = None]
    BY DEF Row
  <2>6. settled.val[f] = OpOf[id].value /\ settled.conflict[f] = None
    BY <2>4, <2>5
  <2>7. Outcome(u, id, row, w).row = settled
    BY <2>1, <2>3 DEF Reply
  <2> QED
    BY <1>2, <2>2, <2>6, <2>7
<1>3. CASE OpOf[id].type # "resolve_conflict"
  <2>1. Outcome(u, id, row, w) = ApplyToRow(u, id, row, w)
    BY <1>1, <1>3 DEF Outcome
  <2>2. OpOf[id].type \notin {"malformed", "resolve_conflict"}
    BY <1>3
  <2>3. \/ ApplyToRow(u, id, row, w).row.val # row.val
        \/ ApplyToRow(u, id, row, w).row.conflict # row.conflict
    BY <2>1
  <2>4. /\ ApplyToRow(u, id, row, w).row = Merge(id, row, FALSE).row
        /\ ~ CannotRefresh(id, row)
    BY <2>2, <2>3, ToRowMerges
  <2>5. Merge(id, row, FALSE).row.conflict[f] = row.conflict[f]
    BY <2>4, MergeKeeps
  <2> QED
    BY <2>1, <2>4, <2>5
<1> QED
  BY <1>2, <1>3

\* With an attachment incomplete, only a resolve_conflict submits a row.
LEMMA OutcomeSubmits ==
    ASSUME NEW u \in Users, NEW id \in OpIds, NEW row \in Row, OpOf[id].type # "malformed",
           row.val[Status] # Submitted,
           Outcome(u, id, row, TRUE).row.val[Status] = Submitted
    PROVE  OpOf[id].type = "resolve_conflict"
<1> SUFFICES ASSUME OpOf[id].type # "resolve_conflict" PROVE FALSE
  OBVIOUS
<1>1. Outcome(u, id, row, TRUE) = ApplyToRow(u, id, row, TRUE)
  BY NoneAssumption DEF Outcome
<1>2. /\ ApplyToRow(u, id, row, TRUE).row = Merge(id, row, FALSE).row
      /\ ~ /\ Status \in DOMAIN OpOf[id].changes
           /\ OpOf[id].changes[Status].v = Submitted
  <2>1. OpOf[id].type \notin {"malformed", "resolve_conflict"}
    OBVIOUS
  <2>2. ApplyToRow(u, id, row, TRUE).row.val # row.val
    BY <1>1
  <2> QED
    BY <2>1, <2>2, ToRowMerges
<1>3. Merge(id, row, FALSE).row.val[Status] # Submitted
  <2>1. Merge(id, row, FALSE).row.val[Status] =
            IF Status \in FieldsWith("apply", OpOf[id].changes, row)
            THEN OpOf[id].changes[Status].v ELSE row.val[Status]
    BY FieldsAssumption DEF Merge
  <2> QED
    BY <1>2, <2>1 DEF FieldsWith
<1> QED
  BY <1>1, <1>2, <1>3

-----------------------------------------------------------------------------
(* The one place where the store changes *)

\* A step leaves the store as it is, or commits a transaction.
LEMMA StoreStep ==
    ASSUME Inv, Next
    PROVE  UNCHANGED store \/ \E c \in Conns : Writes(c)
<1>1. ASSUME NEW c \in Conns, NEW s, CommitAnd(c, s)
      PROVE  Writes(c)
  BY <1>1 DEF CommitAnd, Writes, Inv, NoLedgerClash
<1>2. ASSUME NEW c \in Conns, Handle(c) \/ CommitUnacked(c) \/ Fail(c) \/ Abandon(c)
      PROVE  UNCHANGED store \/ Writes(c)
  BY <1>1, <1>2 DEF Handle, Respond, RejectMalformed, LockOp, Replay, FirstDelivery, LoadRow,
     Decide, Create, Commit, CommitUnacked, Fail, Abandon, Leave
<1>3. ASSUME NEW c \in Conns, NEW u \in Users, NEW b \in Batches, Receive(c, u, b)
      PROVE  UNCHANGED store
  BY <1>3 DEF Receive
<1>4. ASSUME NEW i \in Inspections, OpenAttachment(i) \/ CompleteAttachments(i)
      PROVE  UNCHANGED store
  BY <1>4 DEF OpenAttachment, CompleteAttachments
<1> QED
  BY <1>2, <1>3, <1>4 DEF Next

\* A commit writes at most the row of its operation, and the row it writes is
\* the outcome of that operation on the row it replaces; the operation is
\* new to the ledger, under the user of the request.
LEMMA CommitFacts ==
    ASSUME Inv, NEW c \in Conns, Writes(c)
    PROVE  /\ Op(c) \in NewOps
           /\ OpOf[Op(c)].type # "malformed"
           /\ who[c] \in Users
           /\ OpOf[Op(c)].insp = Target(c)
           /\ ledger'[Op(c)].user = who[c]
           /\ Op(c) \in OpIds
           /\ Target(c) \in Inspections
           /\ \A i \in Inspections : rows'[i] # rows[i] =>
                 /\ i = Target(c)
                 /\ rows'[i] = IF i \in waiting
                              THEN Outcome(who[c], Op(c), rows[i], TRUE).row
                              ELSE Outcome(who[c], Op(c), rows[i], FALSE).row
                 /\ rows'[i] # None
<1>1. /\ TypeOK /\ MoreOps(c) /\ who[c] \in Users /\ ~ Malformed(Op(c))
      /\ ledger[Op(c)] = None /\ out[c].status \in LedgeredStatus
      /\ pc[c] = "commit"
      /\ out[c] = Outcome(who[c], Op(c),
                          IF out[c].row = None THEN None ELSE rows[Target(c)],
                          Target(c) \in waiting)
  BY DEF Inv, Writes, LocksHeld, NoLedgerClash, DecisionIsFresh
<1>2. Op(c) \in OpIds /\ Target(c) \in Inspections
  BY <1>1, OpType
<1>3. out[c] \in Outcomes
  BY <1>1 DEF TypeOK, Outcomes
<1>4. Entry(who[c], out[c]) # None /\ Entry(who[c], out[c]).user = who[c]
  BY <1>1, <1>3, EntryType DEF Entry
<1>5. ledger'[Op(c)] = Entry(who[c], out[c])
  BY <1>1, <1>2 DEF Writes, TypeOK
<1>6. Op(c) \in NewOps
  BY <1>1, <1>2, <1>4, <1>5 DEF NewOps
<1>7. ASSUME NEW i \in Inspections, rows'[i] # rows[i]
      PROVE  /\ i = Target(c)
             /\ rows'[i] = IF i \in waiting
                              THEN Outcome(who[c], Op(c), rows[i], TRUE).row
                              ELSE Outcome(who[c], Op(c), rows[i], FALSE).row
             /\ rows'[i] # None
  <2>1. out[c].row # None /\ i = Target(c) /\ rows'[i] = out[c].row
    BY <1>1, <1>2, <1>7 DEF Writes, TypeOK
  <2>2. out[c] = Outcome(who[c], Op(c), rows[i], i \in waiting)
    BY <1>1, <2>1
  <2>3. out[c] = IF i \in waiting THEN Outcome(who[c], Op(c), rows[i], TRUE)
                 ELSE Outcome(who[c], Op(c), rows[i], FALSE)
    <3>1. (i \in waiting) = TRUE \/ (i \in waiting) = FALSE
      OBVIOUS
    <3> QED
      BY <2>2, <3>1
  <2> QED
    BY <2>1, <2>3
<1> QED
  BY <1>1, <1>2, <1>4, <1>5, <1>6, <1>7 DEF Malformed, Target

\* A step that changes a row is such a commit.
LEMMA RowStep ==
    ASSUME Inv, Next, NEW i \in Inspections, rows'[i] # rows[i]
    PROVE  \E u \in Users, id \in OpIds, w \in BOOLEAN :
              /\ id \in NewOps
              /\ OpOf[id].insp = i
              /\ OpOf[id].type # "malformed"
              /\ ledger'[id].user = u
              /\ rows'[i] = Outcome(u, id, rows[i], w).row
              /\ i \in waiting => w = TRUE
<1>1. PICK c \in Conns : Writes(c)
  BY StoreStep DEF store
<1>2. /\ who[c] \in Users /\ Op(c) \in OpIds /\ Op(c) \in NewOps
      /\ OpOf[Op(c)].insp = i
      /\ OpOf[Op(c)].type # "malformed"
      /\ ledger'[Op(c)].user = who[c]
  BY <1>1, CommitFacts
<1>3. CASE i \in waiting
  <2>1. rows'[i] = Outcome(who[c], Op(c), rows[i], TRUE).row
    BY <1>1, <1>3, CommitFacts
  <2> QED
    BY <1>2, <2>1
<1>4. CASE i \notin waiting
  <2>1. rows'[i] = Outcome(who[c], Op(c), rows[i], FALSE).row
    BY <1>1, <1>4, CommitFacts
  <2> QED
    BY <1>2, <1>4, <2>1
<1> QED
  BY <1>3, <1>4

-----------------------------------------------------------------------------
(* The theorems *)

\* An inspection with an incomplete attachment exists.
WaitingExist == \A i \in waiting : rows[i] # None

\* Attachments are opened only for inspections that exist, and no step takes
\* an inspection away.
LEMMA WaitingInvariance == Spec => []WaitingExist
<1>1. Init => WaitingExist
  BY DEF Init, WaitingExist
<1>2. Inv /\ WaitingExist /\ [Next]_vars => WaitingExist'
  <2> SUFFICES ASSUME Inv, WaitingExist, Next PROVE WaitingExist'
    BY DEF WaitingExist, vars
  <2>1. waiting \subseteq Inspections
    BY DEF Inv, TypeOK
  <2>2. \A i \in Inspections : rows[i] # None => rows'[i] # None
    BY StoreStep, CommitFacts DEF store
  <2>3. \A i \in waiting' : i \in waiting \/ (i \in Inspections /\ rows[i] # None)
    BY DEF Next, Handle, Receive, Respond, RejectMalformed, LockOp, Replay, FirstDelivery,
       LoadRow, Decide, Create, Commit, CommitUnacked, CommitAnd, Fail, Abandon, Leave, Answer,
       OpenAttachment, CompleteAttachments
  <2> QED
    BY <2>1, <2>2, <2>3 DEF WaitingExist
<1> QED
  BY <1>1, <1>2, Invariance, PTL DEF Spec

\* No committed value is overwritten unseen or unchosen.
THEOREM OverwriteSafety == Spec => NoSilentOverwrite
<1>1. Inv /\ [Next]_vars => [OverwriteIsSeenOrChosen]_vars
  <2> SUFFICES ASSUME Inv, Next, NEW i \in Inspections, NEW f \in Editable,
                      rows[i] # None, rows'[i].val[f] # rows[i].val[f]
               PROVE  \E id \in NewOps :
                          /\ OpOf[id].insp = i
                          /\ ledger'[id].user = rows[i].owner
                          /\ \/ /\ OpOf[id].type = "upsert"
                                /\ f \in DOMAIN OpOf[id].changes
                                /\ OpOf[id].changes[f].base = rows[i].val[f]
                             \/ /\ OpOf[id].type = "resolve_conflict"
                                /\ OpOf[id].field = f
                                /\ rows[i].conflict[f] # None
    BY DEF OverwriteIsSeenOrChosen
  <2>1. rows[i] \in Row
    BY DEF Inv, TypeOK
  <2>2. rows'[i] # rows[i] /\ i \in Inspections
    OBVIOUS
  <2>3. PICK u \in Users, id \in OpIds, w \in BOOLEAN :
             /\ id \in NewOps
             /\ OpOf[id].insp = i
             /\ OpOf[id].type # "malformed"
             /\ ledger'[id].user = u
             /\ rows'[i] = Outcome(u, id, rows[i], w).row
             /\ i \in waiting => w = TRUE
    BY <2>2, RowStep
  <2> QED
    BY <2>1, <2>3, OutcomeOverwrites
<1> QED
  BY <1>1, Invariance, PTL DEF Spec, NoSilentOverwrite

\* An open conflict stays as it is until a resolve_conflict for its field ends it.
THEOREM ConflictSafety == Spec => ConflictsEndByChoice
<1>1. Inv /\ [Next]_vars => [ConflictEndsByChoice]_vars
  <2> SUFFICES ASSUME Inv, Next, NEW i \in Inspections, NEW f \in Editable,
                      rows[i] # None, rows[i].conflict[f] # None,
                      rows'[i].conflict[f] # rows[i].conflict[f]
               PROVE  /\ rows'[i].conflict[f] = None
                      /\ \E id \in NewOps : /\ OpOf[id].insp = i
                                            /\ OpOf[id].type = "resolve_conflict"
                                            /\ OpOf[id].field = f
                                            /\ ledger'[id].user = rows[i].owner
                                            /\ rows'[i].val[f] = OpOf[id].value
    BY DEF ConflictEndsByChoice
  <2>1. rows[i] \in Row
    BY DEF Inv, TypeOK
  <2>2. rows'[i] # rows[i] /\ i \in Inspections
    OBVIOUS
  <2>3. PICK u \in Users, id \in OpIds, w \in BOOLEAN :
             /\ id \in NewOps
             /\ OpOf[id].insp = i
             /\ OpOf[id].type # "malformed"
             /\ ledger'[id].user = u
             /\ rows'[i] = Outcome(u, id, rows[i], w).row
             /\ i \in waiting => w = TRUE
    BY <2>2, RowStep
  <2>4. /\ OpOf[id].type = "resolve_conflict" /\ OpOf[id].field = f
        /\ rows[i].owner = u
        /\ rows'[i].conflict[f] = None
        /\ rows'[i].val[f] = OpOf[id].value
    BY <2>1, <2>3, OutcomeKeepsConflicts
  <2> QED
    BY <2>3, <2>4
<1> QED
  BY <1>1, Invariance, PTL DEF Spec, ConflictsEndByChoice

\* A tombstone is never lifted, and only a resolve_conflict changes its row.
THEOREM TombstoneSafety == Spec => TombstoneHolds
<1>1. Inv /\ [Next]_vars => [TombstoneStays]_vars
  <2> SUFFICES ASSUME Inv, Next, NEW i \in Inspections,
                      rows[i] # None, rows[i].deleted, rows'[i] # rows[i]
               PROVE  /\ rows'[i].deleted
                      /\ \E id \in NewOps : /\ OpOf[id].insp = i
                                            /\ OpOf[id].type = "resolve_conflict"
    BY DEF TombstoneStays
  <2>1. rows[i] \in Row
    BY DEF Inv, TypeOK
  <2>2. rows'[i] # rows[i] /\ i \in Inspections
    OBVIOUS
  <2>3. PICK u \in Users, id \in OpIds, w \in BOOLEAN :
             /\ id \in NewOps
             /\ OpOf[id].insp = i
             /\ OpOf[id].type # "malformed"
             /\ ledger'[id].user = u
             /\ rows'[i] = Outcome(u, id, rows[i], w).row
             /\ i \in waiting => w = TRUE
    BY <2>2, RowStep
  <2> QED
    BY <2>1, <2>3, OutcomeOfDeadRow
<1> QED
  BY <1>1, Invariance, PTL DEF Spec, TombstoneHolds

\* No upsert submits an inspection while an attachment is incomplete.
THEOREM GateSafety == Spec => SubmitGate
<1>1. Inv /\ WaitingExist /\ [Next]_vars => [SubmitIsGated]_vars
  <2> SUFFICES ASSUME Inv, WaitingExist, Next, NEW i \in Inspections,
                      BecomesSubmitted(i), i \in waiting
               PROVE  \E id \in NewOps : OpOf[id].type = "resolve_conflict"
    BY DEF SubmitIsGated
  <2>1. rows[i] \in Row /\ rows[i].val[Status] # Submitted
    BY DEF Inv, TypeOK, WaitingExist, BecomesSubmitted
  <2>2. rows'[i] # rows[i] /\ rows'[i].val[Status] = Submitted
    BY <2>1 DEF BecomesSubmitted
  <2>3. PICK u \in Users, id \in OpIds, w \in BOOLEAN :
             /\ id \in NewOps
             /\ OpOf[id].insp = i
             /\ OpOf[id].type # "malformed"
             /\ ledger'[id].user = u
             /\ rows'[i] = Outcome(u, id, rows[i], w).row
             /\ i \in waiting => w = TRUE
    BY <2>2, RowStep
  <2> QED
    BY <2>1, <2>2, <2>3, OutcomeSubmits
<1> QED
  BY <1>1, Invariance, WaitingInvariance, PTL DEF Spec, SubmitGate
=============================================================================
