--------------------------- MODULE SyncRulesProofs ---------------------------
(***************************************************************************)
(* Facts about the decision procedure of SyncRules, for every operation,   *)
(* row and user: what the proofs about the server and about the devices    *)
(* need to know of Outcome.                                                *)
(***************************************************************************)
EXTENDS SyncRules, TLAPS

Outcomes == [status : OutcomeStatus, row : Row \cup {None}]

\* The payload of an operation has the fields of an operation, and each of
\* its changes those of a change.
LEMMA PayloadType ==
    ASSUME NEW id \in OpIds
    PROVE  /\ OpOf[id] \in Operation
           /\ OpOf[id].insp \in Inspections
           /\ OpOf[id].value \in Values \cup {None}
           /\ \A f \in DOMAIN OpOf[id].changes : OpOf[id].changes[f] \in Change
<1>1. OpOf[id] \in Operation
  BY OpAssumption
<1>2. OpOf[id].changes \in UNION {[F -> Change] : F \in SUBSET Names}
  BY <1>1 DEF Operation
<1>3. PICK F \in SUBSET Names : OpOf[id].changes \in [F -> Change]
  BY <1>2
<1> QED
  BY <1>1, <1>3 DEF Operation

\* validateChanges leaves only values of fields that can be stored.
LEMMA ValidChangesHaveValues ==
    ASSUME NEW id \in OpIds, NEW creating \in BOOLEAN,
           ValidateChanges(OpOf[id].changes, creating)
    PROVE  /\ DOMAIN OpOf[id].changes \subseteq Editable
           /\ \A f \in DOMAIN OpOf[id].changes : OpOf[id].changes[f].v \in Values
<1>1. \A f \in DOMAIN OpOf[id].changes : OpOf[id].changes[f] \in Change
  BY PayloadType
<1> QED
  BY <1>1 DEF ValidateChanges, Change

\* A created inspection is a row.
LEMMA CreateInspectionType ==
    ASSUME NEW u \in Users, NEW id \in OpIds,
           ValidateChanges(OpOf[id].changes, TRUE)
    PROVE  CreateInspection(u, id) \in Row
<1> DEFINE ch == OpOf[id].changes
           given == [f \in Editable |-> IF f \in DOMAIN ch THEN ch[f].v ELSE Initial[f]]
<1>1. \A f \in DOMAIN ch : ch[f].v \in Values
  BY ValidChangesHaveValues
<1>2. given \in [Editable -> Values]
  BY <1>1, ValuesAssumption
<1>3. [given EXCEPT ![Title] = IF @ = Blank THEN NewTitle ELSE @] \in [Editable -> Values]
  BY <1>2, ValuesAssumption
<1>4. /\ [f \in Editable |-> id] \in [Editable -> OpIds \cup {SeedOp}]
      /\ [f \in Editable |-> None] \in [Editable -> Conflict \cup {None}]
  OBVIOUS
<1> QED
  BY <1>3, <1>4 DEF CreateInspection, Row

\* Recording a conflict yields a conflict.
LEMMA RecordConflictType ==
    ASSUME NEW row \in Row, NEW f \in Editable, NEW v \in Values, NEW id \in OpIds
    PROVE  RecordConflict(row, f, v, id) \in Conflict
BY DEF RecordConflict, Conflict, Row

\* Merging a valid payload into a row leaves a row.
LEMMA MergeType ==
    ASSUME NEW id \in OpIds, NEW row \in Row, NEW created \in BOOLEAN,
           NEW creating \in BOOLEAN, ValidateChanges(OpOf[id].changes, creating)
    PROVE  /\ Merge(id, row, created).row \in Row
           /\ Merge(id, row, created).status \in {"applied", "conflict"}
           /\ Merge(id, row, created) \in Outcomes
<1> DEFINE ch == OpOf[id].changes
           ff == FieldsWith("apply", ch, row)
           cf == FieldsWith("conflict", ch, row)
           m  == Merge(id, row, created)
<1>1. /\ ff \subseteq DOMAIN ch
      /\ cf \subseteq DOMAIN ch
  BY DEF FieldsWith
<1>2. \A f \in DOMAIN ch : f \in Editable /\ ch[f].v \in Values
  BY ValidChangesHaveValues
<1>3. /\ row.owner \in Users /\ row.deleted \in BOOLEAN /\ row.rev \in Nat
      /\ row.val \in [Editable -> Values]
      /\ row.by \in [Editable -> OpIds \cup {SeedOp}]
      /\ row.conflict \in [Editable -> Conflict \cup {None}]
  BY DEF Row
<1>4. [f \in Editable |-> IF f \in ff THEN ch[f].v ELSE row.val[f]]
          \in [Editable -> Values]
  BY <1>1, <1>2, <1>3
<1>5. [f \in Editable |-> IF f \in ff THEN id ELSE row.by[f]]
          \in [Editable -> OpIds \cup {SeedOp}]
  BY <1>3
<1>6. [f \in Editable |-> IF f \in cf THEN RecordConflict(row, f, ch[f].v, id)
                                      ELSE row.conflict[f]]
          \in [Editable -> Conflict \cup {None}]
  <2>1. \A f \in cf : RecordConflict(row, f, ch[f].v, id) \in Conflict
    BY <1>1, <1>2, RecordConflictType
  <2> QED
    BY <2>1, <1>3
<1>7. (IF ff # {} /\ ~created THEN row.rev + 1 ELSE row.rev) \in Nat
  BY <1>3
<1>8. m.row \in Row
  BY <1>3, <1>4, <1>5, <1>6, <1>7 DEF Merge, Row
<1>9. /\ m.status \in {"applied", "conflict"}
      /\ m = [status |-> m.status, row |-> m.row]
  BY DEF Merge
<1>10. m \in Outcomes
  <2> HIDE DEF m
  <2>1. m.status \in OutcomeStatus
    BY <1>9 DEF OutcomeStatus, LedgeredStatus
  <2> QED
    BY <1>8, <1>9, <2>1 DEF Outcomes
<1> QED
  BY <1>8, <1>9, <1>10

\* An upsert that passed the checks leaves a row, whatever it is answered.
LEMMA ApplyUpsertType ==
    ASSUME NEW id \in OpIds, NEW row \in Row, NEW created \in BOOLEAN, NEW w \in BOOLEAN,
           NEW creating \in BOOLEAN, ValidateChanges(OpOf[id].changes, creating)
    PROVE  /\ ApplyUpsert(id, row, created, w) \in Outcomes
           /\ ApplyUpsert(id, row, created, w).row \in Row
<1>1. Reply("attachments_incomplete", row) \in Outcomes
  BY DEF Reply, Outcomes, OutcomeStatus
<1>2. Reply("error", row) \in Outcomes
  BY DEF Reply, Outcomes, OutcomeStatus
<1>3. /\ Reply("error", row).row = row
      /\ Reply("attachments_incomplete", row).row = row
  BY DEF Reply
<1> QED
  BY <1>1, <1>2, <1>3, MergeType DEF ApplyUpsert, MergeOrFail

\* An upsert that changes the row, or is ledgered, went through the merge:
\* the gate let it pass, and no field it loses on was in conflict.
LEMMA UpsertMerges ==
    ASSUME NEW id, NEW row, NEW created, NEW w,
           \/ ApplyUpsert(id, row, created, w).row # row
           \/ ApplyUpsert(id, row, created, w).status \in LedgeredStatus
    PROVE  /\ ApplyUpsert(id, row, created, w) = Merge(id, row, created)
           /\ ~ CannotRefresh(id, row)
           /\ ~ /\ Status \in DOMAIN OpOf[id].changes
                /\ OpOf[id].changes[Status].v = Submitted
                /\ w
<1>1. /\ Reply("error", row).row = row
      /\ Reply("error", row).status \notin LedgeredStatus
      /\ Reply("attachments_incomplete", row).row = row
      /\ Reply("attachments_incomplete", row).status \notin LedgeredStatus
  BY DEF Reply, LedgeredStatus
<1>2. ApplyUpsert(id, row, created, w) # Reply("attachments_incomplete", row)
  BY <1>1
<1>3. ApplyUpsert(id, row, created, w) # Reply("error", row)
  BY <1>1
<1>4. ~ /\ Status \in DOMAIN OpOf[id].changes
        /\ OpOf[id].changes[Status].v = Submitted
        /\ w
  BY <1>2 DEF ApplyUpsert
<1>5. ApplyUpsert(id, row, created, w) = MergeOrFail(id, row, created)
  BY <1>4 DEF ApplyUpsert
<1>6. ~ CannotRefresh(id, row)
  BY <1>3, <1>5 DEF MergeOrFail
<1> QED
  BY <1>4, <1>5, <1>6 DEF MergeOrFail

\* A row just created has no open conflict, and no attachments.
LEMMA CreationMerges ==
    ASSUME NEW u, NEW id, ValidateChanges(OpOf[id].changes, TRUE)
    PROVE  ApplyUpsert(id, CreateInspection(u, id), TRUE, FALSE) =
               Merge(id, CreateInspection(u, id), TRUE)
<1>1. \A f \in Editable : CreateInspection(u, id).conflict[f] = None
  BY DEF CreateInspection
<1>2. DOMAIN OpOf[id].changes \subseteq Editable
  BY DEF ValidateChanges
<1>3. ~ CannotRefresh(id, CreateInspection(u, id))
  BY <1>1, <1>2 DEF CannotRefresh, FieldsWith
<1> QED
  BY <1>3 DEF ApplyUpsert, MergeOrFail

\* Settling a conflict, or refusing to, yields an outcome; it never loses the row.
LEMMA ApplyResolveType ==
    ASSUME NEW u \in Users, NEW id \in OpIds, NEW row \in Row \cup {None}
    PROVE  /\ ApplyResolve(u, id, row) \in Outcomes
           /\ ApplyResolve(u, id, row).row = None <=> row = None
<1> DEFINE op == OpOf[id]
           f  == op.field
           settled == [row EXCEPT !.val[f] = op.value, !.by[f] = id,
                                  !.conflict[f] = None, !.rev = @ + 1]
<1>1. \A s \in OutcomeStatus : /\ Reply(s, row) \in Outcomes
                               /\ Reply(s, row).row = row
  BY DEF Reply, Outcomes
<1>2. {"invalid", "forbidden", "error", "applied"} \subseteq OutcomeStatus
  BY DEF OutcomeStatus, LedgeredStatus
<1>3. CASE \/ f \notin Editable \/ row = None
           \/ row.owner # u
           \/ row.conflict[f] = None
           \/ op.value = None
  BY <1>1, <1>2, <1>3 DEF ApplyResolve
<1>4. CASE /\ f \in Editable /\ row # None
           /\ row.owner = u
           /\ row.conflict[f] # None
           /\ op.value # None
  <2>1. /\ op.value \in Values
        /\ row \in Row
    BY <1>4, PayloadType
  <2>2. settled \in Row
    <3>1. row.rev + 1 \in Nat
      BY <2>1 DEF Row
    <3>2. [row.val EXCEPT ![f] = op.value] \in [Editable -> Values]
      BY <2>1 DEF Row
    <3>3. [row.by EXCEPT ![f] = id] \in [Editable -> OpIds \cup {SeedOp}]
      BY <2>1 DEF Row
    <3>4. [row.conflict EXCEPT ![f] = None] \in [Editable -> Conflict \cup {None}]
      BY <2>1 DEF Row
    <3> QED
      BY <2>1, <3>1, <3>2, <3>3, <3>4 DEF Row
  <2>3. ApplyResolve(u, id, row) = Reply("applied", settled)
    BY <1>4 DEF ApplyResolve
  <2>4. settled # None
    BY <2>2, NoneAssumption
  <2> QED
    BY <2>2, <2>3, <2>4, <1>2, <1>4 DEF Reply, Outcomes
<1> QED
  BY <1>3, <1>4

\* An operation on an unknown inspection yields an outcome.
LEMMA ApplyToAbsentType ==
    ASSUME NEW u \in Users, NEW id \in OpIds
    PROVE  ApplyToAbsent(u, id) \in Outcomes
<1>1. CASE OpOf[id].type = "delete"
  BY <1>1 DEF ApplyToAbsent, Reply, Outcomes, OutcomeStatus, LedgeredStatus
<1>2. CASE OpOf[id].type # "delete" /\ ~ ValidateChanges(OpOf[id].changes, TRUE)
  BY <1>2 DEF ApplyToAbsent, Reply, Outcomes, OutcomeStatus, LedgeredStatus
<1>3. CASE OpOf[id].type # "delete" /\ ValidateChanges(OpOf[id].changes, TRUE)
  <2>1. CreateInspection(u, id) \in Row
    BY <1>3, CreateInspectionType
  <2> QED
    BY <2>1, <1>3, ApplyUpsertType DEF ApplyToAbsent
<1> QED
  BY <1>1, <1>2, <1>3

\* An operation on an inspection yields an outcome, and keeps the row.
LEMMA ApplyToRowType ==
    ASSUME NEW u \in Users, NEW id \in OpIds, NEW row \in Row, NEW w \in BOOLEAN
    PROVE  /\ ApplyToRow(u, id, row, w) \in Outcomes
           /\ ApplyToRow(u, id, row, w).row \in Row
<1> DEFINE op == OpOf[id]
           dead == [row EXCEPT !.deleted = TRUE, !.rev = @ + 1]
<1>1. /\ \A s \in OutcomeStatus, r \in Row : Reply(s, r) \in Outcomes /\ Reply(s, r).row \in Row
      /\ {"forbidden", "deleted", "invalid"} \subseteq OutcomeStatus
  BY DEF Reply, Outcomes, OutcomeStatus, LedgeredStatus
<1>2. dead \in Row
  <2>1. row.rev + 1 \in Nat
    BY DEF Row
  <2> QED
    BY <2>1 DEF Row
<1>3. CASE row.owner # u \/ row.deleted
  BY <1>1, <1>3 DEF ApplyToRow
<1>4. CASE row.owner = u /\ ~ row.deleted /\ op.type = "delete"
  BY <1>1, <1>2, <1>4 DEF ApplyToRow
<1>5. CASE row.owner = u /\ ~ row.deleted /\ op.type # "delete"
  BY <1>1, <1>5, ApplyUpsertType DEF ApplyToRow
<1> QED
  BY <1>3, <1>4, <1>5

\* Every outcome has a status and a row, and the row exists if there was one.
THEOREM OutcomeType ==
    ASSUME NEW u \in Users, NEW id \in OpIds, NEW row \in Row \cup {None}, NEW w \in BOOLEAN
    PROVE  /\ Outcome(u, id, row, w) \in Outcomes
           /\ Outcome(u, id, row, w).row = None => row = None
BY ApplyResolveType, ApplyToAbsentType, ApplyToRowType, NoneAssumption DEF Outcome

\* Without an inspection the attachments do not matter.
LEMMA AbsentIgnoresWaiting ==
    ASSUME NEW u, NEW id, NEW w, NEW w2
    PROVE  Outcome(u, id, None, w) = Outcome(u, id, None, w2)
BY DEF Outcome

\* The gate only ever refuses: an outcome that is ledgered although an
\* attachment is incomplete would have been the same with none.
LEMMA GateOnlyRefuses ==
    ASSUME NEW u \in Users, NEW id \in OpIds, NEW row \in Row \cup {None},
           Outcome(u, id, row, TRUE).status \in LedgeredStatus
    PROVE  Outcome(u, id, row, TRUE) = Outcome(u, id, row, FALSE)
<1>1. CASE OpOf[id].type = "resolve_conflict" \/ row = None
  BY <1>1 DEF Outcome
<1>2. CASE OpOf[id].type # "resolve_conflict" /\ row # None
  <2>1. Outcome(u, id, row, TRUE) = ApplyToRow(u, id, row, TRUE)
    BY <1>2 DEF Outcome
  <2>2. ApplyToRow(u, id, row, TRUE) # Reply("attachments_incomplete", row)
    <3>1. Reply("attachments_incomplete", row).status = "attachments_incomplete"
      BY DEF Reply
    <3>2. "attachments_incomplete" \notin LedgeredStatus
      BY DEF LedgeredStatus
    <3> QED
      BY <2>1, <3>1, <3>2
  <2>3. ApplyUpsert(id, row, FALSE, TRUE) # Reply("attachments_incomplete", row)
            => ApplyUpsert(id, row, FALSE, TRUE) = ApplyUpsert(id, row, FALSE, FALSE)
    BY DEF ApplyUpsert
  <2>4. ApplyToRow(u, id, row, TRUE) = ApplyToRow(u, id, row, FALSE)
    BY <2>2, <2>3 DEF ApplyToRow
  <2> QED
    BY <1>2, <2>4 DEF Outcome
<1> QED
  BY <1>1, <1>2

\* A creation is always recorded: no gate or error stands in its way.
LEMMA CreationIsLedgered ==
    ASSUME NEW u \in Users, NEW id \in OpIds, NEW w \in BOOLEAN,
           Outcome(u, id, None, w).row # None
    PROVE  Outcome(u, id, None, w).status \in LedgeredStatus
<1>1. OpOf[id].type # "resolve_conflict"
  <2>1. ApplyResolve(u, id, None).row = None
    BY ApplyResolveType
  <2> QED
    BY <2>1 DEF Outcome
<1>2. Outcome(u, id, None, w) = ApplyToAbsent(u, id)
  BY <1>1 DEF Outcome
<1>3. /\ OpOf[id].type # "delete"
      /\ ValidateChanges(OpOf[id].changes, TRUE)
      /\ ApplyToAbsent(u, id) = ApplyUpsert(id, CreateInspection(u, id), TRUE, FALSE)
  <2>1. Reply("deleted", None).row = None /\ Reply("invalid", None).row = None
    BY DEF Reply
  <2>2. ApplyToAbsent(u, id) # Reply("deleted", None) /\ ApplyToAbsent(u, id) # Reply("invalid", None)
    BY <1>2, <2>1
  <2>3. OpOf[id].type # "delete"
    BY <2>2 DEF ApplyToAbsent
  <2>4. ValidateChanges(OpOf[id].changes, TRUE)
    BY <2>2, <2>3 DEF ApplyToAbsent
  <2> QED
    BY <2>3, <2>4 DEF ApplyToAbsent
<1>4. ApplyToAbsent(u, id) = Merge(id, CreateInspection(u, id), TRUE)
  BY <1>3, CreationMerges
<1>5. Merge(id, CreateInspection(u, id), TRUE).status \in {"applied", "conflict"}
  BY <1>3, CreateInspectionType, MergeType
<1> QED
  BY <1>2, <1>4, <1>5 DEF LedgeredStatus

\* What the ledger receives is an entry, and tells itself from no entry.
LEMMA EntryType ==
    ASSUME NEW u \in Users, NEW o \in Outcomes, o.status \in LedgeredStatus
    PROVE  Entry(u, o) \in Entries /\ Entry(u, o) # None
<1>1. Entry(u, o) \in Entries
  BY DEF Entry, Entries, Outcomes
<1>2. Entry(u, o) # None
  BY EntryAssumption, <1>1
<1> QED
  BY <1>1, <1>2

\* Settling a conflict touches one field, whose conflict was open, of the
\* user's own inspection, and leaves its tombstone as it was.
LEMMA ResolveKeeps ==
    ASSUME NEW u \in Users, NEW id \in OpIds, NEW row \in Row
    PROVE  LET r == ApplyResolve(u, id, row).row
           IN  /\ r # row => /\ row.owner = u
                             /\ OpOf[id].field \in Editable
                             /\ row.conflict[OpOf[id].field] # None
               /\ r.deleted = row.deleted
               /\ \A f \in Editable : f # OpOf[id].field =>
                     r.val[f] = row.val[f] /\ r.conflict[f] = row.conflict[f]
<1> DEFINE op == OpOf[id]
           g  == op.field
           settled == [row EXCEPT !.val[g] = op.value, !.by[g] = id,
                                  !.conflict[g] = None, !.rev = @ + 1]
<1>1. CASE ApplyResolve(u, id, row).row = row
  BY <1>1
<1>2. CASE ApplyResolve(u, id, row).row # row
  <2>1. \A s \in OutcomeStatus : Reply(s, row).row = row
    BY DEF Reply
  <2>2. /\ g \in Editable /\ row.owner = u /\ row.conflict[g] # None
        /\ ApplyResolve(u, id, row).row = settled
    BY <1>2 DEF ApplyResolve, Reply
  <2>3. /\ settled.deleted = row.deleted
        /\ \A f \in Editable : f # g =>
              settled.val[f] = row.val[f] /\ settled.conflict[f] = row.conflict[f]
    BY <2>2 DEF Row
  <2> QED
    BY <2>2, <2>3
<1> QED
  BY <1>1, <1>2

\* An upsert or a delete changes a row only if it is live and the user's.
LEMMA ToRowIsLive ==
    ASSUME NEW u \in Users, NEW id \in OpIds, NEW row \in Row, NEW w \in BOOLEAN,
           ApplyToRow(u, id, row, w).row # row
    PROVE  row.owner = u /\ ~ row.deleted
BY DEF ApplyToRow, Reply

\* A deleted row changes only by a resolve_conflict, and stays deleted.
LEMMA OutcomeOfDeadRow ==
    ASSUME NEW u \in Users, NEW id \in OpIds, NEW row \in Row, NEW w \in BOOLEAN,
           OpOf[id].type # "malformed", row.deleted,
           Outcome(u, id, row, w).row # row
    PROVE  Outcome(u, id, row, w).row.deleted /\ OpOf[id].type = "resolve_conflict"
<1>1. row # None
  BY NoneAssumption
<1>2. CASE OpOf[id].type = "resolve_conflict"
  <2>1. Outcome(u, id, row, w) = ApplyResolve(u, id, row)
    BY <1>2 DEF Outcome
  <2> QED
    BY <1>2, <2>1, ResolveKeeps
<1>3. CASE OpOf[id].type # "resolve_conflict"
  <2>1. Outcome(u, id, row, w) = ApplyToRow(u, id, row, w)
    BY <1>1, <1>3 DEF Outcome
  <2> QED
    BY <2>1, ToRowIsLive
<1> QED
  BY <1>2, <1>3
=============================================================================
