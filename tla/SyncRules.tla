------------------------------ MODULE SyncRules ------------------------------
(***************************************************************************)
(* The decision procedure of the sync server, as pure operators: what one  *)
(* operation does to one inspection (handlers_sync.go, models.go).         *)
(*                                                                         *)
(* An operation keeps its payload under its op id for ever (op ids are     *)
(* client-chosen UUIDs and a retry resends the same body), so payloads are *)
(* the constant function OpOf.  An inspection is one record: the row of    *)
(* table inspections together with its field_revs and its open conflicts,  *)
(* which the code reads and writes under the row's lock.  Times, messages  *)
(* and result codes are left out; a value is a member of a small set.      *)
(***************************************************************************)
EXTENDS Naturals

CONSTANTS
    Users,        \* user ids, as found in the token
    OpIds,        \* client-chosen operation ids
    Inspections,  \* inspection ids
    Names,        \* field names a payload may mention
    Editable,     \* editableFields
    Values,       \* JSON values
    ValidStatus,  \* the values validStatus accepts
    Title,        \* the field "title"
    Status,       \* the field "status"
    Submitted,    \* the value "submitted"
    Blank,        \* what an absent title defaults to, ""
    NewTitle,     \* what a blank title becomes
    Initial,      \* createInspection's defaults, by field
    SeedOp,       \* the op id that seeded rows carry
    Assigned,     \* the owner an inspection is seeded with, None if not seeded
    OpOf,         \* the payload of every operation
    None          \* no value, no row, no holder

Change == [v : Values \cup {None}, base : Values \cup {None}]

Operation ==
    [type    : {"upsert", "delete", "resolve_conflict", "malformed"},
     insp    : Inspections,
     changes : UNION {[F -> Change] : F \in SUBSET Names},
     field   : Names,
     value   : Values \cup {None}]

Conflict == [server : Values, client : Values,
             serverOp : OpIds \cup {SeedOp}, clientOp : OpIds]

Row == [owner    : Users,
        deleted  : BOOLEAN,
        rev      : Nat,
        val      : [Editable -> Values],
        by       : [Editable -> OpIds \cup {SeedOp}],
        conflict : [Editable -> Conflict \cup {None}]]

ASSUME FieldsAssumption ==
    /\ Editable \subseteq Names
    /\ {Title, Status} \subseteq Editable
    /\ Title # Status

ASSUME ValuesAssumption ==
    /\ {Blank, NewTitle, Submitted} \subseteq Values
    /\ ValidStatus \subseteq Values
    /\ Blank # NewTitle
    /\ Initial \in [Editable -> Values]

ASSUME NoneAssumption ==
    /\ None \notin Values
    /\ None \notin Row
    /\ None \notin Conflict

ASSUME OpAssumption ==
    /\ OpOf \in [OpIds -> Operation]
    /\ SeedOp \notin OpIds

ASSUME AssignedAssumption == Assigned \in [Inspections -> Users \cup {None}]

-----------------------------------------------------------------------------
(* Three-way merge *)

\* Mutant: last write wins.
ClassifyFieldByValue(server, v, base) == IF v = server THEN "noop" ELSE "apply"

\* A payload's base may be missing (None), which equals no server value.
ClassifyField(server, v, base) ==
    IF v = server THEN "noop"
    ELSE IF base = server THEN "apply"
    ELSE "conflict"

ValidateChanges(changes, creating) ==
    /\ DOMAIN changes # {}
    /\ DOMAIN changes \subseteq Editable
    /\ \A f \in DOMAIN changes :
          /\ changes[f].v # None
          /\ creating \/ changes[f].base # None
    /\ Status \in DOMAIN changes => changes[Status].v \in ValidStatus

\* Mutant: the op that wrote the server value is not recorded.
RecordConflictNoLineage(row, f, v, id) ==
    [server |-> row.val[f], client |-> v, serverOp |-> None, clientOp |-> id]

\* The conflict that a losing change opens, against the value and the op the
\* server holds.
RecordConflict(row, f, v, id) ==
    [server |-> row.val[f], client |-> v, serverOp |-> row.by[f], clientOp |-> id]

FieldsWith(verdict, changes, row) ==
    {f \in DOMAIN changes :
        ClassifyField(row.val[f], changes[f].v, changes[f].base) = verdict}

Merge(id, row, created) ==
    LET ch == OpOf[id].changes
        ff == FieldsWith("apply", ch, row)
        cf == FieldsWith("conflict", ch, row)
    IN  [status |-> IF cf = {} THEN "applied" ELSE "conflict",
         row |-> [owner    |-> row.owner,
                  deleted  |-> row.deleted,
                  rev      |-> IF ff # {} /\ ~created THEN row.rev + 1 ELSE row.rev,
                  val      |-> [f \in Editable |-> IF f \in ff THEN ch[f].v ELSE row.val[f]],
                  by       |-> [f \in Editable |-> IF f \in ff THEN id ELSE row.by[f]],
                  conflict |-> [f \in Editable |->
                      IF f \in cf THEN RecordConflict(row, f, ch[f].v, id) ELSE row.conflict[f]]]]

\* The row an upsert of an unknown inspection inserts; its owner is the user
\* of the token.
CreateInspection(u, id) ==
    LET ch == OpOf[id].changes
        given == [f \in Editable |-> IF f \in DOMAIN ch THEN ch[f].v ELSE Initial[f]]
    IN  [owner    |-> u,
         deleted  |-> FALSE,
         rev      |-> 1,
         val      |-> [given EXCEPT ![Title] = IF @ = Blank THEN NewTitle ELSE @],
         by       |-> [f \in Editable |-> id],
         conflict |-> [f \in Editable |-> None]]

\* A row the database is seeded with (its texts are as good as the defaults).
SeedRow(u) ==
    [owner |-> u, deleted |-> FALSE, rev |-> 1, val |-> Initial,
     by       |-> [f \in Editable |-> SeedOp],
     conflict |-> [f \in Editable |-> None]]

SeedRows ==
    [i \in Inspections |-> IF Assigned[i] = None THEN None ELSE SeedRow(Assigned[i])]

-----------------------------------------------------------------------------
(* Outcomes: the status reported for an operation and the row it leaves     *)
(* (None when there is none and the operation creates none).                *)

LedgeredStatus == {"applied", "deleted", "conflict", "forbidden", "invalid"}

OutcomeStatus == LedgeredStatus \cup {"attachments_incomplete", "error"}

Reply(status, row) == [status |-> status, row |-> row]

\* recordConflict refreshes a conflict that is open by an UPDATE that passes
\* $2 and does not use it; PostgreSQL cannot tell the type of such a parameter
\* and refuses the statement, which fails the operation.
CannotRefresh(id, row) ==
    \E f \in FieldsWith("conflict", OpOf[id].changes, row) : row.conflict[f] # None

MergeOrFail(id, row, created) ==
    IF CannotRefresh(id, row) THEN Reply("error", row) ELSE Merge(id, row, created)

\* Mutant: no submit gate.
ApplyUpsertUngated(id, row, created, waiting) == MergeOrFail(id, row, created)

\* Mutant: a conflict that is open is replaced by the new one.
ApplyUpsertReplacing(id, row, created, waiting) == Merge(id, row, created)

\* An upsert that passed every check; waiting says whether the inspection has
\* an attachment that is not completed.
ApplyUpsert(id, row, created, waiting) ==
    LET ch == OpOf[id].changes
    IN  IF Status \in DOMAIN ch /\ ch[Status].v = Submitted /\ waiting
        THEN Reply("attachments_incomplete", row)
        ELSE MergeOrFail(id, row, created)

\* Mutant: the UPDATE of conflicts forgets to name the field.
ApplyResolveAll(u, id, row) ==
    LET op == OpOf[id]
    IN  IF row = None \/ row.owner # u \/ row.conflict[op.field] = None
        THEN Reply("invalid", row)
        ELSE Reply("applied", [row EXCEPT !.val[op.field] = op.value,
                                          !.by[op.field] = id,
                                          !.conflict = [f \in Editable |-> None]])

\* resolve_conflict looks neither at the tombstone nor at the attachments.
ApplyResolve(u, id, row) ==
    LET op == OpOf[id]
        f  == op.field
    IN  IF f \notin Editable \/ row = None THEN Reply("invalid", row)
        ELSE IF row.owner # u THEN Reply("forbidden", row)
        ELSE IF row.conflict[f] = None THEN Reply("invalid", row)
        ELSE IF op.value = None THEN Reply("error", row)
        ELSE Reply("applied", [row EXCEPT !.val[f] = op.value, !.by[f] = id,
                                          !.conflict[f] = None, !.rev = @ + 1])

ApplyToAbsent(u, id) ==
    IF OpOf[id].type = "delete" THEN Reply("deleted", None)
    ELSE IF ~ ValidateChanges(OpOf[id].changes, TRUE) THEN Reply("invalid", None)
    ELSE ApplyUpsert(id, CreateInspection(u, id), TRUE, FALSE)

\* Mutant: no check of the tombstone.
ApplyToDeadRow(u, id, row, waiting) ==
    IF row.owner # u THEN Reply("forbidden", row)
    ELSE IF OpOf[id].type = "delete" THEN Reply("deleted", [row EXCEPT !.deleted = TRUE])
    ELSE ApplyUpsert(id, row, FALSE, waiting)

ApplyToRow(u, id, row, waiting) ==
    LET op == OpOf[id]
    IN  IF row.owner # u THEN Reply("forbidden", row)
        ELSE IF row.deleted THEN Reply("deleted", row)
        ELSE IF op.type = "delete"
             THEN Reply("deleted", [row EXCEPT !.deleted = TRUE, !.rev = @ + 1])
        ELSE IF ~ ValidateChanges(op.changes, FALSE) THEN Reply("invalid", row)
        ELSE ApplyUpsert(id, row, FALSE, waiting)

Outcome(u, id, row, waiting) ==
    IF OpOf[id].type = "resolve_conflict" THEN ApplyResolve(u, id, row)
    ELSE IF row = None THEN ApplyToAbsent(u, id)
    ELSE ApplyToRow(u, id, row, waiting)

-----------------------------------------------------------------------------
(* The idempotency ledger *)

\* Rejected before any transaction begins: not a UUID, or an unknown type.
Malformed(id) == OpOf[id].type = "malformed"

\* Mutant: a replay always reports success.
MarkApplied(status) ==
    IF status \in {"applied", "deleted", "conflict"} THEN "applied" ELSE status

MarkDuplicate(status) ==
    IF status \in {"applied", "deleted", "conflict"} THEN "duplicate" ELSE status

\* The OpResult stored for an op id: replays carry the inspection as it was
\* when the operation was applied.
Entry(u, out) ==
    [user |-> u, status |-> out.status,
     snap |-> IF out.status \in {"applied", "conflict"} THEN out.row ELSE None]

AnswerStatus == OutcomeStatus \cup {"duplicate"}

Entries == [user : Users, status : LedgeredStatus, snap : Row \cup {None}]

ASSUME EntryAssumption == None \notin Entries
=============================================================================
