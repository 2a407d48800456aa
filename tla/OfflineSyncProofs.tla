------------------------- MODULE OfflineSyncProofs -------------------------
(***************************************************************************)
(* What a device may rely on, for every value of the constants: what it    *)
(* shows as saved is in the server's ledger, and no op leaves its outbox   *)
(* undecided, however many devices, tabs, lost answers, restarts and       *)
(* resends there are.                                                      *)
(*                                                                         *)
(* The two follow from what each place of the protocol knows of the        *)
(* server: an answer that is still to be absorbed, the outbox, the page    *)
(* and the copy that pull works on are old, but they tell no lie, because  *)
(* what they tell of never changes: entries of the ledger are final, and   *)
(* so are the existence of an inspection and its tombstone.                *)
(***************************************************************************)
EXTENDS OfflineSync, SyncRulesProofs, FiniteSetTheorems

\* A record of the outbox claims no more than the ledger's entry says.
RecordTrue(rec, entry) ==
    /\ rec.state = "applied" => entry # None /\ MarkDuplicate(entry.status) = "duplicate"
    /\ rec.state = "conflict" => entry # None /\ entry.status = "conflict"

\* A result makes no record claim more than that.
AnswerTrue(r, entry) ==
    /\ After(r.status) = "applied" => entry # None /\ MarkDuplicate(entry.status) = "duplicate"
    /\ After(r.status) = "conflict" => entry # None /\ entry.status = "conflict"

\* A snapshot in the list was a row, and a tombstone if it is one.
SnapshotTrue(s, row) == row # None /\ (s.deleted => row.deleted)

OutboxTrue ==
    \A d \in Devices : \A id \in OpIds :
        box[d][id] # None => id \in Minted /\ RecordTrue(box[d][id], ledger[id])

AnswersTrue ==
    \A k \in Cycles : \A id \in OpIds :
        answer[k][id] # None => AnswerTrue(answer[k][id], ledger[id])

PageTrue ==
    \A k \in Cycles : \A i \in Inspections :
        page[k][i] # None => SnapshotTrue(page[k][i], rows[i])

CopyTrue ==
    \A k \in Cycles : \A id \in OpIds : copy[k][id] = "applied" => ledger[id] # None

Absorbing == {"absorb", "save", "sweep"}

\* A cycle has ops to wait for or to absorb, and what it absorbs has been
\* answered.
CycleOK(k) ==
    /\ todo[k] \subseteq Minted
    /\ pc[k] \in Absorbing \cup {"wait"} => todo[k] # {}
    /\ pc[k] \in Absorbing => \A id \in todo[k] : answer[k][id] # None

\* The request a cycle waits for is the only one, and the ops it no longer
\* lists are answered.
RequestOK(h) ==
    request[h] # None =>
        /\ request[h].left \subseteq Minted
        /\ request[h].by # None =>
              /\ pc[request[h].by] = "wait"
              /\ \A id \in todo[request[h].by] :
                    id \in request[h].left \/ answer[request[h].by][id] # None

OneRequestEach ==
    \A h, g \in Handlers :
        request[h] # None /\ request[g] # None /\ request[h].by # None
        /\ request[h].by = request[g].by => h = g

Inv ==
    /\ TypeOK
    /\ IsFiniteSet(Minted)
    /\ OutboxTrue
    /\ AnswersTrue
    /\ PageTrue
    /\ CopyTrue
    /\ \A k \in Cycles : CycleOK(k)
    /\ \A h \in Handlers : RequestOK(h)
    /\ OneRequestEach

-----------------------------------------------------------------------------
(* The order of the outbox *)

\* The first op of a finite, non-empty set is one of them, and none of them
\* is earlier: among the sets of those not later than x, x in the set, there
\* is a smallest one.
LEMMA FirstInSet ==
    ASSUME TypeOK, NEW ids, ids \subseteq OpIds, IsFiniteSet(ids), ids # {}
    PROVE  First(ids) \in ids /\ \A j \in ids : at[First(ids)] <= at[j]
<1> DEFINE Upto(x) == {j \in ids : at[j] <= at[x]}
           Sets_ == {Upto(x) : x \in ids}
<1>1. \A j \in ids : at[j] \in Int
  BY DEF TypeOK
<1>2. Sets_ \subseteq FiniteSubsetsOf(ids) /\ Sets_ # {}
  <2>1. ASSUME NEW x \in ids
        PROVE  Upto(x) \in SUBSET ids /\ IsFiniteSet(Upto(x))
    BY FS_Subset
  <2> QED
    BY <2>1 DEF FiniteSubsetsOf
<1>3. PICK T \in Sets_ : \A U \in Sets_ : ~ (<<U, T>> \in StrictSubsetOrdering(ids))
  BY <1>2, FS_StrictSubsetOrderingWellFounded, WFMin
<1>4. PICK x \in ids : T = Upto(x)
  BY <1>3
<1>5. ASSUME NEW y \in ids, ~ (at[x] <= at[y])
      PROVE  FALSE
  <2>1. Upto(y) \subseteq Upto(x) /\ x \in Upto(x) /\ x \notin Upto(y)
    BY <1>1, <1>5
  <2>2. <<Upto(y), T>> \in StrictSubsetOrdering(ids)
    BY <1>4, <2>1 DEF StrictSubsetOrdering
  <2> QED
    BY <1>3, <2>2
<1> QED
  BY <1>5 DEF First

\* The next op of a request, and the next one to absorb.
LEMMA NextOp ==
    ASSUME Inv, NEW ids, ids \subseteq Minted, ids # {}
    PROVE  First(ids) \in ids /\ First(ids) \in OpIds
<1>1. ids \subseteq OpIds /\ IsFiniteSet(ids)
  BY FS_Subset DEF Inv, Minted
<1> QED
  BY <1>1, FirstInSet DEF Inv

-----------------------------------------------------------------------------
(* The server *)

\* AtomicSync decides by the same rules; as an instance it has its own copy
\* of their definitions.
LEMMA SameRules ==
    /\ Server!SeedRows = SeedRows
    /\ Server!LedgeredStatus = LedgeredStatus
    /\ Server!Row = Row
    /\ Server!Entries = Entries
    /\ \A id : Server!Malformed(id) <=> Malformed(id)
    /\ \A u, o : Server!Entry(u, o) = Entry(u, o)
    /\ \A u, id, row, w : Server!Outcome(u, id, row, w) = Outcome(u, id, row, w)
<1>1. /\ Server!SeedRows = SeedRows
      /\ Server!LedgeredStatus = LedgeredStatus
      /\ \A id : Server!Malformed(id) <=> Malformed(id)
      /\ \A u, o : Server!Entry(u, o) = Entry(u, o)
  BY DEF Server!SeedRows, SeedRows, Server!SeedRow, SeedRow, Server!LedgeredStatus,
         LedgeredStatus, Server!Malformed, Malformed, Server!Entry, Entry
<1>2. Server!Row = Row
  BY DEF Server!Row, Row, Server!Conflict, Conflict
<1>3. Server!Entries = Entries
  BY <1>1, <1>2 DEF Server!Entries, Entries
<1>4. \A s, row : Server!Reply(s, row) = Reply(s, row)
  BY DEF Server!Reply, Reply
<1>5. \A changes, creating :
         Server!ValidateChanges(changes, creating) <=> ValidateChanges(changes, creating)
  BY DEF Server!ValidateChanges, ValidateChanges
<1>6. \A id, row, created : Server!Merge(id, row, created) = Merge(id, row, created)
  BY DEF Server!Merge, Merge, Server!FieldsWith, FieldsWith, Server!ClassifyField,
         ClassifyField, Server!RecordConflict, RecordConflict
<1>6a. \A id, row, created :
         Server!MergeOrFail(id, row, created) = MergeOrFail(id, row, created)
  <2>1. \A id, row : Server!CannotRefresh(id, row) <=> CannotRefresh(id, row)
    BY DEF Server!CannotRefresh, CannotRefresh, Server!FieldsWith, FieldsWith,
           Server!ClassifyField, ClassifyField
  <2> QED
    BY <1>4, <1>6, <2>1 DEF Server!MergeOrFail, MergeOrFail
<1>7. \A u, id : Server!CreateInspection(u, id) = CreateInspection(u, id)
  BY DEF Server!CreateInspection, CreateInspection
<1>8. \A id, row, created, w :
         Server!ApplyUpsert(id, row, created, w) = ApplyUpsert(id, row, created, w)
  BY <1>4, <1>6a DEF Server!ApplyUpsert, ApplyUpsert
<1>9. \A u, id, row : Server!ApplyResolve(u, id, row) = ApplyResolve(u, id, row)
  BY <1>4 DEF Server!ApplyResolve, ApplyResolve
<1>10. \A u, id : Server!ApplyToAbsent(u, id) = ApplyToAbsent(u, id)
  BY <1>4, <1>5, <1>7, <1>8 DEF Server!ApplyToAbsent, ApplyToAbsent
<1>11. \A u, id, row, w : Server!ApplyToRow(u, id, row, w) = ApplyToRow(u, id, row, w)
  BY <1>4, <1>5, <1>8 DEF Server!ApplyToRow, ApplyToRow
<1> QED
  BY <1>1, <1>2, <1>3, <1>9, <1>10, <1>11 DEF Server!Outcome, Outcome

\* What is known of the server stays true.
Grows ==
    /\ \A id \in OpIds : ledger[id] # None => ledger'[id] = ledger[id]
    /\ \A i \in Inspections :
          rows[i] # None => rows'[i] # None /\ (rows[i].deleted => rows'[i].deleted)

\* An operation that takes effect enters the ledger with its outcome, which
\* is an entry; no other entry changes, no inspection is lost, and no
\* tombstone lifted.
LEMMA ApplyGrows ==
    ASSUME Server!TypeOK, NEW u \in Users, NEW id \in OpIds, Server!Apply(u, id)
    PROVE  LET out == Outcome(u, id, rows[OpOf[id].insp], OpOf[id].insp \in waiting)
           IN  /\ Server!TypeOK'
               /\ Grows
               /\ out \in Outcomes
               /\ out.status \in LedgeredStatus
               /\ ledger'[id] = Entry(u, out)
               /\ Entry(u, out) \in Entries
               /\ Entry(u, out) # None
<1> DEFINE i   == OpOf[id].insp
           row == rows[i]
           w   == i \in waiting
           out == Outcome(u, id, row, w)
<1>1. w \in BOOLEAN
  OBVIOUS
<1>2. /\ rows \in [Inspections -> Row \cup {None}]
      /\ ledger \in [OpIds -> Entries \cup {None}]
      /\ waiting \subseteq Inspections
  BY SameRules DEF Server!TypeOK
<1>3. i \in Inspections /\ row \in Row \cup {None}
  BY <1>2, PayloadType
<1>4. Outcome(u, id, row, i \in waiting) = out
  OBVIOUS
<1>5. out \in Outcomes /\ (out.row = None => row = None)
  <2> HIDE DEF w
  <2> QED
    BY <1>1, <1>3, OutcomeType
<1>6. /\ OpOf[id].type # "malformed"
      /\ ledger[id] = None
      /\ out.status \in LedgeredStatus
      /\ rows' = [rows EXCEPT ![i] = out.row]
      /\ ledger' = [ledger EXCEPT ![id] = Entry(u, out)]
      /\ waiting' = waiting
  BY <1>4, SameRules DEF Server!Apply, Malformed
<1>7. Entry(u, out) \in Entries /\ Entry(u, out) # None
  BY <1>5, <1>6, EntryType
<1>8. out.row \in Row \cup {None}
  BY <1>5 DEF Outcomes
<1>9. row # None /\ row.deleted => out.row.deleted
  <2> HIDE DEF w
  <2> QED
    BY <1>1, <1>3, <1>6, OutcomeOfDeadRow
<1> HIDE DEF out, i
<1>10. Server!TypeOK'
  <2>1. /\ rows' \in [Inspections -> Row \cup {None}]
        /\ ledger' \in [OpIds -> Entries \cup {None}]
        /\ waiting' \subseteq Inspections
    BY <1>2, <1>6, <1>7, <1>8
  <2> QED
    BY <2>1, SameRules DEF Server!TypeOK
<1>11. Grows
  BY <1>2, <1>3, <1>5, <1>6, <1>7, <1>9 DEF Grows
<1>12. ledger'[id] = Entry(u, out)
  BY <1>2, <1>6
<1> QED
  BY <1>4, <1>5, <1>6, <1>7, <1>10, <1>11, <1>12 DEF i

-----------------------------------------------------------------------------
(* Which actions change what *)

\* The server changes only by an operation that takes effect, or by uploads.
LEMMA ServerFrame ==
    ASSUME Inv, [Next]_vars
    PROVE  \/ UNCHANGED server
           \/ \E u \in Users, id \in OpIds : Server!Apply(u, id)
           \/ \E i \in Inspections : Server!OpenAttachment(i) \/ Server!CompleteAttachments(i)
<1>1. ASSUME NEW h \in Handlers, Serve(h) \/ OpFails(h)
      PROVE  UNCHANGED server \/ \E u \in Users, id \in OpIds : Server!Apply(u, id)
  <2>1. /\ request[h] # None /\ request[h].left # {}
        /\ \/ UNCHANGED server
           \/ Server!Apply(request[h].user, First(request[h].left))
    BY <1>1 DEF Serve, OpFails
  <2>2. request[h].user \in Users /\ request[h].left \subseteq Minted
    BY <2>1 DEF Inv, TypeOK, Request, RequestOK
  <2>3. First(request[h].left) \in OpIds
    BY <2>1, <2>2, NextOp
  <2> QED
    BY <2>1, <2>2, <2>3
<1>2. ASSUME NEW d \in Devices, User(d) \/ Reload(d) \/ \E id \in OpIds : EnqueueOp(d, id)
      PROVE  UNCHANGED server
  BY <1>2 DEF User, Reload, EnqueueOp, StageOp, StageCreate, StageDelete, ResolveConflict,
     DiscardOps, Logout, Login
<1>3. ASSUME NEW k \in Cycles, Cycle(k) \/ NetworkFails(k) \/ RequestFails(k) \/ PullFails(k)
      PROVE  UNCHANGED server
  BY <1>3 DEF Cycle, NetworkFails, RequestFails, PullFails, Begin, SyncOps, AbsorbResult,
     UpdateOp, Sweep, ListRows, ListConflicts, ReadLocal, MergeSnapshot
<1>4. ASSUME NEW h \in Handlers, Respond(h) \/ HandlerEnds(h)
      PROVE  UNCHANGED server
  BY <1>4 DEF Respond, HandlerEnds
<1>5. CASE UNCHANGED vars
  BY <1>5 DEF vars, server
<1> QED
  BY <1>1, <1>2, <1>3, <1>4, <1>5
  DEF Next, Handle, RemoteApply, OpenAttachment, CompleteAttachments

\* The outbox changes when an op is enqueued, when the user discards, when a
\* result is absorbed and when pull prunes.
LEMMA BoxFrame ==
    ASSUME [Next]_vars
    PROVE  \/ box' = box
           \/ \E d \in Devices, id \in OpIds : Enqueue(d, id)
           \/ \E d \in Devices, i \in Inspections : DiscardOps(d, i)
           \/ \E k \in Cycles : UpdateOp(k) \/ Sweep(k)
           \/ \E k \in Cycles, i \in Inspections : MergeSnapshot(k, i)
<1>1. ASSUME NEW d \in Devices, User(d) \/ Reload(d) \/ \E id \in OpIds : EnqueueOp(d, id)
      PROVE  \/ box' = box
             \/ \E id \in OpIds : Enqueue(d, id)
             \/ \E i \in Inspections : DiscardOps(d, i)
  BY <1>1 DEF User, Reload, EnqueueOp, StageOp, StageCreate, StageDelete, ResolveConflict,
     Logout, Login
<1>2. ASSUME NEW k \in Cycles, Cycle(k) \/ NetworkFails(k) \/ RequestFails(k) \/ PullFails(k)
      PROVE  \/ box' = box \/ UpdateOp(k) \/ Sweep(k)
             \/ \E i \in Inspections : MergeSnapshot(k, i)
  BY <1>2 DEF Cycle, NetworkFails, RequestFails, PullFails, Begin, SyncOps, AbsorbResult,
     ListRows, ListConflicts, ReadLocal, device
<1>3. ASSUME NEW h \in Handlers, Handle(h) \/ OpFails(h)
      PROVE  box' = box
  BY <1>3 DEF Handle, Serve, OpFails, Respond, HandlerEnds, Answered, device
<1>4. CASE UNCHANGED vars
  BY <1>4 DEF vars
<1> QED
  BY <1>1, <1>2, <1>3, <1>4
  DEF Next, RemoteApply, OpenAttachment, CompleteAttachments, device

\* An op is stamped only when it is enqueued.
LEMMA AtFrame ==
    ASSUME [Next]_vars
    PROVE  at' = at \/ \E d \in Devices, id \in OpIds : Enqueue(d, id)
<1>1. ASSUME NEW d \in Devices, User(d) \/ Reload(d) \/ \E id \in OpIds : EnqueueOp(d, id)
      PROVE  at' = at \/ \E id \in OpIds : Enqueue(d, id)
  BY <1>1 DEF User, Reload, EnqueueOp, StageOp, StageCreate, StageDelete, ResolveConflict,
     DiscardOps, Logout, Login
<1>2. ASSUME NEW k \in Cycles, Cycle(k) \/ NetworkFails(k) \/ RequestFails(k) \/ PullFails(k)
      PROVE  at' = at
  BY <1>2 DEF Cycle, NetworkFails, RequestFails, PullFails, Begin, SyncOps, AbsorbResult,
     UpdateOp, Sweep, ListRows, ListConflicts, ReadLocal, MergeSnapshot, device
<1>3. ASSUME NEW h \in Handlers, Handle(h) \/ OpFails(h)
      PROVE  at' = at
  BY <1>3 DEF Handle, Serve, OpFails, Respond, HandlerEnds, Answered, device
<1>4. CASE UNCHANGED vars
  BY <1>4 DEF vars
<1> QED
  BY <1>1, <1>2, <1>3, <1>4
  DEF Next, RemoteApply, OpenAttachment, CompleteAttachments, device

-----------------------------------------------------------------------------
(* What a step makes of the server and of the stamps *)

\* A device's step, an upload or an operation leaves what is known of the
\* server true.
LEMMA ServerStep ==
    ASSUME Inv, [Next]_vars
    PROVE  Server!TypeOK' /\ Grows
<1>1. Server!TypeOK
  BY DEF Inv, TypeOK
<1>2. CASE UNCHANGED server
  BY <1>1, <1>2 DEF server, Server!TypeOK, Grows
<1>3. ASSUME NEW i \in Inspections, Server!OpenAttachment(i) \/ Server!CompleteAttachments(i)
      PROVE  Server!TypeOK' /\ Grows
  BY <1>1, <1>3 DEF Server!OpenAttachment, Server!CompleteAttachments, Server!TypeOK, Grows
<1> QED
  BY <1>1, <1>2, <1>3, ServerFrame, ApplyGrows

\* What an incident adds to the past.
LEMMA IncidentAdds ==
    ASSUME past \in Past, NEW kind, NEW ids \in SUBSET OpIds, IncidentWith(kind, ids)
    PROVE  /\ kind \in Incidents
           /\ past' \in Past
           /\ past'.photos = past.photos + IF kind = "photo" THEN 1 ELSE 0
           /\ past'.discarded = past.discarded \cup ids
           /\ past'.overlap = past.overlap
<1> DEFINE n == IF kind = "photo" THEN 1 ELSE 0
           e == past.discarded \cup ids
<1>1. n \in Nat
  OBVIOUS
<1>2. past' = [past EXCEPT !.incidents = @ + 1, !.photos = @ + n, !.discarded = e]
  BY DEF IncidentWith
<1>3. kind \in Incidents
  BY DEF IncidentWith
<1>4. /\ past.incidents + 1 \in Nat /\ past.photos + n \in Nat
      /\ past.discarded \in SUBSET OpIds /\ past.overlap \in BOOLEAN
  BY <1>1 DEF Past
<1>5. e \in SUBSET OpIds
  BY <1>4
<1> HIDE DEF n, e
<1>6. /\ past'.incidents = past.incidents + 1 /\ past'.photos = past.photos + n
      /\ past'.discarded = e /\ past'.overlap = past.overlap
  BY <1>2 DEF Past
<1>7. past' \in Past
  BY <1>2, <1>4, <1>5 DEF Past
<1> QED
  BY <1>3, <1>6, <1>7 DEF n, e

LEMMA IncidentHappens ==
    ASSUME past \in Past, NEW kind, Incident(kind)
    PROVE  /\ kind \in Incidents
           /\ past' \in Past
           /\ past'.photos = past.photos + IF kind = "photo" THEN 1 ELSE 0
           /\ past'.discarded = past.discarded
           /\ past'.overlap = past.overlap
<1>1. IncidentWith(kind, {})
  BY DEF Incident
<1> QED
  BY <1>1, IncidentAdds

\* What the beginning of a cycle adds to it.
LEMMA BeginAdds ==
    ASSUME past \in Past, NEW k \in Cycles, Begin(k)
    PROVE  /\ past' \in Past
           /\ past'.photos = past.photos
           /\ past'.discarded = past.discarded
           /\ past'.overlap <=> past.overlap \/ Working(On[k])
<1> DEFINE w == Working(On[k])
<1>1. w \in BOOLEAN
  BY DEF Working
<1>2. past' = [past EXCEPT !.overlap = @ \/ w]
  BY DEF Begin
<1> HIDE DEF w
<1>3. past.overlap \in BOOLEAN
  BY DEF Past
<1> DEFINE o == past.overlap \/ w
<1>5. o \in BOOLEAN
  BY <1>1, <1>3
<1>6. past' = [past EXCEPT !.overlap = o]
  BY <1>2
<1>7. past' \in Past /\ past'.photos = past.photos /\ past'.discarded = past.discarded
      /\ past'.overlap = o
  <2> HIDE DEF o
  <2> QED
    BY <1>5, <1>6 DEF Past
<1> QED
  BY <1>7 DEF w

\* Enqueueing mints the op, whichever way its stamp goes.
LEMMA EnqueueMints ==
    ASSUME Inv, NEW d \in Devices, NEW id \in OpIds, Enqueue(d, id)
    PROVE  /\ at' \in [OpIds -> Int]
           /\ Minted' = Minted \cup {id}
           /\ IsFiniteSet(Minted')
           /\ past' \in Past
<1> DEFINE n == Cardinality(Minted) + 1
<1>1. n \in Nat /\ n # 0 /\ -n # 0 /\ n \in Int /\ -n \in Int
  <2>1. Cardinality(Minted) \in Nat
    BY FS_CardinalityType DEF Inv
  <2> QED
    BY <2>1
<1>2. /\ at' = [at EXCEPT ![id] = n] \/ at' = [at EXCEPT ![id] = -n]
      /\ past' = past \/ Incident("backdate")
  BY DEF Enqueue
<1> HIDE DEF n
<1>3. at \in [OpIds -> Int] /\ past \in Past
  BY DEF Inv, TypeOK
<1>4. at' \in [OpIds -> Int]
  BY <1>1, <1>2, <1>3
<1>5. at'[id] # 0 /\ \A j \in OpIds \ {id} : at'[j] = at[j]
  BY <1>1, <1>2, <1>3
<1>6. Minted' = Minted \cup {id}
  BY <1>5 DEF Minted
<1>7. IsFiniteSet(Minted')
  BY <1>6, FS_AddElement DEF Inv
<1>8. past' \in Past
  BY <1>2, <1>3, IncidentHappens
<1> QED
  BY <1>4, <1>6, <1>7, <1>8

\* No op is unminted, and there are finitely many.
LEMMA MintedStep ==
    ASSUME Inv, [Next]_vars
    PROVE  /\ at' \in [OpIds -> Int]
           /\ Minted \subseteq Minted'
           /\ IsFiniteSet(Minted')
<1>1. CASE at' = at
  <2>1. Minted' = Minted
    BY <1>1 DEF Minted
  <2> QED
    BY <1>1, <2>1 DEF Inv, TypeOK
<1>2. ASSUME NEW d \in Devices, NEW id \in OpIds, Enqueue(d, id)
      PROVE  /\ at' \in [OpIds -> Int]
             /\ Minted \subseteq Minted'
             /\ IsFiniteSet(Minted')
  BY <1>2, EnqueueMints
<1> QED
  BY <1>1, <1>2, AtFrame

\* What was true of an entry, or of an inspection, stays true.
LEMMA TruthStays ==
    ASSUME Inv, [Next]_vars
    PROVE  /\ \A id \in OpIds : \A rec :
                 RecordTrue(rec, ledger[id]) => RecordTrue(rec, ledger'[id])
           /\ \A id \in OpIds : \A r :
                 AnswerTrue(r, ledger[id]) => AnswerTrue(r, ledger'[id])
           /\ \A i \in Inspections : \A s :
                 SnapshotTrue(s, rows[i]) => SnapshotTrue(s, rows'[i])
           /\ \A id \in OpIds : ledger[id] # None => ledger'[id] # None
<1>1. Grows
  BY ServerStep
<1> QED
  BY <1>1 DEF Grows, RecordTrue, AnswerTrue, SnapshotTrue

-----------------------------------------------------------------------------
(* What a step makes of the outbox *)

\* What absorbing a result leaves is a record, as true as the result.
LEMMA PatchTrue ==
    ASSUME NEW rec \in Recorded, NEW id \in OpIds, NEW r \in Result, NEW entry,
           AnswerTrue(r, entry)
    PROVE  /\ Patch(rec, id, r) \in Recorded
           /\ RecordTrue(Patch(rec, id, r), entry)
<1>1. After(r.status) \in States
  BY DEF After, States
<1>2. (IF After(r.status) = "failed" THEN Retryable(r.status) ELSE rec.retry) \in BOOLEAN
  <2>1. rec.retry \in BOOLEAN
    BY DEF Recorded
  <2>2. Retryable(r.status) \in BOOLEAN
    BY DEF Retryable
  <2> QED
    BY <2>1, <2>2
<1>3. ConflictFields(id, r) \subseteq Editable
  BY DEF ConflictFields
<1>4. r.status \in AnswerStatus \cup {"unavailable", "refused", None}
  BY DEF Result
<1>5. Patch(rec, id, r) \in Recorded
  BY <1>1, <1>2, <1>3, <1>4 DEF Patch, Recorded
<1>6. Patch(rec, id, r).state = After(r.status)
  BY DEF Patch
<1> QED
  BY <1>5, <1>6 DEF RecordTrue, AnswerTrue

\* A cycle that absorbs has an answer to absorb, and it tells the truth.
LEMMA Absorbs ==
    ASSUME Inv, NEW k \in Cycles, pc[k] \in Absorbing
    PROVE  /\ First(todo[k]) \in todo[k]
           /\ First(todo[k]) \in Minted
           /\ First(todo[k]) \in OpIds
           /\ answer[k][First(todo[k])] \in Result
           /\ AnswerTrue(answer[k][First(todo[k])], ledger[First(todo[k])])
<1> DEFINE id == First(todo[k])
<1>1. todo[k] \subseteq Minted /\ todo[k] # {} /\ \A j \in todo[k] : answer[k][j] # None
  BY DEF Inv, CycleOK
<1>2. id \in todo[k] /\ id \in OpIds
  BY <1>1, NextOp
<1>3. answer[k][id] # None /\ answer[k][id] \in Result \cup {None}
  BY <1>1, <1>2 DEF Inv, TypeOK
<1>4. AnswerTrue(answer[k][id], ledger[id])
  BY <1>2, <1>3 DEF Inv, AnswersTrue
<1> QED
  BY <1>1, <1>2, <1>3, <1>4

\* Why an op may leave the outbox.
MayLeave(d, id) ==
    \/ ledger[id] # None
    \/ OpOf[id].type = "delete" /\ rows[OpOf[id].insp] # None /\ rows[OpOf[id].insp].deleted
    \/ DiscardOps(d, OpOf[id].insp)

\* What can become of an op's record in one step: it stays, it is written
\* and true, or it leaves.
LEMMA BoxStep ==
    ASSUME Inv, [Next]_vars
    PROVE  /\ box' \in [Devices -> [OpIds -> Recorded \cup {None}]]
           /\ \A d \in Devices, id \in OpIds :
                 \/ box'[d][id] = box[d][id]
                 \/ box'[d][id] = None /\ MayLeave(d, id)
                 \/ /\ id \in Minted' /\ box'[d][id] # None
                    /\ RecordTrue(box'[d][id], ledger'[id])
<1> DEFINE Typed == box' \in [Devices -> [OpIds -> Recorded \cup {None}]]
           Steps(d, id) == \/ box'[d][id] = box[d][id]
                           \/ box'[d][id] = None /\ MayLeave(d, id)
                           \/ /\ id \in Minted' /\ box'[d][id] # None
                              /\ RecordTrue(box'[d][id], ledger'[id])
<1>1. /\ box \in [Devices -> [OpIds -> Recorded \cup {None}]]
      /\ None \notin Recorded
      /\ Minted \subseteq Minted'
      /\ On \in [Cycles -> Devices]
  BY MintedStep, RecordsAssumption, DevicesAssumption DEF Inv, TypeOK
<1>2. CASE box' = box
  BY <1>1, <1>2
<1>3. ASSUME NEW e \in Devices, NEW j \in OpIds, Enqueue(e, j)
      PROVE  Typed /\ \A d \in Devices, id \in OpIds : Steps(d, id)
  <2>1. Fresh \in Recorded /\ RecordTrue(Fresh, ledger'[j])
    BY DEF Fresh, Recorded, States, RecordTrue
  <2>2. j \in Minted'
    BY <1>3, EnqueueMints
  <2>3. box' = [box EXCEPT ![e][j] = Fresh]
    BY <1>3 DEF Enqueue
  <2> QED
    BY <1>1, <2>1, <2>2, <2>3
<1>4. ASSUME NEW e \in Devices, NEW i \in Inspections, DiscardOps(e, i)
      PROVE  Typed /\ \A d \in Devices, id \in OpIds : Steps(d, id)
  <2>1. box' = [box EXCEPT ![e] = [id \in OpIds |-> IF OpOf[id].insp = i THEN None ELSE @[id]]]
    BY <1>4 DEF DiscardOps
  <2>2. Typed
    BY <1>1, <2>1
  <2>3. ASSUME NEW d \in Devices, NEW id \in OpIds, box'[d][id] # box[d][id]
        PROVE  box'[d][id] = None /\ d = e /\ OpOf[id].insp = i
    BY <1>1, <2>1, <2>3
  <2> QED
    BY <1>4, <2>2, <2>3 DEF MayLeave
<1>5. ASSUME NEW k \in Cycles, UpdateOp(k)
      PROVE  Typed /\ \A d \in Devices, id \in OpIds : Steps(d, id)
  <2> DEFINE e == On[k]
             j == First(todo[k])
             r == answer[k][j]
             rec == IF box[e][j] # None THEN box[e][j] ELSE Fresh
  <2>1. /\ j \in Minted /\ j \in OpIds /\ r \in Result /\ AnswerTrue(r, ledger[j])
    BY <1>5, Absorbs DEF UpdateOp, Absorbing
  <2>2. e \in Devices /\ rec \in Recorded
    BY <1>1, <2>1 DEF Fresh, Recorded, States
  <2>3. AnswerTrue(r, ledger'[j])
    BY <2>1, TruthStays
  <2>4. box' = [box EXCEPT ![e][j] = Patch(rec, j, r)]
    BY <1>5 DEF UpdateOp
  <2> HIDE DEF e, j, r, rec
  <2>5. Patch(rec, j, r) \in Recorded /\ RecordTrue(Patch(rec, j, r), ledger'[j])
    BY <2>1, <2>2, <2>3, PatchTrue
  <2> QED
    BY <1>1, <2>1, <2>2, <2>4, <2>5
<1>6. ASSUME NEW k \in Cycles, Sweep(k)
      PROVE  Typed /\ \A d \in Devices, id \in OpIds : Steps(d, id)
  <2> DEFINE e == On[k]
             open == {f \in Editable : answer[k][First(todo[k])].snap.conflict[f] # None}
             R == Released(e, First(todo[k]), open)
  <2>1. /\ e \in Devices
        /\ box' = [box EXCEPT ![e] = [p \in OpIds |->
                      IF p \in R THEN [@[p] EXCEPT !.state = "applied"] ELSE @[p]]]
    BY <1>1, <1>6 DEF Sweep
  <2>2. \A p \in R : p \in OpIds /\ box[e][p] # None /\ box[e][p].state = "conflict"
    BY DEF Released, BoxOf, InBox
  <2> HIDE DEF R, e
  <2>3. ASSUME NEW p \in R
        PROVE  /\ [box[e][p] EXCEPT !.state = "applied"] \in Recorded
               /\ RecordTrue([box[e][p] EXCEPT !.state = "applied"], ledger'[p])
               /\ p \in Minted
    <3>1. p \in OpIds /\ box[e][p] \in Recorded /\ box[e][p].state = "conflict" /\ box[e][p] # None
      BY <1>1, <2>1, <2>2
    <3>2. p \in Minted /\ RecordTrue(box[e][p], ledger[p])
      BY <2>1, <3>1 DEF Inv, OutboxTrue
    <3>3. RecordTrue(box[e][p], ledger'[p])
      BY <3>1, <3>2, TruthStays
    <3>4. ledger'[p] # None /\ MarkDuplicate(ledger'[p].status) = "duplicate"
      BY <3>1, <3>3 DEF RecordTrue, MarkDuplicate
    <3>5. [box[e][p] EXCEPT !.state = "applied"] \in Recorded
      BY <3>1 DEF Recorded, States
    <3>6. [box[e][p] EXCEPT !.state = "applied"].state = "applied"
      BY <3>1 DEF Recorded
    <3> QED
      BY <3>2, <3>4, <3>5, <3>6 DEF RecordTrue
  <2>4. Typed
    BY <1>1, <2>1, <2>3
  <2>5. \A d \in Devices, id \in OpIds :
            box'[d][id] = IF d = e /\ id \in R THEN [box[e][id] EXCEPT !.state = "applied"]
                                               ELSE box[d][id]
    BY <1>1, <2>1
  <2>6. ASSUME NEW d \in Devices, NEW id \in OpIds
        PROVE  Steps(d, id)
    BY <1>1, <2>3, <2>5
  <2> QED
    BY <2>4, <2>6
<1>7. ASSUME NEW k \in Cycles, NEW i \in Inspections, MergeSnapshot(k, i)
      PROVE  Typed /\ \A d \in Devices, id \in OpIds : Steps(d, id)
  <2>1. /\ On[k] \in Devices
        /\ page[k][i] # None
        /\ box' = [box EXCEPT ![On[k]] = [id \in OpIds |->
                      IF id \in Prunable(k, i) THEN None ELSE @[id]]]
    BY <1>1, <1>7 DEF MergeSnapshot
  <2>2. ASSUME NEW id \in Prunable(k, i)
        PROVE  MayLeave(On[k], id)
    <3>1. /\ id \in OpIds /\ OpOf[id].insp = i
          /\ \/ copy[k][id] = "applied"
             \/ OpOf[id].type = "delete" /\ page[k][i].deleted
      BY DEF Prunable
    <3>2. CASE copy[k][id] = "applied"
      BY <3>1, <3>2 DEF MayLeave, Inv, CopyTrue
    <3>3. CASE OpOf[id].type = "delete" /\ page[k][i].deleted
      BY <2>1, <3>1, <3>3 DEF MayLeave, Inv, PageTrue, SnapshotTrue
    <3> QED
      BY <3>1, <3>2, <3>3
  <2>3. Typed
    BY <1>1, <2>1
  <2>4. ASSUME NEW d \in Devices, NEW id \in OpIds, box'[d][id] # box[d][id]
        PROVE  box'[d][id] = None /\ d = On[k] /\ id \in Prunable(k, i)
    BY <1>1, <2>1, <2>4
  <2> QED
    BY <2>2, <2>3, <2>4
<1> QED
  BY <1>2, <1>3, <1>4, <1>5, <1>6, <1>7, BoxFrame

\* The outbox keeps telling the truth.
LEMMA OutboxInv ==
    ASSUME Inv, [Next]_vars
    PROVE  OutboxTrue'
<1> SUFFICES ASSUME NEW d \in Devices, NEW id \in OpIds, box'[d][id] # None
             PROVE  id \in Minted' /\ RecordTrue(box'[d][id], ledger'[id])
  BY DEF OutboxTrue
<1>1. CASE box'[d][id] = box[d][id]
  <2>1. id \in Minted /\ RecordTrue(box[d][id], ledger[id])
    BY <1>1 DEF Inv, OutboxTrue
  <2> QED
    BY <1>1, <2>1, MintedStep, TruthStays
<1> QED
  BY <1>1, BoxStep

-----------------------------------------------------------------------------
(* What a step makes of the answers *)

\* A handler that goes on to its next op has a true answer to the one it
\* leaves behind: a replay, an outcome, or a failure.
LEMMA Served ==
    ASSUME Inv, [Next]_vars, NEW h \in Handlers, Serve(h) \/ OpFails(h)
    PROVE  LET id == First(request[h].left)
               k  == request[h].by
           IN  /\ request[h] # None
               /\ id \in request[h].left /\ id \in OpIds
               /\ request' = [request EXCEPT ![h].left = @ \ {id}]
               /\ UNCHANGED <<device, pc, todo, page, copy>>
               /\ \E r \in Result :
                     /\ AnswerTrue(r, ledger'[id])
                     /\ answer' = IF k = None THEN answer ELSE [answer EXCEPT ![k][id] = r]
<1> DEFINE id == First(request[h].left)
           k  == request[h].by
           u  == request[h].user
           True(r) == r \in Result /\ AnswerTrue(r, ledger'[id])
           Says(s, row) == Answered(h, id, s, row)
<1>1. request[h] # None /\ request[h].left # {}
  BY DEF Serve, OpFails
<1>2. u \in Users /\ request[h].left \subseteq Minted
  BY <1>1 DEF Inv, TypeOK, Request, RequestOK
<1>3. id \in request[h].left /\ id \in OpIds
  BY <1>1, <1>2, NextOp
<1>4. ledger[id] \in Entries \cup {None} /\ Server!TypeOK
  BY <1>3, SameRules DEF Inv, TypeOK, Server!TypeOK
<1>5. \A s \in {"invalid", "forbidden", "attachments_incomplete", "error"} :
          True([status |-> s, snap |-> None])
  BY DEF Result, AnswerStatus, OutcomeStatus, LedgeredStatus, AnswerTrue, After
<1>6. \E s, row : Says(s, row) /\ True([status |-> s, snap |-> row])
  <2>1. CASE Serve(h) /\ ledger[id] # None
    <3>1. ledger[id] \in Entries /\ ledger'[id] = ledger[id]
      BY <1>3, <1>4, <2>1, ServerStep DEF Grows
    <3>2. \/ Says(MarkDuplicate(ledger[id].status), ledger[id].snap)
          \/ Says("invalid", None)
      <4>1. ~ Server!Apply(u, id)
        BY <2>1 DEF Server!Apply
      <4> QED
        BY <2>1, <4>1 DEF Serve
    <3>3. True([status |-> MarkDuplicate(ledger[id].status), snap |-> ledger[id].snap])
      <4>1. ledger[id].status \in LedgeredStatus /\ ledger[id].snap \in Row \cup {None}
        BY <3>1 DEF Entries
      <4>2. MarkDuplicate(ledger[id].status) \in {"duplicate", "forbidden", "invalid"}
        BY <4>1 DEF MarkDuplicate, LedgeredStatus
      <4>3. [status |-> MarkDuplicate(ledger[id].status), snap |-> ledger[id].snap] \in Result
        BY <4>1, <4>2 DEF Result, AnswerStatus, OutcomeStatus, LedgeredStatus
      <4> QED
        BY <2>1, <3>1, <4>2, <4>3 DEF AnswerTrue, After
    <3> QED
      BY <1>5, <3>2, <3>3
  <2>2. CASE Serve(h) /\ ledger[id] = None
    <3> DEFINE out == Outcome(u, id, rows[OpOf[id].insp], OpOf[id].insp \in waiting)
    <3>1. CASE Server!Apply(u, id) /\ Says(Entry(u, out).status, Entry(u, out).snap)
      <4>1. /\ out.status \in LedgeredStatus
            /\ ledger'[id] = Entry(u, out) /\ Entry(u, out) \in Entries /\ Entry(u, out) # None
        BY <1>2, <1>3, <1>4, <3>1, ApplyGrows
      <4>2. Entry(u, out).status \in LedgeredStatus /\ Entry(u, out).snap \in Row \cup {None}
        BY <4>1 DEF Entries
      <4> HIDE DEF out
      <4>3. [status |-> Entry(u, out).status, snap |-> Entry(u, out).snap] \in Result
        BY <4>2 DEF Result, AnswerStatus, OutcomeStatus
      <4>4. AnswerTrue([status |-> Entry(u, out).status, snap |-> Entry(u, out).snap], ledger'[id])
        BY <4>1, <4>2 DEF AnswerTrue, After, MarkDuplicate, LedgeredStatus
      <4> QED
        BY <3>1, <4>3, <4>4
    <3>2. CASE out.status \notin LedgeredStatus /\ Says(out.status, None)
      <4>1. out.status \in OutcomeStatus
        <5> DEFINE row == rows[OpOf[id].insp]
                   w   == OpOf[id].insp \in waiting
        <5>1. row \in Row \cup {None} /\ w \in BOOLEAN
          BY <1>3, <1>4, SameRules, PayloadType DEF Server!TypeOK
        <5>2. out = Outcome(u, id, row, w)
          OBVIOUS
        <5> HIDE DEF out, row, w
        <5> QED
          BY <1>2, <1>3, <5>1, <5>2, OutcomeType DEF Outcomes
      <4>2. out.status \in {"attachments_incomplete", "error"}
        BY <3>2, <4>1 DEF OutcomeStatus
      <4> HIDE DEF out
      <4> QED
        BY <1>5, <3>2, <4>2
    <3> QED
      BY <2>2, <3>1, <3>2 DEF Serve
  <2>3. CASE OpFails(h)
    <3>1. Says("error", None)
      BY <2>3 DEF OpFails
    <3> QED
      BY <1>5, <3>1
  <2> QED
    BY <2>1, <2>2, <2>3
<1>7. PICK s, row : Says(s, row) /\ True([status |-> s, snap |-> row])
  BY <1>6
<1> QED
  BY <1>1, <1>3, <1>7 DEF Answered

\* The answers change when a request ends, when a handler goes on, when they
\* are absorbed and when they are dropped.
LEMMA AnswerFrame ==
    ASSUME TypeOK, [Next]_vars
    PROVE  \/ answer' = answer
           \/ \E h \in Handlers : Serve(h) \/ OpFails(h)
           \/ \E k \in Cycles : answer' = [answer EXCEPT ![k] = Nothing(OpIds)]
           \/ \E k \in Cycles, ids \in SUBSET OpIds, s \in {"unavailable", "refused"} :
                 answer' = [answer EXCEPT ![k] = AllAnswered(ids, s)]
           \/ \E k \in Cycles : answer' = [answer EXCEPT ![k][First(todo[k])] = None]
           \/ \E d \in Devices :
                 answer' = [k \in Cycles |-> IF On[k] = d THEN Nothing(OpIds) ELSE answer[k]]
<1> DEFINE Dropped   == \E k \in Cycles : answer' = [answer EXCEPT ![k] = Nothing(OpIds)]
           Failed    == \E k \in Cycles, ids \in SUBSET OpIds, s \in {"unavailable", "refused"} :
                           answer' = [answer EXCEPT ![k] = AllAnswered(ids, s)]
           Absorbed  == \E k \in Cycles : answer' = [answer EXCEPT ![k][First(todo[k])] = None]
           Forgotten == \E d \in Devices :
                           answer' = [k \in Cycles |-> IF On[k] = d THEN Nothing(OpIds)
                                                                    ELSE answer[k]]
<1>1. ASSUME NEW d \in Devices, User(d) \/ Reload(d) \/ \E id \in OpIds : EnqueueOp(d, id)
      PROVE  answer' = answer \/ Forgotten
  BY <1>1 DEF User, Reload, EnqueueOp, StageOp, StageCreate, StageDelete, ResolveConflict,
     DiscardOps, Logout, Login, cycle
<1>2. ASSUME NEW k \in Cycles, AbsorbResult(k) \/ UpdateOp(k) \/ Sweep(k)
      PROVE  answer' = answer \/ Absorbed
  BY <1>2 DEF AbsorbResult, UpdateOp, Sweep, NextResult, Done
<1>3. ASSUME NEW k \in Cycles, SyncOps(k)
      PROVE  answer' = answer \/ Failed
  <2>1. Due(On[k]) \in SUBSET OpIds
    BY DEF Due, InBox
  <2> QED
    BY <1>3, <2>1 DEF SyncOps
<1>4. ASSUME NEW k \in Cycles, RequestFails(k)
      PROVE  Failed
  BY <1>4 DEF RequestFails, TypeOK
<1>5. ASSUME NEW k \in Cycles, NetworkFails(k)
      PROVE  Dropped
  BY <1>5 DEF NetworkFails
<1>6. ASSUME NEW k \in Cycles,
             \/ Begin(k) \/ ListRows(k) \/ ListConflicts(k) \/ ReadLocal(k) \/ PullFails(k)
             \/ \E i \in Inspections : MergeSnapshot(k, i)
      PROVE  answer' = answer
  BY <1>6 DEF Begin, ListRows, ListConflicts, ReadLocal, PullFails, MergeSnapshot
<1>7. ASSUME NEW h \in Handlers, Respond(h) \/ HandlerEnds(h)
      PROVE  answer' = answer
  BY <1>7 DEF Respond, HandlerEnds, cycle
<1>8. CASE UNCHANGED vars
  BY <1>8 DEF vars
<1> QED
  BY <1>1, <1>2, <1>3, <1>4, <1>5, <1>6, <1>7, <1>8
  DEF Next, Cycle, Handle, RemoteApply, OpenAttachment, CompleteAttachments, cycle

\* The answers a cycle holds tell the truth.
LEMMA AnswersInv ==
    ASSUME Inv, [Next]_vars
    PROVE  /\ answer' \in [Cycles -> [OpIds -> Result \cup {None}]]
           /\ AnswersTrue'
<1> DEFINE Typed == answer' \in [Cycles -> [OpIds -> Result \cup {None}]]
           Steps == \A k \in Cycles, id \in OpIds :
                       \/ answer'[k][id] = None
                       \/ answer'[k][id] = answer[k][id]
                       \/ AnswerTrue(answer'[k][id], ledger'[id])
<1>1. answer \in [Cycles -> [OpIds -> Result \cup {None}]] /\ TypeOK
  BY DEF Inv, TypeOK
<1>2. Nothing(OpIds) \in [OpIds -> Result \cup {None}] /\ \A id \in OpIds : Nothing(OpIds)[id] = None
  BY DEF Nothing
<1>3. ASSUME answer' = answer
      PROVE  Typed /\ Steps
  BY <1>1, <1>3
<1>4. ASSUME NEW h \in Handlers, Serve(h) \/ OpFails(h)
      PROVE  Typed /\ Steps
  <2> DEFINE id == First(request[h].left)
             k  == request[h].by
  <2>1. PICK r \in Result :
            /\ AnswerTrue(r, ledger'[id])
            /\ answer' = IF k = None THEN answer ELSE [answer EXCEPT ![k][id] = r]
    BY <1>4, Served
  <2> HIDE DEF id, k
  <2> QED
    BY <1>1, <2>1
<1>5. ASSUME NEW k \in Cycles, answer' = [answer EXCEPT ![k] = Nothing(OpIds)]
      PROVE  Typed /\ Steps
  BY <1>1, <1>2, <1>5
<1>6. ASSUME NEW k \in Cycles, NEW ids \in SUBSET OpIds, NEW s \in {"unavailable", "refused"},
             answer' = [answer EXCEPT ![k] = AllAnswered(ids, s)]
      PROVE  Typed /\ Steps
  <2> DEFINE r == [status |-> s, snap |-> None]
  <2>1. r \in Result /\ \A entry : AnswerTrue(r, entry)
    BY DEF Result, AnswerTrue, After
  <2> HIDE DEF r
  <2>2. AllAnswered(ids, s) = [id \in OpIds |-> IF id \in ids THEN r ELSE None]
    BY DEF AllAnswered, r
  <2> QED
    BY <1>1, <1>6, <2>1, <2>2
<1>7. ASSUME NEW k \in Cycles, answer' = [answer EXCEPT ![k][First(todo[k])] = None]
      PROVE  Typed /\ Steps
  BY <1>1, <1>7
<1>8. ASSUME NEW d \in Devices,
             answer' = [k \in Cycles |-> IF On[k] = d THEN Nothing(OpIds) ELSE answer[k]]
      PROVE  Typed /\ Steps
  BY <1>1, <1>2, <1>8
<1>9. Typed /\ Steps
  BY <1>1, <1>3, <1>4, <1>5, <1>6, <1>7, <1>8, AnswerFrame
<1>10. AnswersTrue'
  <2> SUFFICES ASSUME NEW k \in Cycles, NEW id \in OpIds, answer'[k][id] # None
               PROVE  AnswerTrue(answer'[k][id], ledger'[id])
    BY DEF AnswersTrue
  <2>1. CASE answer'[k][id] = answer[k][id]
    <3>1. AnswerTrue(answer[k][id], ledger[id])
      BY <2>1 DEF Inv, AnswersTrue
    <3> QED
      BY <2>1, <3>1, TruthStays
  <2> QED
    BY <1>9, <2>1
<1> QED
  BY <1>9, <1>10

-----------------------------------------------------------------------------
(* What a step makes of the pages and the copies that pull works on *)

\* A page changes when a cycle lists, merges, fails or is ended.
LEMMA PageFrame ==
    ASSUME [Next]_vars
    PROVE  \/ page' = page
           \/ \E k \in Cycles : ListRows(k) \/ ListConflicts(k) \/ PullFails(k)
           \/ \E k \in Cycles, i \in Inspections : MergeSnapshot(k, i)
           \/ \E d \in Devices : Reload(d)
<1>1. ASSUME NEW d \in Devices, User(d) \/ \E id \in OpIds : EnqueueOp(d, id)
      PROVE  page' = page
  BY <1>1 DEF User, EnqueueOp, StageOp, StageCreate, StageDelete, ResolveConflict,
     DiscardOps, Logout, Login, cycle
<1>2. ASSUME NEW k \in Cycles,
             \/ Begin(k) \/ SyncOps(k) \/ AbsorbResult(k) \/ UpdateOp(k) \/ Sweep(k)
             \/ ReadLocal(k) \/ NetworkFails(k) \/ RequestFails(k)
      PROVE  page' = page
  BY <1>2 DEF Begin, SyncOps, AbsorbResult, UpdateOp, Sweep, ReadLocal, NetworkFails,
     RequestFails
<1>3. ASSUME NEW h \in Handlers, Handle(h) \/ OpFails(h)
      PROVE  page' = page
  BY <1>3 DEF Handle, Serve, OpFails, Respond, HandlerEnds, Answered, cycle
<1>4. CASE UNCHANGED vars
  BY <1>4 DEF vars
<1> QED
  BY <1>1, <1>2, <1>3, <1>4
  DEF Next, Cycle, RemoteApply, OpenAttachment, CompleteAttachments, cycle

\* The snapshots a cycle has listed were the server's.
LEMMA PageInv ==
    ASSUME Inv, [Next]_vars
    PROVE  /\ page' \in [Cycles -> [Inspections -> Row \cup {None}]]
           /\ PageTrue'
<1> DEFINE Typed == page' \in [Cycles -> [Inspections -> Row \cup {None}]]
           Steps == \A k \in Cycles, i \in Inspections :
                       \/ page'[k][i] = None
                       \/ page'[k][i] = page[k][i]
                       \/ SnapshotTrue(page'[k][i], rows[i])
<1>1. /\ page \in [Cycles -> [Inspections -> Row \cup {None}]]
      /\ rows \in [Inspections -> Row \cup {None}]
  BY SameRules DEF Inv, TypeOK, Server!TypeOK
<1>2. /\ Nothing(Inspections) \in [Inspections -> Row \cup {None}]
      /\ \A i \in Inspections : Nothing(Inspections)[i] = None
  BY DEF Nothing
<1>3. ASSUME page' = page
      PROVE  Typed /\ Steps
  BY <1>1, <1>3
<1>4. ASSUME NEW k \in Cycles, ListRows(k)
      PROVE  Typed /\ Steps
  <2> DEFINE own == OwnRows(session[On[k]])
  <2>1. /\ own \in [Inspections -> Row \cup {None}]
        /\ \A i \in Inspections : own[i] # None => SnapshotTrue(own[i], rows[i])
    BY <1>1 DEF OwnRows, SnapshotTrue
  <2>2. page' = page \/ page' = [page EXCEPT ![k] = own]
    BY <1>4 DEF ListRows
  <2> HIDE DEF own
  <2> QED
    BY <1>1, <2>1, <2>2
<1>5. ASSUME NEW k \in Cycles, ListConflicts(k)
      PROVE  Typed /\ Steps
  <2> DEFINE new == [i \in Inspections |->
                       IF page[k][i] = None THEN None
                       ELSE [page[k][i] EXCEPT !.conflict = rows[i].conflict]]
  <2>1. page' = [page EXCEPT ![k] = new]
    BY <1>5 DEF ListConflicts
  <2>2. ASSUME NEW i \in Inspections, page[k][i] # None
        PROVE  new[i] \in Row /\ SnapshotTrue(new[i], rows[i])
    <3>1. page[k][i] \in Row /\ SnapshotTrue(page[k][i], rows[i])
      BY <1>1, <2>2 DEF Inv, PageTrue
    <3>2. rows[i] \in Row
      BY <1>1, <3>1 DEF SnapshotTrue
    <3>3. new[i] = [page[k][i] EXCEPT !.conflict = rows[i].conflict]
      BY <2>2
    <3>4. new[i] \in Row /\ new[i].deleted = page[k][i].deleted
      BY <3>1, <3>2, <3>3 DEF Row
    <3> QED
      BY <3>1, <3>4 DEF SnapshotTrue
  <2>3. \A i \in Inspections : page[k][i] = None => new[i] = None
    OBVIOUS
  <2>4. new \in [Inspections -> Row \cup {None}]
    BY <2>2, <2>3
  <2>5. \A i \in Inspections : new[i] = None \/ SnapshotTrue(new[i], rows[i])
    BY <2>2, <2>3
  <2> HIDE DEF new
  <2> QED
    BY <1>1, <2>1, <2>4, <2>5
<1>6. ASSUME NEW k \in Cycles, PullFails(k)
      PROVE  Typed /\ Steps
  BY <1>1, <1>2, <1>6 DEF PullFails
<1>7. ASSUME NEW k \in Cycles, NEW i \in Inspections, MergeSnapshot(k, i)
      PROVE  Typed /\ Steps
  <2>1. page' = [page EXCEPT ![k] = [page[k] EXCEPT ![i] = None]]
    BY <1>7 DEF MergeSnapshot
  <2> QED
    BY <1>1, <2>1
<1>8. ASSUME NEW d \in Devices, Reload(d)
      PROVE  Typed /\ Steps
  BY <1>1, <1>2, <1>8 DEF Reload
<1>9. Typed /\ Steps
  BY <1>3, <1>4, <1>5, <1>6, <1>7, <1>8, PageFrame
<1>10. PageTrue'
  <2> SUFFICES ASSUME NEW k \in Cycles, NEW i \in Inspections, page'[k][i] # None
               PROVE  SnapshotTrue(page'[k][i], rows'[i])
    BY DEF PageTrue
  <2>1. SnapshotTrue(page'[k][i], rows[i])
    BY <1>9 DEF Inv, PageTrue
  <2> QED
    BY <2>1, TruthStays
<1> QED
  BY <1>9, <1>10

\* The copy changes when a cycle reads the outbox, has merged, or is ended.
LEMMA CopyFrame ==
    ASSUME [Next]_vars
    PROVE  \/ copy' = copy
           \/ \E k \in Cycles : ReadLocal(k)
           \/ \E k \in Cycles, i \in Inspections : MergeSnapshot(k, i)
           \/ \E d \in Devices : Reload(d)
<1>1. ASSUME NEW d \in Devices, User(d) \/ \E id \in OpIds : EnqueueOp(d, id)
      PROVE  copy' = copy
  BY <1>1 DEF User, EnqueueOp, StageOp, StageCreate, StageDelete, ResolveConflict,
     DiscardOps, Logout, Login, cycle
<1>2. ASSUME NEW k \in Cycles,
             \/ Begin(k) \/ SyncOps(k) \/ AbsorbResult(k) \/ UpdateOp(k) \/ Sweep(k)
             \/ ListRows(k) \/ ListConflicts(k) \/ PullFails(k)
             \/ NetworkFails(k) \/ RequestFails(k)
      PROVE  copy' = copy
  BY <1>2 DEF Begin, SyncOps, AbsorbResult, UpdateOp, Sweep, ListRows, ListConflicts,
     PullFails, NetworkFails, RequestFails
<1>3. ASSUME NEW h \in Handlers, Handle(h) \/ OpFails(h)
      PROVE  copy' = copy
  BY <1>3 DEF Handle, Serve, OpFails, Respond, HandlerEnds, Answered, cycle
<1>4. CASE UNCHANGED vars
  BY <1>4 DEF vars
<1> QED
  BY <1>1, <1>2, <1>3, <1>4
  DEF Next, Cycle, RemoteApply, OpenAttachment, CompleteAttachments, cycle

\* What a cycle has read as applied is in the ledger.
LEMMA CopyInv ==
    ASSUME Inv, [Next]_vars
    PROVE  /\ copy' \in [Cycles -> [OpIds -> States \cup {None}]]
           /\ CopyTrue'
<1> DEFINE Typed == copy' \in [Cycles -> [OpIds -> States \cup {None}]]
           Steps == \A k \in Cycles, id \in OpIds :
                       \/ copy'[k][id] = None
                       \/ copy'[k][id] = copy[k][id]
                       \/ copy'[k][id] = "applied" => ledger[id] # None
<1>1. /\ copy \in [Cycles -> [OpIds -> States \cup {None}]]
      /\ box \in [Devices -> [OpIds -> Recorded \cup {None}]]
      /\ On \in [Cycles -> Devices]
  BY DevicesAssumption DEF Inv, TypeOK
<1>2. Nothing(OpIds) \in [OpIds -> States \cup {None}] /\ \A id \in OpIds : Nothing(OpIds)[id] = None
  BY DEF Nothing
<1>3. ASSUME copy' = copy
      PROVE  Typed /\ Steps
  BY <1>1, <1>3
<1>4. ASSUME NEW k \in Cycles, ReadLocal(k)
      PROVE  Typed /\ Steps
  <2> DEFINE new == [id \in OpIds |-> IF box[On[k]][id] = None THEN None
                                      ELSE box[On[k]][id].state]
  <2>1. copy' = copy \/ copy' = [copy EXCEPT ![k] = new]
    BY <1>4 DEF ReadLocal
  <2>2. ASSUME NEW id \in OpIds
        PROVE  /\ new[id] \in States \cup {None}
               /\ new[id] = None \/ (new[id] = "applied" => ledger[id] # None)
    <3>1. CASE box[On[k]][id] = None
      BY <3>1
    <3>2. CASE box[On[k]][id] # None
      <4>1. box[On[k]][id] \in Recorded /\ RecordTrue(box[On[k]][id], ledger[id])
        BY <1>1, <3>2 DEF Inv, OutboxTrue
      <4> QED
        BY <3>2, <4>1 DEF Recorded, RecordTrue
    <3> QED
      BY <3>1, <3>2
  <2>3. new \in [OpIds -> States \cup {None}]
    BY <2>2
  <2> HIDE DEF new
  <2> QED
    BY <1>1, <2>1, <2>2, <2>3
<1>5. ASSUME NEW k \in Cycles, NEW i \in Inspections, MergeSnapshot(k, i)
      PROVE  Typed /\ Steps
  <2>1. copy' = copy \/ copy' = [copy EXCEPT ![k] = Nothing(OpIds)]
    BY <1>5 DEF MergeSnapshot
  <2> QED
    BY <1>1, <1>2, <2>1
<1>6. ASSUME NEW d \in Devices, Reload(d)
      PROVE  Typed /\ Steps
  BY <1>1, <1>2, <1>6 DEF Reload
<1>7. Typed /\ Steps
  BY <1>3, <1>4, <1>5, <1>6, CopyFrame
<1>8. CopyTrue'
  <2> SUFFICES ASSUME NEW k \in Cycles, NEW id \in OpIds, copy'[k][id] = "applied"
               PROVE  ledger'[id] # None
    BY DEF CopyTrue
  <2>1. None # "applied"
    BY RecordsAssumption DEF States
  <2>2. ledger[id] # None
    BY <1>7, <2>1 DEF Inv, CopyTrue
  <2> QED
    BY <2>2, TruthStays
<1> QED
  BY <1>7, <1>8

-----------------------------------------------------------------------------
(* What a step makes of the cycles and their requests *)

\* Another cycle goes on, and keeps the answers it has.
Undisturbed(j) ==
    /\ pc'[j] = pc[j] /\ todo'[j] = todo[j]
    /\ \A id \in todo[j] : answer[j][id] # None => answer'[j][id] # None

LEMMA UndisturbedOK ==
    ASSUME Inv, [Next]_vars, NEW j \in Cycles, Undisturbed(j)
    PROVE  CycleOK(j)'
<1>1. CycleOK(j) /\ Minted \subseteq Minted'
  BY MintedStep DEF Inv
<1>2. /\ todo'[j] \subseteq Minted'
      /\ pc'[j] \in Absorbing \cup {"wait"} => todo'[j] # {}
      /\ pc'[j] \in Absorbing => \A id \in todo'[j] : answer'[j][id] # None
  BY <1>1 DEF CycleOK, Undisturbed
<1> QED
  BY <1>2 DEF CycleOK, Absorbing

\* Absorbing takes a cycle on to the next step of a result, or on from it.
LEMMA AbsorbMoves ==
    ASSUME NEW k \in Cycles, AbsorbResult(k) \/ UpdateOp(k) \/ Sweep(k)
    PROVE  /\ pc[k] \in Absorbing
           /\ request' = request
           /\ \/ Done(k, First(todo[k]))
              \/ \E s \in {"save", "sweep"} :
                    pc' = [pc EXCEPT ![k] = s] /\ UNCHANGED <<todo, answer>>
BY DEF AbsorbResult, UpdateOp, Sweep, NextResult, Absorbing

\* A cycle that moves on by itself was not waiting, and has what it needs for
\* its next step; no other cycle notices.
LEMMA CycleMoves ==
    ASSUME Inv, [Next]_vars, NEW k \in Cycles,
           \/ Begin(k) \/ AbsorbResult(k) \/ UpdateOp(k) \/ Sweep(k)
           \/ ListRows(k) \/ ListConflicts(k) \/ ReadLocal(k) \/ PullFails(k)
           \/ \E i \in Inspections : MergeSnapshot(k, i)
    PROVE  /\ pc' \in [Cycles -> Places]
           /\ todo' \in [Cycles -> SUBSET OpIds]
           /\ request' = request
           /\ pc[k] # "wait"
           /\ CycleOK(k)'
           /\ \A j \in Cycles \ {k} : Undisturbed(j)
<1>1. /\ pc \in [Cycles -> Places] /\ todo \in [Cycles -> SUBSET OpIds]
      /\ answer \in [Cycles -> [OpIds -> Result \cup {None}]]
      /\ CycleOK(k) /\ Minted \subseteq Minted'
  BY MintedStep DEF Inv, TypeOK
<1>2. CASE \/ Begin(k) \/ ListRows(k) \/ ListConflicts(k) \/ ReadLocal(k) \/ PullFails(k)
           \/ \E i \in Inspections : MergeSnapshot(k, i)
  <2>1. /\ pc[k] # "wait"
        /\ UNCHANGED <<todo, answer, request>>
        /\ \/ pc' = pc /\ pc[k] = "merge"
           \/ \E s \in {"send", "idle", "conflicts", "read", "merge"} :
                 pc' = [pc EXCEPT ![k] = s]
    BY <1>2 DEF Begin, ListRows, ListConflicts, ReadLocal, PullFails, MergeSnapshot
  <2>2. /\ pc' \in [Cycles -> Places]
        /\ pc'[k] \in {"send", "idle", "conflicts", "read", "merge"}
        /\ \A j \in Cycles \ {k} : pc'[j] = pc[j]
    BY <1>1, <2>1 DEF Places
  <2>3. /\ todo'[k] \subseteq Minted'
        /\ pc'[k] \notin Absorbing \cup {"wait"}
    BY <1>1, <2>1, <2>2 DEF CycleOK, Absorbing
  <2>4. CycleOK(k)'
    BY <2>3 DEF CycleOK, Absorbing
  <2> QED
    BY <1>1, <2>1, <2>2, <2>4 DEF Undisturbed
<1>3. CASE AbsorbResult(k) \/ UpdateOp(k) \/ Sweep(k)
  <2> DEFINE id == First(todo[k])
  <2>1. /\ pc[k] \in Absorbing
        /\ request' = request
        /\ \/ Done(k, id)
           \/ \E s \in {"save", "sweep"} :
                 pc' = [pc EXCEPT ![k] = s] /\ UNCHANGED <<todo, answer>>
    BY <1>3, AbsorbMoves
  <2>2. id \in todo[k] /\ id \in OpIds
    BY <2>1, Absorbs
  <2>3. /\ todo[k] \subseteq Minted /\ todo[k] # {}
        /\ \A j \in todo[k] : answer[k][j] # None
    BY <1>1, <2>1 DEF CycleOK
  <2> HIDE DEF id
  <2>4. /\ pc' \in [Cycles -> Places] /\ todo' \in [Cycles -> SUBSET OpIds]
        /\ \A j \in Cycles \ {k} : pc'[j] = pc[j] /\ todo'[j] = todo[j] /\ answer'[j] = answer[j]
    BY <1>1, <2>1, <2>2 DEF Done, Places
  <2>5. /\ todo'[k] \subseteq todo[k]
        /\ pc'[k] \in Absorbing \cup {"wait"} => todo'[k] # {}
        /\ \A j \in todo'[k] : answer'[k][j] = answer[k][j]
    <3>1. CASE Done(k, id)
      <4>1. /\ pc'[k] = IF todo[k] = {id} THEN "list" ELSE "absorb"
            /\ todo'[k] = todo[k] \ {id}
            /\ \A j \in OpIds : j # id => answer'[k][j] = answer[k][j]
        BY <1>1, <2>2, <3>1 DEF Done
      <4>2. todo[k] \subseteq OpIds
        BY <1>1
      <4> QED
        BY <2>2, <4>1, <4>2 DEF Absorbing
    <3>2. CASE \E s \in {"save", "sweep"} :
                  pc' = [pc EXCEPT ![k] = s] /\ UNCHANGED <<todo, answer>>
      BY <1>1, <2>3, <3>2
    <3> QED
      BY <2>1, <3>1, <3>2
  <2>6. CycleOK(k)'
    <3>1. /\ todo'[k] \subseteq Minted'
          /\ pc'[k] \in Absorbing => \A j \in todo'[k] : answer'[k][j] # None
      BY <1>1, <2>3, <2>5
    <3> QED
      BY <2>5, <3>1 DEF CycleOK, Absorbing
  <2> QED
    BY <2>1, <2>4, <2>6 DEF Undisturbed, Absorbing
<1> QED
  BY <1>2, <1>3

\* A request goes on: some of its ops have been answered, and its cycle goes
\* on to wait for it, or has left it.
Follows(h) ==
    request'[h] # None =>
        /\ request[h] # None
        /\ request'[h].left \subseteq request[h].left
        /\ request'[h].by # None =>
              /\ request'[h].by = request[h].by
              /\ Undisturbed(request[h].by)
              /\ \A id \in request[h].left \ request'[h].left :
                    answer'[request[h].by][id] # None

LEMMA FollowsOK ==
    ASSUME Inv, [Next]_vars, \A h \in Handlers : Follows(h)
    PROVE  (\A h \in Handlers : RequestOK(h)') /\ OneRequestEach'
<1>1. ASSUME NEW h \in Handlers
      PROVE  RequestOK(h)'
  <2> SUFFICES ASSUME request'[h] # None
               PROVE  /\ request'[h].left \subseteq Minted'
                      /\ request'[h].by # None =>
                            /\ pc'[request'[h].by] = "wait"
                            /\ \A id \in todo'[request'[h].by] :
                                  \/ id \in request'[h].left
                                  \/ answer'[request'[h].by][id] # None
    BY DEF RequestOK
  <2>1. RequestOK(h) /\ Follows(h) /\ Minted \subseteq Minted'
    BY MintedStep DEF Inv
  <2>2. request'[h].left \subseteq Minted'
    BY <2>1 DEF RequestOK, Follows
  <2>3. ASSUME request'[h].by # None
        PROVE  /\ pc'[request'[h].by] = "wait"
               /\ \A id \in todo'[request'[h].by] :
                     id \in request'[h].left \/ answer'[request'[h].by][id] # None
    <3>1. PICK k : k = request[h].by
      OBVIOUS
    <3>2. /\ request'[h].by = k /\ Undisturbed(k) /\ pc[k] = "wait"
          /\ \A id \in todo[k] : id \in request[h].left \/ answer[k][id] # None
          /\ \A id \in request[h].left \ request'[h].left : answer'[k][id] # None
      BY <2>1, <2>3, <3>1 DEF RequestOK, Follows
    <3> QED
      BY <3>2 DEF Undisturbed
  <2> QED
    BY <2>2, <2>3
<1>2. OneRequestEach'
  <2> SUFFICES ASSUME NEW h \in Handlers, NEW g \in Handlers,
                      request'[h] # None, request'[g] # None, request'[h].by # None,
                      request'[h].by = request'[g].by
               PROVE  h = g
    BY DEF OneRequestEach
  <2>1. /\ request[h] # None /\ request[g] # None
        /\ request'[h].by = request[h].by /\ request'[g].by = request[g].by
    BY DEF Follows
  <2> QED
    BY <2>1 DEF Inv, OneRequestEach
<1> QED
  BY <1>1, <1>2

\* Requests left by these cycles follow, if no other cycle is disturbed.
LEMMA LeftFollow ==
    ASSUME Inv, NEW ks, request' = Left(ks), \A j \in Cycles \ ks : Undisturbed(j)
    PROVE  /\ request' \in [Handlers -> Request \cup {None}]
           /\ \A h \in Handlers : Follows(h)
<1>1. request \in [Handlers -> Request \cup {None}]
  BY DEF Inv, TypeOK
<1>2. ASSUME NEW h \in Handlers
      PROVE  request'[h] \in Request \cup {None} /\ Follows(h)
  <2>1. CASE request[h] # None /\ request[h].by \in ks
    <3>1. request'[h] = [request[h] EXCEPT !.by = None] /\ request[h] \in Request
      BY <1>1, <2>1 DEF Left
    <3>2. request'[h] \in Request /\ request'[h].by = None /\ request'[h].left = request[h].left
      BY <3>1 DEF Request
    <3> QED
      BY <2>1, <3>2 DEF Follows
  <2>2. CASE request[h] = None
    <3>1. request'[h] = None
      BY <2>2 DEF Left
    <3> QED
      BY <3>1 DEF Follows
  <2>3. CASE request[h] # None /\ request[h].by \notin ks
    <3>1. request'[h] = request[h] /\ request[h] \in Request
      BY <1>1, <2>3 DEF Left
    <3>2. request[h].by \in Cycles \cup {None}
      BY <3>1 DEF Request
    <3> QED
      BY <2>3, <3>1, <3>2 DEF Follows
  <2> QED
    BY <2>1, <2>2, <2>3
<1>3. request' = [h \in Handlers |-> request'[h]]
  BY DEF Left
<1> QED
  BY <1>2, <1>3

\* Cycles and requests after a step.
Consistent ==
    /\ pc' \in [Cycles -> Places]
    /\ todo' \in [Cycles -> SUBSET OpIds]
    /\ request' \in [Handlers -> Request \cup {None}]
    /\ \A k \in Cycles : CycleOK(k)'
    /\ \A h \in Handlers : RequestOK(h)'
    /\ OneRequestEach'

\* A step that changes neither leaves them so.
LEMMA IdleConsistent ==
    ASSUME Inv, [Next]_vars, UNCHANGED <<pc, todo, answer, request>>
    PROVE  Consistent
<1>1. \A j \in Cycles : Undisturbed(j)
  BY DEF Undisturbed
<1>2. \A h \in Handlers : Follows(h)
  <2> SUFFICES ASSUME NEW h \in Handlers, request[h] # None
               PROVE  request[h].by # None => Undisturbed(request[h].by)
    BY DEF Follows
  <2>1. request[h].by \in Cycles \cup {None}
    BY DEF Inv, TypeOK, Request
  <2> QED
    BY <1>1, <2>1
<1> QED
  BY <1>1, <1>2, UndisturbedOK, FollowsOK DEF Consistent, Inv, TypeOK

\* So does a cycle that moves on by itself.
LEMMA MoveConsistent ==
    ASSUME Inv, [Next]_vars, NEW k \in Cycles,
           \/ Begin(k) \/ AbsorbResult(k) \/ UpdateOp(k) \/ Sweep(k)
           \/ ListRows(k) \/ ListConflicts(k) \/ ReadLocal(k) \/ PullFails(k)
           \/ \E i \in Inspections : MergeSnapshot(k, i)
    PROVE  Consistent
<1>1. /\ pc' \in [Cycles -> Places]
      /\ todo' \in [Cycles -> SUBSET OpIds]
      /\ request' = request
      /\ pc[k] # "wait"
      /\ CycleOK(k)'
      /\ \A j \in Cycles \ {k} : Undisturbed(j)
  BY CycleMoves
<1>2. \A h \in Handlers : Follows(h)
  <2> SUFFICES ASSUME NEW h \in Handlers, request[h] # None
               PROVE  request[h].by # None => Undisturbed(request[h].by)
    BY <1>1 DEF Follows
  <2>1. request[h].by \in Cycles \cup {None}
    BY DEF Inv, TypeOK, Request
  <2>2. request[h].by # None => pc[request[h].by] = "wait"
    BY DEF Inv, RequestOK
  <2> QED
    BY <1>1, <2>1, <2>2
<1>3. \A j \in Cycles : CycleOK(j)'
  BY <1>1, UndisturbedOK
<1>4. request' \in [Handlers -> Request \cup {None}]
  BY <1>1 DEF Inv, TypeOK
<1> QED
  BY <1>1, <1>2, <1>3, <1>4, FollowsOK DEF Consistent

\* A cycle sends what is due, all of it minted; nobody else waits for it.
LEMMA SendConsistent ==
    ASSUME Inv, [Next]_vars, NEW k \in Cycles, SyncOps(k)
    PROVE  Consistent
<1> DEFINE d   == On[k]
           ids == Due(d)
           h0  == CHOOSE h \in Free : TRUE
           req == [by |-> k, user |-> session[d], left |-> ids]
<1>1. /\ pc \in [Cycles -> Places] /\ todo \in [Cycles -> SUBSET OpIds]
      /\ answer \in [Cycles -> [OpIds -> Result \cup {None}]]
      /\ request \in [Handlers -> Request \cup {None}]
      /\ session \in [Devices -> Users \cup {None}]
      /\ d \in Devices
      /\ CycleOK(k) /\ Minted \subseteq Minted' /\ Minted \subseteq OpIds
  BY DevicesAssumption, MintedStep DEF Inv, TypeOK, Minted
<1>2. ids \subseteq Minted
  BY <1>1 DEF Due, InBox, Inv, OutboxTrue
<1>3. pc[k] = "send"
  BY DEF SyncOps
<1>4. \A h \in Handlers : request[h] # None /\ request[h].by # None =>
          request[h].by \in Cycles \ {k}
  BY <1>1, <1>3 DEF Inv, RequestOK, Request
<1> HIDE DEF ids
<1>5. CASE /\ request' = request
           /\ \/ pc' = [pc EXCEPT ![k] = "list"] /\ UNCHANGED <<todo, answer>>
              \/ /\ pc' = [pc EXCEPT ![k] = "absorb"] /\ ids # {}
                 /\ todo' = [todo EXCEPT ![k] = ids]
                 /\ answer' = [answer EXCEPT ![k] = AllAnswered(ids, "refused")]
  <2>1. \A j \in Cycles \ {k} : Undisturbed(j)
    BY <1>1, <1>5 DEF Undisturbed
  <2>2. \A h \in Handlers : Follows(h)
    BY <1>4, <1>5, <2>1 DEF Follows
  <2>3. pc' \in [Cycles -> Places] /\ todo' \in [Cycles -> SUBSET OpIds]
    BY <1>1, <1>2, <1>5 DEF Places
  <2>4. CycleOK(k)'
    <3>1. CASE pc' = [pc EXCEPT ![k] = "list"] /\ UNCHANGED <<todo, answer>>
      <4>1. pc'[k] = "list" /\ todo'[k] \subseteq Minted'
        BY <1>1, <3>1 DEF CycleOK
      <4> QED
        BY <4>1 DEF CycleOK, Absorbing
    <3>2. CASE /\ pc' = [pc EXCEPT ![k] = "absorb"] /\ ids # {}
               /\ todo' = [todo EXCEPT ![k] = ids]
               /\ answer' = [answer EXCEPT ![k] = AllAnswered(ids, "refused")]
      <4> DEFINE r == [status |-> "refused", snap |-> None]
      <4>1. r \in Result /\ r # None
        BY RecordsAssumption DEF Result
      <4> HIDE DEF r
      <4>2. AllAnswered(ids, "refused") = [id \in OpIds |-> IF id \in ids THEN r ELSE None]
        BY DEF AllAnswered, r
      <4>3. todo'[k] = ids /\ \A id \in ids : answer'[k][id] # None
        BY <1>1, <1>2, <3>2, <4>1, <4>2
      <4>4. todo'[k] \subseteq Minted' /\ todo'[k] # {} /\ \A id \in todo'[k] : answer'[k][id] # None
        BY <1>1, <1>2, <3>2, <4>3
      <4> QED
        BY <4>4 DEF CycleOK, Absorbing
    <3> QED
      BY <1>5, <3>1, <3>2
  <2>5. \A j \in Cycles : CycleOK(j)'
    BY <2>1, <2>4, UndisturbedOK
  <2> QED
    BY <1>1, <1>5, <2>2, <2>3, <2>5, FollowsOK DEF Consistent
<1>6. CASE /\ ids # {} /\ session[d] # None /\ Free # {}
           /\ request' = [request EXCEPT ![h0] = req]
           /\ pc' = [pc EXCEPT ![k] = "wait"]
           /\ todo' = [todo EXCEPT ![k] = ids]
           /\ answer' = answer
  <2>1. \A j \in Cycles \ {k} : Undisturbed(j)
    BY <1>1, <1>6 DEF Undisturbed
  <2>2. h0 \in Free
    BY <1>6
  <2>3. h0 \in Handlers /\ request[h0] = None
    BY <2>2 DEF Free
  <2>4. req \in Request
    BY <1>1, <1>2, <1>6 DEF Request
  <2>5. req.by = k /\ req.left = ids
    OBVIOUS
  <2> HIDE DEF h0, req
  <2>6. /\ pc' \in [Cycles -> Places] /\ todo' \in [Cycles -> SUBSET OpIds]
        /\ request' \in [Handlers -> Request \cup {None}]
        /\ pc'[k] = "wait" /\ todo'[k] = ids
        /\ request'[h0] = req
        /\ \A h \in Handlers \ {h0} : request'[h] = request[h]
    BY <1>1, <1>2, <1>6, <2>3, <2>4 DEF Places
  <2>7. CycleOK(k)'
    <3>1. todo'[k] \subseteq Minted' /\ todo'[k] # {} /\ pc'[k] = "wait"
      BY <1>1, <1>2, <1>6, <2>6
    <3> QED
      BY <3>1 DEF CycleOK, Absorbing
  <2>8. \A j \in Cycles : CycleOK(j)'
    BY <2>1, <2>7, UndisturbedOK
  <2>9. ASSUME NEW h \in Handlers
        PROVE  RequestOK(h)'
    <3>1. CASE h = h0
      <4>1. /\ request'[h].left \subseteq Minted' /\ request'[h].by = k
            /\ pc'[k] = "wait" /\ todo'[k] = request'[h].left
        BY <1>1, <1>2, <2>5, <2>6, <3>1
      <4> QED
        BY <4>1 DEF RequestOK
    <3>2. CASE h # h0 /\ request[h] # None
      <4>1. /\ request'[h] = request[h] /\ RequestOK(h)
            /\ request'[h].left \subseteq Minted'
        BY <1>1, <2>6, <3>2 DEF Inv, RequestOK
      <4>2. ASSUME request[h].by # None
            PROVE  /\ pc'[request[h].by] = "wait"
                   /\ \A id \in todo'[request[h].by] :
                         id \in request[h].left \/ answer'[request[h].by][id] # None
        <5>1. Undisturbed(request[h].by)
          BY <1>4, <2>1, <3>2, <4>2
        <5> QED
          BY <3>2, <4>1, <4>2, <5>1 DEF Undisturbed, RequestOK
      <4> QED
        BY <4>1, <4>2 DEF RequestOK
    <3>3. CASE h # h0 /\ request[h] = None
      BY <2>6, <3>3 DEF RequestOK
    <3> QED
      BY <3>1, <3>2, <3>3
  <2>10. OneRequestEach'
    <3> SUFFICES ASSUME NEW h \in Handlers, NEW g \in Handlers,
                        request'[h] # None, request'[g] # None, request'[h].by # None,
                        request'[h].by = request'[g].by
                 PROVE  h = g
      BY DEF OneRequestEach
    <3>1. CASE h # h0 /\ g # h0
      BY <2>6, <3>1 DEF Inv, OneRequestEach
    <3>2. CASE h = h0 /\ g # h0
      BY <1>4, <2>5, <2>6, <3>2
    <3>3. CASE h # h0 /\ g = h0
      BY <1>4, <2>5, <2>6, <3>3
    <3> QED
      BY <3>1, <3>2, <3>3
  <2> QED
    BY <2>6, <2>8, <2>9, <2>10 DEF Consistent
<1> QED
  BY <1>5, <1>6 DEF SyncOps, Authenticated, ids

\* The requests of cycles that fail or are ended are left to themselves.
LEMMA LeaveConsistent ==
    ASSUME Inv, [Next]_vars,
           \/ \E k \in Cycles : NetworkFails(k) \/ RequestFails(k)
           \/ \E d \in Devices : Reload(d)
    PROVE  Consistent
<1>1. /\ pc \in [Cycles -> Places] /\ todo \in [Cycles -> SUBSET OpIds]
      /\ answer \in [Cycles -> [OpIds -> Result \cup {None}]]
      /\ Minted \subseteq Minted' /\ \A k \in Cycles : CycleOK(k)
  BY MintedStep DEF Inv, TypeOK
<1>2. ASSUME NEW k \in Cycles, NetworkFails(k)
      PROVE  Consistent
  <2>1. /\ pc' = [pc EXCEPT ![k] = "list"] /\ todo' = [todo EXCEPT ![k] = {}]
        /\ answer' = [answer EXCEPT ![k] = Nothing(OpIds)] /\ request' = Left({k})
    BY <1>2 DEF NetworkFails
  <2>2. \A j \in Cycles \ {k} : Undisturbed(j)
    BY <1>1, <2>1 DEF Undisturbed
  <2>3. /\ pc' \in [Cycles -> Places] /\ todo' \in [Cycles -> SUBSET OpIds]
        /\ pc'[k] = "list" /\ todo'[k] = {}
    BY <1>1, <2>1 DEF Places
  <2>4. CycleOK(k)'
    BY <2>3 DEF CycleOK, Absorbing
  <2>5. \A j \in Cycles : CycleOK(j)'
    BY <2>2, <2>4, UndisturbedOK
  <2> QED
    BY <2>1, <2>2, <2>3, <2>5, LeftFollow, FollowsOK DEF Consistent
<1>3. ASSUME NEW k \in Cycles, RequestFails(k)
      PROVE  Consistent
  <2>1. PICK s \in {"unavailable", "refused"} :
            answer' = [answer EXCEPT ![k] = AllAnswered(todo[k], s)]
    BY <1>3 DEF RequestFails
  <2>2. /\ pc[k] = "wait" /\ pc' = [pc EXCEPT ![k] = "absorb"]
        /\ todo' = todo /\ request' = Left({k})
    BY <1>3 DEF RequestFails
  <2>3. \A j \in Cycles \ {k} : Undisturbed(j)
    BY <1>1, <2>1, <2>2 DEF Undisturbed
  <2>4. /\ pc' \in [Cycles -> Places] /\ todo' \in [Cycles -> SUBSET OpIds]
        /\ pc'[k] = "absorb"
    BY <1>1, <2>2 DEF Places
  <2> DEFINE r == [status |-> s, snap |-> None]
  <2>5. r \in Result /\ r # None
    BY RecordsAssumption DEF Result
  <2> HIDE DEF r
  <2>6. AllAnswered(todo[k], s) = [id \in OpIds |-> IF id \in todo[k] THEN r ELSE None]
    BY DEF AllAnswered, r
  <2>7. \A id \in todo[k] : answer'[k][id] # None
    BY <1>1, <2>1, <2>5, <2>6
  <2>8. todo[k] \subseteq Minted' /\ todo[k] # {}
    BY <1>1, <2>2 DEF CycleOK, Absorbing
  <2>9. CycleOK(k)'
    BY <2>2, <2>4, <2>7, <2>8 DEF CycleOK, Absorbing
  <2>10. \A j \in Cycles : CycleOK(j)'
    BY <2>3, <2>9, UndisturbedOK
  <2> QED
    BY <2>2, <2>3, <2>4, <2>10, LeftFollow, FollowsOK DEF Consistent
<1>4. ASSUME NEW d \in Devices, Reload(d)
      PROVE  Consistent
  <2> DEFINE ks == {k \in Cycles : On[k] = d}
  <2>1. /\ pc' = [k \in Cycles |-> IF On[k] = d THEN "idle" ELSE pc[k]]
        /\ todo' = [k \in Cycles |-> IF On[k] = d THEN {} ELSE todo[k]]
        /\ answer' = [k \in Cycles |-> IF On[k] = d THEN Nothing(OpIds) ELSE answer[k]]
        /\ request' = Left(ks)
    BY <1>4 DEF Reload
  <2>2. \A j \in Cycles \ ks : Undisturbed(j)
    BY <1>1, <2>1 DEF Undisturbed
  <2>3. /\ pc' \in [Cycles -> Places] /\ todo' \in [Cycles -> SUBSET OpIds]
        /\ \A k \in ks : pc'[k] = "idle" /\ todo'[k] = {}
    BY <1>1, <2>1 DEF Places
  <2> HIDE DEF ks
  <2>4. \A k \in Cycles : k \in ks => CycleOK(k)'
    BY <2>3 DEF CycleOK, Absorbing
  <2>5. \A j \in Cycles : CycleOK(j)'
    BY <2>2, <2>4, UndisturbedOK
  <2> QED
    BY <2>1, <2>2, <2>3, <2>5, LeftFollow, FollowsOK DEF Consistent
<1> QED
  BY <1>2, <1>3, <1>4

\* A handler that goes on answers the op it strikes off.
LEMMA ServeConsistent ==
    ASSUME Inv, [Next]_vars, NEW h \in Handlers, Serve(h) \/ OpFails(h)
    PROVE  Consistent
<1> DEFINE id == First(request[h].left)
           k  == request[h].by
<1>1. /\ pc \in [Cycles -> Places] /\ todo \in [Cycles -> SUBSET OpIds]
      /\ answer \in [Cycles -> [OpIds -> Result \cup {None}]]
      /\ request \in [Handlers -> Request \cup {None}]
      /\ None \notin Result
  BY RecordsAssumption DEF Inv, TypeOK
<1>2. /\ request[h] # None /\ id \in OpIds /\ id \in request[h].left
      /\ request' = [request EXCEPT ![h].left = @ \ {id}]
      /\ pc' = pc /\ todo' = todo
  BY Served
<1>3. PICK r \in Result :
          answer' = IF k = None THEN answer ELSE [answer EXCEPT ![k][id] = r]
  BY Served
<1>4. request[h] \in Request /\ k \in Cycles \cup {None} /\ request[h].left \subseteq OpIds
  BY <1>1, <1>2 DEF Request
<1> HIDE DEF id, k
<1>5. \A j \in Cycles : \A x \in OpIds : answer[j][x] # None => answer'[j][x] # None
  BY <1>1, <1>2, <1>3, <1>4
<1>6. k # None => answer'[k][id] # None
  BY <1>1, <1>2, <1>3, <1>4
<1>7. \A j \in Cycles : Undisturbed(j)
  BY <1>1, <1>2, <1>5 DEF Undisturbed
<1>8. /\ request'[h] \in Request /\ request'[h].by = k
      /\ request'[h].left = request[h].left \ {id}
      /\ \A g \in Handlers \ {h} : request'[g] = request[g]
  <2> DEFINE req == [request[h] EXCEPT !.left = @ \ {id}]
  <2>1. req \in Request /\ req.by = k /\ req.left = request[h].left \ {id}
    BY <1>4 DEF Request, k
  <2>2. request' = [request EXCEPT ![h] = req]
    BY <1>2
  <2> HIDE DEF req
  <2> QED
    BY <1>1, <2>1, <2>2
<1>9. request' \in [Handlers -> Request \cup {None}]
  BY <1>1, <1>2, <1>8
<1>10. ASSUME NEW g \in Handlers
       PROVE  Follows(g)
  <2>1. CASE g = h
    BY <1>2, <1>4, <1>6, <1>7, <1>8, <2>1 DEF Follows, k
  <2>2. CASE g # h
    <3>1. request[g] # None => request[g].by \in Cycles \cup {None}
      BY <1>1 DEF Request
    <3> QED
      BY <1>7, <1>8, <2>2, <3>1 DEF Follows
  <2> QED
    BY <2>1, <2>2
<1>11. pc' \in [Cycles -> Places] /\ todo' \in [Cycles -> SUBSET OpIds]
  BY <1>1, <1>2
<1> QED
  BY <1>7, <1>9, <1>10, <1>11, UndisturbedOK, FollowsOK DEF Consistent

\* When a request ends, every op of it is answered, and nobody else waits for
\* the cycle that goes on.
LEMMA RespondConsistent ==
    ASSUME Inv, [Next]_vars, NEW h \in Handlers, Respond(h) \/ HandlerEnds(h)
    PROVE  Consistent
<1> DEFINE k == request[h].by
<1>1. /\ pc \in [Cycles -> Places] /\ todo \in [Cycles -> SUBSET OpIds]
      /\ request \in [Handlers -> Request \cup {None}]
      /\ Minted \subseteq Minted'
  BY MintedStep DEF Inv, TypeOK
<1>2. /\ request[h] # None
      /\ request' = [request EXCEPT ![h] = None]
      /\ todo' = todo /\ answer' = answer
      /\ \/ k = None /\ pc' = pc
         \/ k # None /\ request[h].left = {} /\ pc' = [pc EXCEPT ![k] = "absorb"]
  BY DEF Respond, HandlerEnds, cycle
<1>3. k \in Cycles \cup {None}
  BY <1>1, <1>2 DEF Request
<1>4. /\ request' \in [Handlers -> Request \cup {None}]
      /\ request'[h] = None
      /\ \A g \in Handlers \ {h} : request'[g] = request[g]
  BY <1>1, <1>2
<1>5. RequestOK(h)
  BY DEF Inv
<1> HIDE DEF k
<1>6. \A j \in Cycles : j # k => Undisturbed(j)
  BY <1>1, <1>2, <1>3 DEF Undisturbed
<1>7. pc' \in [Cycles -> Places] /\ todo' \in [Cycles -> SUBSET OpIds]
  BY <1>1, <1>2 DEF Places
<1>8. ASSUME NEW j \in Cycles
      PROVE  CycleOK(j)'
  <2>1. CASE j # k \/ k = None
    <3>1. Undisturbed(j)
      BY <1>2, <1>6, <2>1 DEF Undisturbed
    <3> QED
      BY <3>1, UndisturbedOK
  <2>2. CASE j = k /\ k # None
    <3>1. pc[j] = "wait" /\ \A id \in todo[j] : answer[j][id] # None
      BY <1>2, <1>5, <2>2 DEF RequestOK, k
    <3>2. todo[j] \subseteq Minted /\ todo[j] # {}
      BY <3>1 DEF Inv, CycleOK, Absorbing
    <3>3. /\ todo'[j] \subseteq Minted' /\ todo'[j] # {}
          /\ \A id \in todo'[j] : answer'[j][id] # None
      BY <1>1, <1>2, <3>1, <3>2
    <3> QED
      BY <3>3 DEF CycleOK, Absorbing
  <2> QED
    BY <2>1, <2>2
<1>9. ASSUME NEW g \in Handlers
      PROVE  Follows(g)
  <2>1. CASE g = h
    BY <1>4, <2>1 DEF Follows
  <2>2. CASE g # h /\ request[g] # None
    <3>1. request[g].by \in Cycles \cup {None}
      BY <1>1, <2>2 DEF Request
    <3>2. request[g].by # None => request[g].by # k
      BY <1>2, <2>2 DEF Inv, OneRequestEach, k
    <3> QED
      BY <1>4, <1>6, <2>2, <3>1, <3>2 DEF Follows
  <2>3. CASE g # h /\ request[g] = None
    BY <1>4, <2>3 DEF Follows
  <2> QED
    BY <2>1, <2>2, <2>3
<1> QED
  BY <1>4, <1>7, <1>8, <1>9, FollowsOK DEF Consistent

\* No step confuses cycles and requests.
LEMMA StepConsistent ==
    ASSUME Inv, [Next]_vars
    PROVE  Consistent
<1> DEFINE Idle == UNCHANGED <<pc, todo, answer, request>>
<1>1. ASSUME NEW d \in Devices, User(d) \/ \E id \in OpIds : EnqueueOp(d, id)
      PROVE  Idle
  BY <1>1 DEF User, EnqueueOp, StageOp, StageCreate, StageDelete, ResolveConflict,
     DiscardOps, Logout, Login, cycle
<1>2. ASSUME \/ \E u \in Users, id \in OpIds : RemoteApply(u, id)
             \/ \E i \in Inspections : OpenAttachment(i) \/ CompleteAttachments(i)
             \/ UNCHANGED vars
      PROVE  Idle
  BY <1>2 DEF RemoteApply, OpenAttachment, CompleteAttachments, cycle, vars
<1>3. ASSUME NEW k \in Cycles, Cycle(k)
      PROVE  Consistent
  BY <1>3, SendConsistent, MoveConsistent DEF Cycle
<1>4. ASSUME NEW h \in Handlers, Handle(h) \/ OpFails(h)
      PROVE  Consistent
  BY <1>4, ServeConsistent, RespondConsistent DEF Handle
<1>5. Idle => Consistent
  BY IdleConsistent
<1> QED
  BY <1>1, <1>2, <1>3, <1>4, <1>5, MoveConsistent, LeaveConsistent DEF Next

-----------------------------------------------------------------------------
(* What is left of the types *)

\* The tokens, the local snapshots, the edits under way and the incidents.
LEMMA DeviceTypes ==
    ASSUME Inv, [Next]_vars
    PROVE  /\ session' \in [Devices -> Users \cup {None}]
           /\ snap' \in [Devices -> [Inspections -> Row \cup {None}]]
           /\ writing' \in [Devices -> SUBSET OpIds]
           /\ past' \in Past
<1> DEFINE Typed == /\ session' \in [Devices -> Users \cup {None}]
                    /\ snap' \in [Devices -> [Inspections -> Row \cup {None}]]
                    /\ writing' \in [Devices -> SUBSET OpIds]
                    /\ past' \in Past
<1>1. /\ session \in [Devices -> Users \cup {None}]
      /\ snap \in [Devices -> [Inspections -> Row \cup {None}]]
      /\ writing \in [Devices -> SUBSET OpIds]
      /\ past \in Past
      /\ page \in [Cycles -> [Inspections -> Row \cup {None}]]
      /\ On \in [Cycles -> Devices]
  BY DevicesAssumption DEF Inv, TypeOK
<1>2. \A kind : \A ids \in SUBSET OpIds :
         Incident(kind) \/ IncidentWith(kind, ids) => past' \in Past
  BY <1>1, IncidentAdds, IncidentHappens
<1>3. ASSUME NEW d \in Devices, NEW id \in OpIds,
             \/ StageOp(d, id) \/ StageCreate(d, id) \/ StageDelete(d, id)
             \/ ResolveConflict(d, id) \/ EnqueueOp(d, id)
      PROVE  Typed
  <2>1. past' = past \/ past' \in Past
    BY <1>3, EnqueueMints DEF StageOp, StageCreate, StageDelete, ResolveConflict, EnqueueOp
  <2>2. /\ session' = session /\ snap' = snap
        /\ \/ writing' = writing
           \/ writing' = [writing EXCEPT ![d] = @ \cup {id}]
           \/ writing' = [writing EXCEPT ![d] = @ \ {id}]
    BY <1>3 DEF StageOp, StageCreate, StageDelete, ResolveConflict, EnqueueOp
  <2> QED
    BY <1>1, <2>1, <2>2
<1>4. ASSUME NEW d \in Devices,
             \/ \E i \in Inspections : DiscardOps(d, i)
             \/ Logout(d) \/ (\E u \in Users : Login(d, u)) \/ Reload(d)
      PROVE  Typed
  <2>1. past' = past \/ past' \in Past
    <3>1. ASSUME NEW i \in Inspections, DiscardOps(d, i)
          PROVE  past' \in Past
      <4>1. BoxOf(d, i) \in SUBSET OpIds
        BY DEF BoxOf, InBox
      <4> QED
        BY <1>2, <3>1, <4>1 DEF DiscardOps
    <3>2. Incident("reload") \/ Incident("logout") => past' \in Past
      BY <1>2
    <3> QED
      BY <1>4, <3>1, <3>2 DEF Logout, Login, Reload
  <2>2. /\ snap' = snap
        /\ \/ session' = session
           \/ \E u \in Users \cup {None} : session' = [session EXCEPT ![d] = u]
        /\ writing' = writing \/ writing' = [writing EXCEPT ![d] = {}]
    BY <1>4 DEF DiscardOps, Logout, Login, Reload
  <2>3. session' \in [Devices -> Users \cup {None}]
    BY <1>1, <2>2
  <2>4. writing' \in [Devices -> SUBSET OpIds]
    BY <1>1, <2>2
  <2> QED
    BY <1>1, <2>1, <2>2, <2>3, <2>4
<1>5. ASSUME NEW k \in Cycles, AbsorbResult(k)
      PROVE  Typed
  <2> DEFINE j == First(todo[k])
             r == answer[k][j]
  <2>1. j \in OpIds /\ r \in Result
    BY <1>5, Absorbs DEF AbsorbResult, Absorbing
  <2>2. /\ snap' = IF r.snap = None THEN snap ELSE [snap EXCEPT ![On[k]][OpOf[j].insp] = r.snap]
        /\ UNCHANGED <<session, writing, past>>
    BY <1>5 DEF AbsorbResult
  <2>3. r.snap \in Row \cup {None}
    BY <2>1 DEF Result
  <2> HIDE DEF j, r
  <2> QED
    BY <1>1, <2>2, <2>3
<1>6. ASSUME NEW k \in Cycles, NEW i \in Inspections, MergeSnapshot(k, i)
      PROVE  Typed
  <2>1. /\ snap' = [snap EXCEPT ![On[k]][i] = page[k][i]]
        /\ UNCHANGED <<session, writing, past>>
    BY <1>6 DEF MergeSnapshot, Merged
  <2> QED
    BY <1>1, <2>1
<1>7. ASSUME NEW k \in Cycles,
             \/ Begin(k) \/ SyncOps(k) \/ UpdateOp(k) \/ Sweep(k) \/ ListRows(k)
             \/ ListConflicts(k) \/ ReadLocal(k)
             \/ NetworkFails(k) \/ RequestFails(k) \/ PullFails(k)
      PROVE  Typed
  <2>1. past' = past \/ past' \in Past
    BY <1>1, <1>2, <1>7, BeginAdds DEF SyncOps, UpdateOp, Sweep, ListRows, ListConflicts, ReadLocal,
       NetworkFails, RequestFails, PullFails
  <2>2. UNCHANGED <<session, snap, writing>>
    BY <1>7 DEF Begin, SyncOps, UpdateOp, Sweep, ListRows, ListConflicts, ReadLocal,
       NetworkFails, RequestFails, PullFails, device
  <2> QED
    BY <1>1, <2>1, <2>2
<1>8. ASSUME NEW h \in Handlers, Handle(h) \/ OpFails(h)
      PROVE  Typed
  <2>1. past' = past \/ past' \in Past
    BY <1>2, <1>8 DEF Handle, Serve, OpFails, Respond, HandlerEnds
  <2>2. UNCHANGED <<session, snap, writing>>
    BY <1>8 DEF Handle, Serve, OpFails, Respond, HandlerEnds, Answered, device
  <2> QED
    BY <1>1, <2>1, <2>2
<1>9. ASSUME \/ \E u \in Users, id \in OpIds : RemoteApply(u, id)
             \/ \E i \in Inspections : OpenAttachment(i) \/ CompleteAttachments(i)
             \/ UNCHANGED vars
      PROVE  Typed
  <2>1. past' = past \/ past' \in Past
    BY <1>2, <1>9 DEF RemoteApply, OpenAttachment, CompleteAttachments, vars
  <2>2. UNCHANGED <<session, snap, writing>>
    BY <1>9 DEF RemoteApply, OpenAttachment, CompleteAttachments, device, vars
  <2> QED
    BY <1>1, <2>1, <2>2
<1> QED
  BY <1>3, <1>4, <1>5, <1>6, <1>7, <1>8, <1>9 DEF Next, User, Cycle

-----------------------------------------------------------------------------

\* A seeded inspection is a row.
LEMMA SeedRowsType == SeedRows \in [Inspections -> Row \cup {None}]
<1>1. \A u \in Users : SeedRow(u) \in Row
  BY ValuesAssumption DEF SeedRow, Row
<1> QED
  BY <1>1, AssignedAssumption DEF SeedRows

\* Devices start with nothing to send and nothing claimed.
LEMMA InitInv == Init => Inv
<1> SUFFICES ASSUME Init
             PROVE  Inv
  OBVIOUS
<1>1. /\ rows = SeedRows /\ ledger = [id \in OpIds |-> None] /\ waiting = {}
  BY SameRules DEF Init, Server!Init
<1>2. Server!TypeOK
  BY <1>1, SeedRowsType, SameRules DEF Server!TypeOK
<1>3. snap \in [Devices -> [Inspections -> Row \cup {None}]]
  <2>1. rows \in [Inspections -> Row \cup {None}]
    BY <1>1, SeedRowsType
  <2>2. \A u : OwnRows(u) \in [Inspections -> Row \cup {None}]
    BY <2>1 DEF OwnRows
  <2> QED
    BY <2>2 DEF Init
<1>4. TypeOK
  <2>1. /\ session \in [Devices -> Users \cup {None}]
        /\ at \in [OpIds -> Int] /\ writing \in [Devices -> SUBSET OpIds]
        /\ pc \in [Cycles -> Places] /\ todo \in [Cycles -> SUBSET OpIds]
    BY DevicesAssumption DEF Init, Places
  <2>2. /\ box \in [Devices -> [OpIds -> Recorded \cup {None}]]
        /\ request \in [Handlers -> Request \cup {None}]
        /\ answer \in [Cycles -> [OpIds -> Result \cup {None}]]
        /\ page \in [Cycles -> [Inspections -> Row \cup {None}]]
        /\ copy \in [Cycles -> [OpIds -> States \cup {None}]]
    BY DEF Init, Nothing
  <2>3. past \in Past
    BY DEF Init, Past
  <2> QED
    BY <1>2, <1>3, <2>1, <2>2, <2>3 DEF TypeOK
<1>5. Minted = {}
  BY DEF Init, Minted
<1>6. IsFiniteSet(Minted)
  BY <1>5, FS_EmptySet
<1>7. OutboxTrue /\ AnswersTrue /\ PageTrue
  BY DEF Init, Nothing, OutboxTrue, AnswersTrue, PageTrue
<1>8. CopyTrue
  <2>1. None # "applied"
    BY RecordsAssumption DEF States
  <2> QED
    BY <2>1 DEF Init, Nothing, CopyTrue
<1>9. (\A k \in Cycles : CycleOK(k)) /\ (\A h \in Handlers : RequestOK(h)) /\ OneRequestEach
  BY DEF Init, Nothing, CycleOK, Absorbing, RequestOK, OneRequestEach
<1> QED
  BY <1>4, <1>6, <1>7, <1>8, <1>9 DEF Inv

\* Every step keeps the invariant.
LEMMA NextInv == Inv /\ [Next]_vars => Inv'
<1> SUFFICES ASSUME Inv, [Next]_vars
             PROVE  Inv'
  OBVIOUS
<1>1. Consistent
  BY StepConsistent
<1>2. TypeOK'
  <2>1. /\ Server!TypeOK'
        /\ at' \in [OpIds -> Int]
        /\ box' \in [Devices -> [OpIds -> Recorded \cup {None}]]
        /\ answer' \in [Cycles -> [OpIds -> Result \cup {None}]]
        /\ page' \in [Cycles -> [Inspections -> Row \cup {None}]]
        /\ copy' \in [Cycles -> [OpIds -> States \cup {None}]]
    BY ServerStep, MintedStep, BoxStep, AnswersInv, PageInv, CopyInv
  <2> QED
    BY <1>1, <2>1, DeviceTypes DEF TypeOK, Consistent
<1>3. IsFiniteSet(Minted)'
  BY MintedStep
<1>4. OutboxTrue' /\ AnswersTrue' /\ PageTrue' /\ CopyTrue'
  BY OutboxInv, AnswersInv, PageInv, CopyInv
<1> QED
  BY <1>1, <1>2, <1>3, <1>4 DEF Inv, Consistent

\* What the devices, their cycles and requests know of the server is true,
\* for any number of each and whatever fails.
THEOREM Invariance == Spec => []Inv
BY InitInv, NextInv, PTL DEF Spec

\* Every variable of the devices, the network and the server keeps its type.
THEOREM TypeCorrect == Spec => []TypeOK
<1>1. Inv => TypeOK
  BY DEF Inv
<1> QED
  BY <1>1, Invariance, PTL

\* What a device shows as saved, or as in conflict, the server's ledger holds
\* as such.
THEOREM SavedSafety == Spec => []SavedIsLedgered
<1>1. Inv => SavedIsLedgered
  BY DEF Inv, OutboxTrue, RecordTrue, SavedIsLedgered, InBox
<1> QED
  BY <1>1, Invariance, PTL

\* No edit is lost: an op leaves the outbox decided, overtaken by a deletion
\* it asked for, or given up by the user.
THEOREM NoEditLost == Spec => KeptUntilDecided
<1>1. Inv /\ [Next]_vars => [LeavesDecided]_vars
  <2> SUFFICES ASSUME Inv, [Next]_vars
               PROVE  LeavesDecided
    OBVIOUS
  <2> SUFFICES ASSUME NEW d \in Devices, NEW id \in OpIds, box[d][id] # None,
                      box'[d][id] = None
               PROVE  MayLeave(d, id)
    BY DEF LeavesDecided, MayLeave, InBox
  <2> QED
    BY BoxStep
<1> QED
  BY <1>1, Invariance, PTL DEF Spec, KeptUntilDecided
=============================================================================
