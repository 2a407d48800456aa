-------------------------- MODULE OfflineSyncOrder --------------------------
(***************************************************************************)
(* What a device shows of its own ops once their answers are absorbed, for *)
(* every value of the constants: the snapshot is never older than an op    *)
(* that no longer counts, and a parked op waits for a choice made after    *)
(* it.  Both are claimed as long as no two cycles of a device overlapped   *)
(* (NoOverlap), which is what the flag _syncing of fullSync is meant for;  *)
(* what is claimed of an op, as long as it was not given up.               *)
(*                                                                         *)
(* Revisions order what happens to an inspection, so the argument is about *)
(* two ops of a device: one that is still to be absorbed, and one that has *)
(* been.  If the former has the later stamp, EffectsInOrder says that it   *)
(* took effect later.  If it has the earlier one, it was not in the        *)
(* request that the other was answered in: results are absorbed in order.  *)
(***************************************************************************)
EXTENDS OfflineSyncProofs

\* No two cycles of a device are at work.
OneWorks ==
    \A j, k \in Cycles :
        On[j] = On[k] /\ pc[j] # "idle" /\ pc[k] # "idle" => j = k

\* As long as a cycle only began when no other one was at work.
Alone == NoOverlap => OneWorks

Rev(id) == ledger[id].snap.rev

-----------------------------------------------------------------------------
(* The server *)

\* An op that took effect left a row that the inspection has gone on from.
RevsGrow ==
    \A id \in OpIds : HasEffect(id) =>
        /\ rows[OpOf[id].insp] # None
        /\ Rev(id) <= rows[OpOf[id].insp].rev

\* What an entry of the ledger has.
EntriesTrue ==
    \A id \in OpIds : ledger[id] # None =>
        /\ ledger[id].status = "conflict" => OpOf[id].type = "upsert"
        /\ ledger[id].snap # None <=> ledger[id].status \in {"applied", "conflict"}
        /\ OpOf[id].type = "delete" => ledger[id].snap = None
        /\ OpOf[id].type = "resolve_conflict" /\ ledger[id].status = "applied" =>
              OpOf[id].field \in Editable /\ ledger[id].snap.by[OpOf[id].field] = id
        /\ OpOf[id].type = "resolve_conflict" => ledger[id].status # "deleted"

\* A value was written by an op of the ledger.
WrittenByLedgered ==
    \A i \in Inspections : rows[i] # None =>
        \A f \in Editable : rows[i].by[f] # SeedOp => ledger[rows[i].by[f]] # None

\* The gate can refuse only while a photo is in upload.
PhotosCounted == waiting # {} => past.photos > 0

\* Has a choice for field f taken effect on i at a revision above n, up to m,
\* according to these entries?
SettledBetween(entries, i, f, n, m) ==
    \E r \in OpIds : /\ OpOf[r].type = "resolve_conflict"
                     /\ OpOf[r].insp = i /\ OpOf[r].field = f
                     /\ entries[r] # None /\ entries[r].status = "applied"
                     /\ n < entries[r].snap.rev /\ entries[r].snap.rev <= m

\* A conflict that op p opened is open in the row, and in what
\* later ops left, until a choice has taken effect.
ConflictsLast ==
    \A p \in OpIds : ledger[p] # None /\ ledger[p].status = "conflict" =>
        \A f \in ConflictFields(p, ledger[p]) :
            LET i == OpOf[p].insp
            IN  /\ \/ rows[i].conflict[f] # None
                   \/ SettledBetween(ledger, i, f, Rev(p), rows[i].rev)
                /\ \A x \in OpIds :
                      HasEffect(x) /\ OpOf[x].insp = i /\ Rev(p) < Rev(x) =>
                          \/ ledger[x].snap.conflict[f] # None
                          \/ SettledBetween(ledger, i, f, Rev(p), Rev(x))

-----------------------------------------------------------------------------
(* Stamps and homes *)

\* Stamps are distinct, as they count the ops minted so far.
StampsDistinct ==
    /\ \A id \in Minted : /\ at[id] <= Cardinality(Minted)
                          /\ -at[id] <= Cardinality(Minted)
    /\ \A a, b \in Minted : at[a] = at[b] => a = b

\* An op of a device is not decided before it is minted.
DecidedIsMinted == \A id \in OpIds : Home[id] # None /\ ledger[id] # None => id \in Minted

\* A device stages, keeps and sends its own ops.
AtHome ==
    /\ \A d \in Devices : \A id \in writing[d] : Home[id] = d /\ id \notin Minted
    /\ \A d \in Devices : \A id \in InBox(d) : Home[id] = d
    /\ \A k \in Cycles : \A id \in todo[k] : Home[id] = On[k]

\* An op that is not in the outbox has been decided, asks for a deletion, or
\* was given up.
GoneIsDecided ==
    \A id \in Minted :
        LET d == Home[id]
        IN  d # None /\ box[d][id] = None /\ id \notin past.discarded =>
                ledger[id] # None \/ OpOf[id].type = "delete"

-----------------------------------------------------------------------------
(* What a cycle has in hand *)

Whole == {"unavailable", "refused"}

\* An answer tells of the ledger's entry if it says that the op was decided.
AnswerExact(id, r) ==
    /\ r.snap # None \/ After(r.status) \in {"applied", "conflict"} =>
          ledger[id] # None /\ r.snap = ledger[id].snap
    /\ r.status = "attachments_incomplete" =>
          past.photos > 0 /\ OpOf[id].type # "resolve_conflict"

Exact(k) ==
    \A id \in OpIds :
        answer[k][id] # None => id \in todo[k] /\ AnswerExact(id, answer[k][id])

\* A request that failed as a whole failed for each of its ops.
WholeOrNot(k) ==
    /\ todo[k] # {} => pc[k] \in Absorbing \cup {"wait"}
    /\ pc[k] = "wait" =>
          \A id \in OpIds : answer[k][id] # None => answer[k][id].status \notin Whole
    /\ pc[k] \in Absorbing =>
          \/ \A id \in todo[k] : answer[k][id].status \in Whole
          \/ \A id \in todo[k] : answer[k][id].status \notin Whole

\* What a handler has left for a cycle is what the cycle waits for.
LeftIsTodo ==
    \A h \in Handlers :
        request[h] # None /\ request[h].by # None =>
            request[h].left \subseteq todo[request[h].by]

\* What is to be absorbed is due, and not yet absorbed.
TodoIsDue(k) ==
    \A id \in todo[k] :
        IF pc[k] = "sweep" /\ id = First(todo[k])
        THEN box[On[k]][id] = None \/ box[On[k]][id].state = "applied"
        ELSE box[On[k]][id] = None \/ id \in Due(On[k])

\* Could the gate not have put op id off?
Straight(id) == NothingPutOff \/ OpOf[id].type = "resolve_conflict"

\* Ops that are due and not in the request were minted after it was sent,
\* or the request failed as a whole.
LateIsUnsent(k) ==
    pc[k] \in Absorbing \cup {"wait"} =>
        \A a \in Due(On[k]) \ todo[k] :
            Straight(a) =>
                \/ ledger[a] = None /\ \A h \in Handlers : request[h] # None => a \notin request[h].left
                \/ pc[k] \in Absorbing /\ \A id \in todo[k] : answer[k][id].status \in Whole

\* The snapshot of the result being absorbed is kept.
SnapshotKept(k) ==
    pc[k] \in {"save", "sweep"} =>
        LET id == First(todo[k])
        IN  answer[k][id].snap # None => snap[On[k]][OpOf[id].insp] = answer[k][id].snap

\* A resolution that is swept has settled something.
SweepSettles(k) == pc[k] = "sweep" => Settles(First(todo[k]), answer[k][First(todo[k])])

\* What the copy has as applied is applied still, or gone.
CopyStays(k) ==
    \A id \in OpIds : copy[k][id] = "applied" =>
        box[On[k]][id] = None \/ box[On[k]][id].state = "applied"

-----------------------------------------------------------------------------
(* The order of what is absorbed and what is not *)

\* Has the device absorbed how op id was decided?
Absorbed(d, id) ==
    /\ Home[id] = d /\ id \in Minted
    /\ IF box[d][id] = None THEN id \notin past.discarded
                            ELSE box[d][id].state \in {"applied", "conflict"}

Pending(d, id) == id \in Due(d) \/ \E k \in Cycles : On[k] = d /\ id \in todo[k]

\* What is absorbed out of order took effect out of order.
LateIsLater ==
    \A d \in Devices : \A a, x \in OpIds :
        /\ Pending(d, a) /\ Absorbed(d, x)
        /\ Straight(a)
        /\ OpOf[a].insp = OpOf[x].insp
        /\ at[a] < at[x]
        /\ HasEffect(a) /\ HasEffect(x)
        => /\ Rev(x) <= Rev(a)
           /\ Wrote(a) => Rev(x) < Rev(a)

\* A page is as new as what had been absorbed when it was asked for.
PageIsNew ==
    \A k \in Cycles : \A x \in OpIds :
        LET i == OpOf[x].insp
        IN  /\ page[k][i] # None
            /\ Absorbed(On[k], x) /\ HasEffect(x)
            => Rev(x) <= page[k][i].rev

\* The list is in hand from its request to the end of the cycle, the copy
\* while it is merged.
PageInHand(k) ==
    /\ page[k] # Nothing(Inspections) => pc[k] \in {"conflicts", "read", "merge"}
    /\ copy[k] # Nothing(OpIds) => pc[k] = "merge"

\* What is absorbed is shown.
AbsorbedIsShown ==
    NothingPutOff /\ EffectsInOrder =>
        \A d \in Devices : \A x \in OpIds :
            Absorbed(d, x) /\ HasEffect(x) =>
                /\ snap[d][OpOf[x].insp] # None
                /\ Rev(x) <= snap[d][OpOf[x].insp].rev

\* A parked op knows the fields it lost.
ParkedFields ==
    \A d \in Devices : \A id \in InBox(d) :
        box[d][id].state = "conflict" =>
            box[d][id].fields = ConflictFields(id, ledger[id])

\* What a cycle knows of its place.
InHand(k) ==
    /\ Exact(k)
    /\ WholeOrNot(k)
    /\ TodoIsDue(k)
    /\ LateIsUnsent(k)
    /\ SnapshotKept(k)
    /\ SweepSettles(k)
    /\ CopyStays(k)
    /\ PageInHand(k)

Ordered ==
    /\ RevsGrow
    /\ EntriesTrue
    /\ WrittenByLedgered
    /\ PhotosCounted
    /\ ConflictsLast
    /\ StampsDistinct
    /\ DecidedIsMinted
    /\ AtHome
    /\ GoneIsDecided
    /\ LeftIsTodo
    /\ \A k \in Cycles : InHand(k)
    /\ LateIsLater
    /\ PageIsNew
    /\ AbsorbedIsShown
    /\ ParkedFields

-----------------------------------------------------------------------------
(* What an operation does to the history of an inspection *)

\* A merge that writes a field moves the revision on, and it leaves no
\* conflict out.
LEMMA MergeHistory ==
    ASSUME NEW id \in OpIds, NEW row \in Row, NEW creating \in BOOLEAN,
           ValidateChanges(OpOf[id].changes, creating)
    PROVE  LET m == Merge(id, row, FALSE).row
           IN  /\ row.rev <= m.rev
               /\ \A f \in Editable : m.by[f] = row.by[f] \/ (m.by[f] = id /\ row.rev < m.rev)
               /\ \A f \in Editable : row.conflict[f] # None => m.conflict[f] # None
<1> DEFINE ch == OpOf[id].changes
           ff == FieldsWith("apply", ch, row)
           cf == FieldsWith("conflict", ch, row)
           m  == Merge(id, row, FALSE).row
<1>1. row.rev \in Nat
  BY DEF Row
<1>2. /\ m.rev = IF ff # {} THEN row.rev + 1 ELSE row.rev
      /\ \A f \in Editable : m.by[f] = IF f \in ff THEN id ELSE row.by[f]
      /\ \A f \in Editable :
            m.conflict[f] = IF f \in cf THEN RecordConflict(row, f, ch[f].v, id)
                                        ELSE row.conflict[f]
  BY DEF Merge
<1>3. ASSUME NEW f \in Editable, f \in cf
      PROVE  RecordConflict(row, f, ch[f].v, id) # None
  <2>1. ch[f].v \in Values
    BY <1>3, ValidChangesHaveValues DEF FieldsWith
  <2>2. RecordConflict(row, f, ch[f].v, id) \in Conflict
    BY <2>1, RecordConflictType
  <2> QED
    BY <2>2, NoneAssumption
<1> HIDE DEF ff, cf, m
<1>4. row.rev <= m.rev /\ \A f \in Editable : m.by[f] = row.by[f] \/ (m.by[f] = id /\ row.rev < m.rev)
  BY <1>1, <1>2
<1>5. \A f \in Editable : row.conflict[f] # None => m.conflict[f] # None
  BY <1>2, <1>3
<1> QED
  BY <1>4, <1>5 DEF m

\* Outcome o of op id follows on row: the revision is not taken back,
\* it moves on if a field is written, and a conflict ends only as the choice
\* for its field.
GoesOn(row, id, o) ==
    /\ row.rev <= o.row.rev
    /\ \A f \in Editable :
          o.row.by[f] = row.by[f] \/ (o.row.by[f] = id /\ row.rev < o.row.rev)
    /\ \A f \in Editable :
          row.conflict[f] # None /\ o.row.conflict[f] = None =>
              /\ OpOf[id].type = "resolve_conflict" /\ OpOf[id].field = f
              /\ o.status = "applied" /\ row.rev < o.row.rev

\* What an applied choice leaves.
LEMMA ResolveHistory ==
    ASSUME NEW u \in Users, NEW id \in OpIds, NEW row \in Row \cup {None},
           ApplyResolve(u, id, row).status = "applied"
    PROVE  LET o == ApplyResolve(u, id, row)
               g == OpOf[id].field
           IN  /\ row # None /\ g \in Editable
               /\ o.row.rev = row.rev + 1
               /\ o.row.by[g] = id
               /\ \A f \in Editable : f # g =>
                     o.row.by[f] = row.by[f] /\ o.row.conflict[f] = row.conflict[f]
<1> DEFINE op == OpOf[id]
           g  == op.field
           settled == [row EXCEPT !.val[g] = op.value, !.by[g] = id,
                                  !.conflict[g] = None, !.rev = @ + 1]
<1>1. /\ row # None /\ g \in Editable
      /\ ApplyResolve(u, id, row).row = settled
  BY DEF ApplyResolve, Reply
<1>2. settled.rev = row.rev + 1 /\ settled.by[g] = id
  BY <1>1 DEF Row
<1>3. \A f \in Editable : f # g =>
         settled.by[f] = row.by[f] /\ settled.conflict[f] = row.conflict[f]
  BY <1>1 DEF Row
<1> QED
  BY <1>1, <1>2, <1>3

\* Every operation goes on from the row it finds.
LEMMA OutcomeHistory ==
    ASSUME NEW u \in Users, NEW id \in OpIds, NEW row \in Row, NEW w \in BOOLEAN
    PROVE  GoesOn(row, id, Outcome(u, id, row, w))
<1> DEFINE op == OpOf[id]
           out == Outcome(u, id, row, w)
           dead == [row EXCEPT !.deleted = TRUE, !.rev = @ + 1]
<1> SUFFICES GoesOn(row, id, out)
  OBVIOUS
<1>1. row # None /\ row.rev \in Nat
  BY NoneAssumption DEF Row
<1>2. CASE out.row = row
  <2> HIDE DEF out
  <2> QED
    BY <1>1, <1>2 DEF GoesOn
<1>3. CASE op.type = "resolve_conflict" /\ out.row # row
  <2>1. out = ApplyResolve(u, id, row)
    BY <1>3 DEF Outcome
  <2>2. out.status = "applied"
    BY <1>3, <2>1 DEF ApplyResolve, Reply
  <2>3. /\ out.row.rev = row.rev + 1
        /\ out.row.by[op.field] = id
        /\ \A f \in Editable : f # op.field =>
              out.row.by[f] = row.by[f] /\ out.row.conflict[f] = row.conflict[f]
    BY <2>1, <2>2, ResolveHistory
  <2> HIDE DEF out
  <2> QED
    BY <1>1, <1>3, <2>2, <2>3 DEF GoesOn
<1>4. CASE op.type # "resolve_conflict" /\ out.row # row
  <2>1. out = ApplyToRow(u, id, row, w)
    BY <1>1, <1>4 DEF Outcome
  <2>2. row.owner = u /\ ~ row.deleted
    BY <1>4, <2>1, ToRowIsLive
  <2>3. CASE op.type = "delete"
    <3>1. out.row = dead
      BY <2>1, <2>2, <2>3 DEF ApplyToRow, Reply
    <3>2. dead.rev = row.rev + 1 /\ dead.by = row.by /\ dead.conflict = row.conflict
      BY DEF Row
    <3> HIDE DEF out, dead
    <3> QED
      BY <1>1, <3>1, <3>2 DEF GoesOn
  <2>4. CASE op.type # "delete"
    <3>1. ValidateChanges(op.changes, FALSE) /\ out = ApplyUpsert(id, row, FALSE, w)
      <4>1. ValidateChanges(op.changes, FALSE) \/ out = Reply("invalid", row)
        BY <2>1, <2>2, <2>4 DEF ApplyToRow
      <4>2. Reply("invalid", row).row = row
        BY DEF Reply
      <4>3. ValidateChanges(op.changes, FALSE)
        BY <1>4, <4>1, <4>2
      <4> QED
        BY <2>1, <2>2, <2>4, <4>3 DEF ApplyToRow
    <3>2. out.row = Merge(id, row, FALSE).row
      <4>1. ApplyUpsert(id, row, FALSE, w).row # row
        BY <1>4, <3>1
      <4>2. ApplyUpsert(id, row, FALSE, w) = Merge(id, row, FALSE)
        BY <4>1, UpsertMerges
      <4> QED
        BY <3>1, <4>2
    <3> DEFINE m == Merge(id, row, FALSE).row
    <3>3. /\ row.rev <= m.rev
          /\ \A f \in Editable : m.by[f] = row.by[f] \/ (m.by[f] = id /\ row.rev < m.rev)
          /\ \A f \in Editable : row.conflict[f] # None => m.conflict[f] # None
      BY <3>1, MergeHistory
    <3> HIDE DEF out, m
    <3> QED
      BY <3>2, <3>3 DEF GoesOn, m
  <2> QED
    BY <2>3, <2>4
<1> QED
  BY <1>2, <1>3, <1>4

\* What outcome o has to do with its operation.
Fits(row, id, o) ==
    /\ o.status \in {"applied", "conflict"} => o.row \in Row /\ OpOf[id].type # "delete"
    /\ o.status = "conflict" => OpOf[id].type = "upsert"
    /\ OpOf[id].type = "resolve_conflict" /\ o.status = "applied" =>
          OpOf[id].field \in Editable /\ o.row.by[OpOf[id].field] = id
    /\ OpOf[id].type = "resolve_conflict" => o.status # "deleted"
    /\ row = None /\ o.row # None => \A f \in Editable : o.row.by[f] = id

LEMMA OutcomeFits ==
    ASSUME NEW u \in Users, NEW id \in OpIds, NEW row \in Row \cup {None}, NEW w \in BOOLEAN,
           OpOf[id].type # "malformed"
    PROVE  Fits(row, id, Outcome(u, id, row, w))
<1> DEFINE op == OpOf[id]
           out == Outcome(u, id, row, w)
<1> SUFFICES Fits(row, id, out)
  OBVIOUS
<1>1. out.row \in Row \cup {None}
  BY OutcomeType DEF Outcomes
<1>2. op.type \in {"upsert", "delete", "resolve_conflict"}
  BY PayloadType DEF Operation
<1>3. CASE op.type = "resolve_conflict"
  <2>1. out = ApplyResolve(u, id, row)
    BY <1>3 DEF Outcome
  <2>2. out.status \notin {"conflict", "deleted"} /\ (row = None => out.row = None)
    BY <2>1 DEF ApplyResolve, Reply
  <2>3. out.status = "applied" =>
            row # None /\ op.field \in Editable /\ out.row.by[op.field] = id
    BY <2>1, ResolveHistory
  <2>4. out.row = None => row = None
    BY OutcomeType
  <2> HIDE DEF out
  <2> QED
    BY <1>1, <1>3, <2>2, <2>3, <2>4 DEF Fits
<1>4. CASE op.type = "delete"
  <2>1. out.status \in {"deleted", "forbidden"} /\ (row = None => out.row = None)
    BY <1>4 DEF Outcome, ApplyToAbsent, ApplyToRow, Reply
  <2> HIDE DEF out
  <2> QED
    BY <1>4, <2>1 DEF Fits
<1>5. CASE op.type = "upsert" /\ row # None
  <2>1. out.row # None
    BY <1>5, OutcomeType
  <2> HIDE DEF out
  <2> QED
    BY <1>1, <1>5, <2>1 DEF Fits
<1>6. CASE op.type = "upsert" /\ row = None
  <2>1. out = ApplyToAbsent(u, id)
    BY <1>6 DEF Outcome
  <2> DEFINE made == CreateInspection(u, id)
  <2>2. CASE ~ ValidateChanges(op.changes, TRUE)
    <3>1. out.status = "invalid" /\ out.row = None
      BY <1>6, <2>1, <2>2 DEF ApplyToAbsent, Reply
    <3> HIDE DEF out
    <3> QED
      BY <1>6, <3>1 DEF Fits
  <2>3. CASE ValidateChanges(op.changes, TRUE)
    <3>1. out = Merge(id, made, TRUE)
      BY <1>6, <2>1, <2>3, CreationMerges DEF ApplyToAbsent
    <3>2. made \in Row /\ \A f \in Editable : made.by[f] = id
      BY <2>3, CreateInspectionType DEF CreateInspection
    <3> HIDE DEF made
    <3>3. out.row # None
      BY <2>3, <3>1, <3>2, MergeType, NoneAssumption
    <3>4. \A f \in Editable : out.row.by[f] = id
      BY <3>1, <3>2 DEF Merge
    <3> HIDE DEF out
    <3> QED
      BY <1>1, <1>6, <3>3, <3>4 DEF Fits
  <2> QED
    BY <2>2, <2>3
<1> QED
  BY <1>2, <1>3, <1>4, <1>5, <1>6

-----------------------------------------------------------------------------
(* What a step makes of the server *)

\* Op id, sent by its device or by an API client, takes effect.
Takes(id) ==
    LET i == OpOf[id].insp
    IN  /\ ledger[id] = None /\ ledger'[id] # None
        /\ Home[id] = None \/ \E h \in Handlers : request[h] # None /\ id \in request[h].left
        /\ \A j \in OpIds \ {id} : ledger'[j] = ledger[j]
        /\ \A j \in Inspections \ {i} : rows'[j] = rows[j]
        /\ \E o \in Outcomes :
              /\ ledger'[id].status = o.status
              /\ ledger'[id].snap = IF o.status \in {"applied", "conflict"} THEN o.row ELSE None
              /\ rows'[i] = o.row
              /\ Fits(rows[i], id, o)
              /\ rows[i] # None => rows'[i] \in Row /\ GoesOn(rows[i], id, o)

LEMMA ApplyTakes ==
    ASSUME Inv, NEW u \in Users, NEW id \in OpIds, Server!Apply(u, id),
           Home[id] = None \/ \E h \in Handlers : request[h] # None /\ id \in request[h].left
    PROVE  Takes(id)
<1> DEFINE i   == OpOf[id].insp
           row == rows[i]
           w   == i \in waiting
           out == Outcome(u, id, row, w)
<1>1. w \in BOOLEAN
  OBVIOUS
<1>2. rows \in [Inspections -> Row \cup {None}] /\ ledger \in [OpIds -> Entries \cup {None}]
  BY SameRules DEF Inv, TypeOK, Server!TypeOK
<1>3. i \in Inspections /\ row \in Row \cup {None}
  BY <1>2, PayloadType
<1>4. Server!TypeOK
  BY DEF Inv, TypeOK
<1>5. Outcome(u, id, row, i \in waiting) = out
  OBVIOUS
<1>6. /\ out \in Outcomes
      /\ ledger'[id] = Entry(u, out)
      /\ Entry(u, out) # None
  BY <1>4, <1>5, ApplyGrows
<1>7. /\ OpOf[id].type # "malformed"
      /\ ledger[id] = None
      /\ rows' = [rows EXCEPT ![i] = out.row]
      /\ ledger' = [ledger EXCEPT ![id] = Entry(u, out)]
  BY <1>5, SameRules DEF Server!Apply, Malformed
<1>8. Fits(row, id, out)
  <2> HIDE DEF w
  <2> QED
    BY <1>1, <1>3, <1>7, OutcomeFits
<1>9. row # None => out.row # None /\ GoesOn(row, id, out)
  <2> HIDE DEF w, row
  <2> QED
    BY <1>1, <1>3, OutcomeHistory, OutcomeType
<1> HIDE DEF out, row, i
<1>10. /\ ledger'[id].status = out.status
       /\ ledger'[id].snap = IF out.status \in {"applied", "conflict"} THEN out.row ELSE None
  BY <1>6 DEF Entry
<1>11. rows'[i] = out.row /\ out.row \in Row \cup {None}
  BY <1>2, <1>3, <1>6, <1>7 DEF Outcomes
<1>12. /\ \A j \in OpIds \ {id} : ledger'[j] = ledger[j]
       /\ \A j \in Inspections \ {i} : rows'[j] = rows[j]
       /\ ledger'[id] # None
  BY <1>2, <1>6, <1>7
<1>13. row = rows[i]
  BY DEF row
<1> QED
  BY <1>6, <1>7, <1>8, <1>9, <1>10, <1>11, <1>12, <1>13 DEF Takes, i

\* Only one op takes effect in a step.
LEMMA ServerMoves ==
    ASSUME Inv, [Next]_vars
    PROVE  UNCHANGED <<rows, ledger>> \/ \E id \in OpIds : Takes(id)
<1>1. ASSUME NEW h \in Handlers, Serve(h) \/ OpFails(h)
      PROVE  UNCHANGED <<rows, ledger>> \/ \E id \in OpIds : Takes(id)
  <2>1. /\ request[h] # None /\ request[h].left # {}
        /\ \/ UNCHANGED server
           \/ Server!Apply(request[h].user, First(request[h].left))
    BY <1>1 DEF Serve, OpFails
  <2>2. request[h].user \in Users /\ request[h].left \subseteq Minted
    BY <2>1 DEF Inv, TypeOK, Request, RequestOK
  <2>3. First(request[h].left) \in OpIds /\ First(request[h].left) \in request[h].left
    BY <2>1, <2>2, NextOp
  <2>4. CASE UNCHANGED server
    BY <2>4 DEF server
  <2>5. CASE Server!Apply(request[h].user, First(request[h].left))
    BY <2>1, <2>2, <2>3, <2>5, ApplyTakes
  <2> QED
    BY <2>1, <2>4, <2>5
<1>2. ASSUME NEW d \in Devices, User(d) \/ Reload(d) \/ \E id \in OpIds : EnqueueOp(d, id)
      PROVE  UNCHANGED <<rows, ledger>>
  BY <1>2 DEF User, Reload, EnqueueOp, StageOp, StageCreate, StageDelete, ResolveConflict,
     DiscardOps, Logout, Login, server
<1>3. ASSUME NEW k \in Cycles, Cycle(k) \/ NetworkFails(k) \/ RequestFails(k) \/ PullFails(k)
      PROVE  UNCHANGED <<rows, ledger>>
  BY <1>3 DEF Cycle, NetworkFails, RequestFails, PullFails, Begin, SyncOps, AbsorbResult,
     UpdateOp, Sweep, ListRows, ListConflicts, ReadLocal, MergeSnapshot, server
<1>4. ASSUME NEW h \in Handlers, Respond(h) \/ HandlerEnds(h)
      PROVE  UNCHANGED <<rows, ledger>>
  BY <1>4 DEF Respond, HandlerEnds, server
<1>5. ASSUME NEW u \in Users, NEW id \in OpIds, RemoteApply(u, id)
      PROVE  Takes(id)
  BY <1>5, ApplyTakes DEF RemoteApply
<1>6. ASSUME NEW i \in Inspections, OpenAttachment(i) \/ CompleteAttachments(i)
      PROVE  UNCHANGED <<rows, ledger>>
  BY <1>6 DEF OpenAttachment, CompleteAttachments, Server!OpenAttachment,
     Server!CompleteAttachments
<1>7. CASE UNCHANGED vars
  BY <1>7 DEF vars
<1> QED
  BY <1>1, <1>2, <1>3, <1>4, <1>5, <1>6, <1>7 DEF Next, Handle

\* Rows and entries are well formed, rows go on, and entries are final.
LEMMA RowsMove ==
    ASSUME Inv, [Next]_vars
    PROVE  /\ \A i \in Inspections : rows[i] # None =>
                 /\ rows[i] \in Row /\ rows'[i] \in Row /\ rows'[i] # None
                 /\ rows[i].rev \in Nat /\ rows'[i].rev \in Nat
                 /\ rows[i].rev <= rows'[i].rev
           /\ \A id \in OpIds : ledger[id] # None => ledger'[id] = ledger[id]
           /\ \A id \in OpIds : HasEffect(id) => ledger[id].snap \in Row /\ Rev(id) \in Nat
           /\ \A id \in OpIds : HasEffect(id)' => ledger'[id].snap \in Row /\ Rev(id)' \in Nat
<1>1. Grows /\ Server!TypeOK'
  BY ServerStep
<1>2. /\ rows \in [Inspections -> Row \cup {None}] /\ ledger \in [OpIds -> Entries \cup {None}]
      /\ rows' \in [Inspections -> Row \cup {None}] /\ ledger' \in [OpIds -> Entries \cup {None}]
  BY <1>1, SameRules DEF Inv, TypeOK, Server!TypeOK
<1>3. \A r \in Row : r.rev \in Nat
  BY DEF Row
<1>4. \A e \in Entries : e.snap \in Row \cup {None}
  BY DEF Entries
<1>5. ASSUME NEW i \in Inspections, rows[i] # None
      PROVE  /\ rows[i] \in Row /\ rows'[i] \in Row /\ rows'[i] # None
             /\ rows[i].rev \in Nat /\ rows'[i].rev \in Nat
             /\ rows[i].rev <= rows'[i].rev
  <2>1. rows[i] \in Row /\ rows'[i] \in Row /\ rows'[i] # None
    BY <1>1, <1>2, <1>5 DEF Grows
  <2>2. rows'[i] = rows[i] \/ rows[i].rev <= rows'[i].rev
    BY <1>5, ServerMoves DEF Takes, GoesOn
  <2> QED
    BY <1>3, <2>1, <2>2
<1>6. \A id \in OpIds : ledger[id] # None => ledger'[id] = ledger[id]
  BY <1>1 DEF Grows
<1>7. \A id \in OpIds : HasEffect(id) => ledger[id].snap \in Row /\ Rev(id) \in Nat
  BY <1>2, <1>3, <1>4 DEF HasEffect, Rev
<1>8. \A id \in OpIds : HasEffect(id)' => ledger'[id].snap \in Row /\ Rev(id)' \in Nat
  BY <1>2, <1>3, <1>4 DEF HasEffect, Rev
<1> QED
  BY <1>5, <1>6, <1>7, <1>8

\* An op that takes effect leaves the inspection as its entry tells, and
\* moves the revision on if it writes.
LEMMA EffectMoves ==
    ASSUME Inv, WrittenByLedgered, [Next]_vars, NEW id \in OpIds, HasEffect(id)'
    PROVE  \/ HasEffect(id) /\ ledger'[id] = ledger[id]
           \/ LET i == OpOf[id].insp
              IN  /\ Takes(id)
                  /\ ledger'[id].snap = rows'[i] /\ rows'[i] \in Row
                  /\ rows[i] # None =>
                        /\ rows[i].rev <= rows'[i].rev
                        /\ Wrote(id)' => rows[i].rev < rows'[i].rev
<1> DEFINE i == OpOf[id].insp
<1>1. CASE ledger[id] # None
  BY <1>1, RowsMove DEF HasEffect
<1>2. CASE ledger[id] = None
  <2>1. Takes(id)
    <3>1. ledger'[id] # ledger[id]
      BY <1>2 DEF HasEffect
    <3> QED
      BY <3>1, ServerMoves DEF Takes
  <2>2. PICK o \in Outcomes :
              /\ ledger'[id].snap = IF o.status \in {"applied", "conflict"} THEN o.row ELSE None
              /\ rows'[i] = o.row
              /\ Fits(rows[i], id, o)
              /\ rows[i] # None => rows'[i] \in Row /\ GoesOn(rows[i], id, o)
    BY <2>1 DEF Takes
  <2>3. ledger'[id].snap = rows'[i] /\ rows'[i] \in Row
    BY <2>2 DEF HasEffect, Fits
  <2>4. ASSUME rows[i] # None
        PROVE  /\ rows[i].rev <= rows'[i].rev
               /\ Wrote(id)' => rows[i].rev < rows'[i].rev
    <3>1. i \in Inspections
      BY PayloadType
    <3>2. \A f \in Editable : rows[i].by[f] # id
      BY <1>2, <2>4, <3>1, OpAssumption DEF WrittenByLedgered
    <3> HIDE DEF i
    <3>3. /\ rows[i].rev <= rows'[i].rev
          /\ \A f \in Editable : rows'[i].by[f] = id => rows[i].rev < rows'[i].rev
      BY <2>2, <2>4, <3>2 DEF GoesOn
    <3> QED
      BY <2>3, <3>3 DEF Wrote
  <2> QED
    BY <2>1, <2>3, <2>4
<1> QED
  BY <1>1, <1>2

LEMMA RevsGrowStep ==
    ASSUME Inv, WrittenByLedgered, RevsGrow, [Next]_vars
    PROVE  RevsGrow'
<1> SUFFICES ASSUME NEW id \in OpIds, HasEffect(id)'
             PROVE  rows'[OpOf[id].insp] # None /\ Rev(id)' <= rows'[OpOf[id].insp].rev
  BY DEF RevsGrow
<1> DEFINE i == OpOf[id].insp
<1>1. i \in Inspections
  BY PayloadType
<1>2. CASE HasEffect(id) /\ ledger'[id] = ledger[id]
  <2>1. rows[i] # None /\ Rev(id) <= rows[i].rev /\ Rev(id)' = Rev(id) /\ Rev(id) \in Nat
    BY <1>2, RowsMove DEF RevsGrow, Rev
  <2> QED
    BY <1>1, <2>1, RowsMove
<1>3. CASE ledger'[id].snap = rows'[i] /\ rows'[i] \in Row
  <2>1. rows'[i].rev \in Nat /\ rows'[i] # None
    BY <1>3, NoneAssumption DEF Row
  <2> QED
    BY <1>3, <2>1 DEF Rev
<1> QED
  BY <1>2, <1>3, EffectMoves

LEMMA EntriesTrueStep ==
    ASSUME Inv, EntriesTrue, [Next]_vars
    PROVE  EntriesTrue'
<1> SUFFICES ASSUME NEW id \in OpIds, ledger'[id] # None
             PROVE  /\ ledger'[id].status = "conflict" => OpOf[id].type = "upsert"
                    /\ ledger'[id].snap # None <=> ledger'[id].status \in {"applied", "conflict"}
                    /\ OpOf[id].type = "delete" => ledger'[id].snap = None
                    /\ OpOf[id].type = "resolve_conflict" /\ ledger'[id].status = "applied" =>
                          /\ OpOf[id].field \in Editable
                          /\ ledger'[id].snap.by[OpOf[id].field] = id
                    /\ OpOf[id].type = "resolve_conflict" => ledger'[id].status # "deleted"
  BY DEF EntriesTrue
<1>1. CASE ledger[id] # None
  BY <1>1, RowsMove DEF EntriesTrue
<1>2. CASE ledger[id] = None
  <2>1. Takes(id)
    BY <1>2, ServerMoves DEF Takes
  <2>2. PICK o \in Outcomes :
              /\ ledger'[id].status = o.status
              /\ ledger'[id].snap = IF o.status \in {"applied", "conflict"} THEN o.row ELSE None
              /\ Fits(rows[OpOf[id].insp], id, o)
    BY <2>1 DEF Takes
  <2> QED
    BY <2>2, NoneAssumption DEF Fits
<1> QED
  BY <1>1, <1>2

LEMMA WrittenByLedgeredStep ==
    ASSUME Inv, WrittenByLedgered, [Next]_vars
    PROVE  WrittenByLedgered'
<1> SUFFICES ASSUME NEW i \in Inspections, rows'[i] # None,
                    NEW f \in Editable, rows'[i].by[f] # SeedOp
             PROVE  ledger'[rows'[i].by[f]] # None
  BY DEF WrittenByLedgered
<1>1. /\ rows \in [Inspections -> Row \cup {None}]
      /\ \A r \in Row : r.by[f] \in OpIds \cup {SeedOp}
  BY SameRules DEF Inv, TypeOK, Server!TypeOK, Row
<1>2. CASE rows[i] # None /\ rows'[i].by[f] = rows[i].by[f]
  <2>1. rows[i].by[f] \in OpIds /\ ledger[rows[i].by[f]] # None
    BY <1>1, <1>2 DEF WrittenByLedgered
  <2> QED
    BY <1>2, <2>1, RowsMove
<1>3. CASE ~ (rows[i] # None /\ rows'[i].by[f] = rows[i].by[f])
  <2>1. rows'[i] # rows[i]
    BY <1>3
  <2>2. PICK id \in OpIds : Takes(id) /\ OpOf[id].insp = i
    <3>1. PICK id \in OpIds : Takes(id)
      BY <2>1, ServerMoves
    <3> QED
      BY <2>1, <3>1 DEF Takes
  <2>3. PICK o \in Outcomes : /\ rows'[i] = o.row
                              /\ Fits(rows[i], id, o)
                              /\ rows[i] # None => GoesOn(rows[i], id, o)
    BY <2>2 DEF Takes
  <2>4. rows'[i].by[f] = id
    BY <1>3, <2>3 DEF Fits, GoesOn
  <2> QED
    BY <2>2, <2>4 DEF Takes
<1> QED
  BY <1>2, <1>3

\* A choice that has taken effect stays one.
LEMMA SettledStays ==
    ASSUME Inv, EntriesTrue, [Next]_vars, NEW i, NEW f, NEW n \in Nat, NEW m \in Nat, NEW l \in Nat,
           SettledBetween(ledger, i, f, n, m), m <= l
    PROVE  SettledBetween(ledger', i, f, n, l)
<1>1. PICK r \in OpIds : /\ OpOf[r].type = "resolve_conflict"
                         /\ OpOf[r].insp = i /\ OpOf[r].field = f
                         /\ ledger[r] # None /\ ledger[r].status = "applied"
                         /\ n < Rev(r) /\ Rev(r) <= m
  BY DEF SettledBetween, Rev
<1>2. HasEffect(r)
  BY <1>1 DEF EntriesTrue, HasEffect
<1>3. ledger'[r] = ledger[r] /\ Rev(r) \in Nat
  BY <1>1, <1>2, RowsMove
<1>4. n < Rev(r) /\ Rev(r) <= l
  BY <1>1, <1>3
<1> QED
  BY <1>1, <1>3, <1>4 DEF SettledBetween, Rev

\* A conflict of the row stays open, or the choice for it takes effect.
LEMMA OpenOrSettled ==
    ASSUME Inv, EntriesTrue, WrittenByLedgered, [Next]_vars,
           NEW i \in Inspections, NEW f \in Editable, NEW n \in Nat,
           rows[i] # None, n <= rows[i].rev,
           rows[i].conflict[f] # None \/ SettledBetween(ledger, i, f, n, rows[i].rev)
    PROVE  rows'[i].conflict[f] # None \/ SettledBetween(ledger', i, f, n, rows'[i].rev)
<1>1. /\ rows[i].rev \in Nat /\ rows'[i].rev \in Nat
      /\ rows[i].rev <= rows'[i].rev
  BY RowsMove
<1>2. CASE SettledBetween(ledger, i, f, n, rows[i].rev)
  BY <1>1, <1>2, SettledStays
<1>3. CASE rows[i].conflict[f] # None /\ rows'[i].conflict[f] = None
  <2>1. PICK id \in OpIds : Takes(id) /\ OpOf[id].insp = i
    <3>1. PICK id \in OpIds : Takes(id)
      BY <1>3, ServerMoves
    <3> QED
      BY <1>3, <3>1 DEF Takes
  <2>2. PICK o \in Outcomes :
              /\ ledger'[id].status = o.status
              /\ ledger'[id].snap = IF o.status \in {"applied", "conflict"} THEN o.row ELSE None
              /\ rows'[i] = o.row
              /\ GoesOn(rows[i], id, o)
    BY <1>3, <2>1 DEF Takes
  <2>3. /\ OpOf[id].type = "resolve_conflict" /\ OpOf[id].field = f
        /\ o.status = "applied" /\ rows[i].rev < rows'[i].rev
    BY <1>3, <2>2 DEF GoesOn
  <2>4. /\ ledger'[id].snap = rows'[i]
        /\ ledger'[id] # None /\ ledger'[id].status = "applied"
    BY <2>1, <2>2, <2>3 DEF Takes
  <2>5. n < rows'[i].rev /\ rows'[i].rev <= rows'[i].rev
    BY <1>1, <2>3
  <2> QED
    BY <2>1, <2>3, <2>4, <2>5 DEF SettledBetween
<1> QED
  BY <1>2, <1>3

LEMMA ConflictsLastStep ==
    ASSUME Inv, RevsGrow, EntriesTrue, EntriesTrue', WrittenByLedgered, ConflictsLast, [Next]_vars
    PROVE  ConflictsLast'
<1> SUFFICES ASSUME NEW p \in OpIds, ledger'[p] # None, ledger'[p].status = "conflict",
                    NEW f \in ConflictFields(p, ledger'[p])
             PROVE  LET i == OpOf[p].insp
                        n == ledger'[p].snap.rev
                    IN  /\ \/ rows'[i].conflict[f] # None
                           \/ SettledBetween(ledger', i, f, n, rows'[i].rev)
                        /\ \A x \in OpIds :
                              HasEffect(x)' /\ OpOf[x].insp = i /\ n < ledger'[x].snap.rev =>
                                  \/ ledger'[x].snap.conflict[f] # None
                                  \/ SettledBetween(ledger', i, f, n, ledger'[x].snap.rev)
  BY DEF ConflictsLast, ConflictFields, Rev
<1> DEFINE i == OpOf[p].insp
           n == ledger'[p].snap.rev
<1>1. HasEffect(p)'
  BY DEF EntriesTrue, HasEffect
<1>2. i \in Inspections /\ f \in Editable /\ ledger'[p].snap.conflict[f] # None /\ n \in Nat
  BY <1>1, PayloadType, RowsMove DEF ConflictFields, Rev
<1>3. rows'[i].conflict[f] # None \/ SettledBetween(ledger', i, f, n, rows'[i].rev)
  <2>1. CASE HasEffect(p) /\ ledger'[p] = ledger[p]
    <3>1. n = Rev(p) /\ rows[i] # None /\ n <= rows[i].rev
      BY <2>1 DEF RevsGrow, Rev
    <3>2. rows[i].conflict[f] # None \/ SettledBetween(ledger, i, f, n, rows[i].rev)
      BY <2>1 DEF ConflictsLast, ConflictFields, HasEffect, Rev
    <3> HIDE DEF n, i
    <3> QED
      BY <1>2, <3>1, <3>2, OpenOrSettled
  <2>2. CASE ledger'[p].snap = rows'[i]
    BY <1>2, <2>2
  <2> QED
    BY <1>1, <2>1, <2>2, EffectMoves
<1>4. ASSUME NEW x \in OpIds, HasEffect(x)', OpOf[x].insp = i, n < ledger'[x].snap.rev
      PROVE  \/ ledger'[x].snap.conflict[f] # None
             \/ SettledBetween(ledger', i, f, n, ledger'[x].snap.rev)
  <2>1. CASE ledger'[x].snap = rows'[i]
    BY <1>3, <2>1
  <2>2. CASE HasEffect(x) /\ ledger'[x] = ledger[x]
    <3> DEFINE m == ledger[x].snap.rev
    <3>1. m \in Nat /\ rows[i] # None /\ m <= rows[i].rev
      BY <1>4, <2>2, RowsMove DEF RevsGrow, Rev
    <3>2. HasEffect(p) /\ ledger'[p] = ledger[p]
      <4>1. SUFFICES ASSUME ~ (HasEffect(p) /\ ledger'[p] = ledger[p])
                     PROVE  FALSE
        OBVIOUS
      <4>2. n = rows'[i].rev
        BY <1>1, <4>1, EffectMoves
      <4>3. rows[i].rev \in Nat /\ rows'[i].rev \in Nat /\ rows[i].rev <= rows'[i].rev
        BY <1>2, <3>1, RowsMove
      <4>4. n < m
        BY <1>4, <2>2
      <4> HIDE DEF n, m
      <4> QED
        BY <3>1, <4>2, <4>3, <4>4
    <3>3. ledger[x].snap.conflict[f] # None \/ SettledBetween(ledger, i, f, n, m)
      BY <1>4, <2>2, <3>2 DEF ConflictsLast, ConflictFields, HasEffect, Rev
    <3> HIDE DEF n, i, m
    <3>4. m <= m
      BY <3>1
    <3>5. SettledBetween(ledger, i, f, n, m) => SettledBetween(ledger', i, f, n, m)
      BY <1>2, <3>1, <3>4, SettledStays
    <3> QED
      BY <2>2, <3>3, <3>5 DEF m
  <2> QED
    BY <1>4, <2>1, <2>2, EffectMoves
<1> QED
  BY <1>3, <1>4

-----------------------------------------------------------------------------
(* Photos, stamps and homes after a step *)

\* What has happened stays so, and the gate closes only by a photo.
LEMMA PhotosMove ==
    ASSUME Inv, [Next]_vars
    PROVE  /\ past.photos \in Nat /\ past'.photos \in Nat
           /\ past.photos <= past'.photos
           /\ past.discarded \subseteq past'.discarded
           /\ NoOverlap' => NoOverlap
           /\ waiting' \subseteq waiting \/ past.photos < past'.photos
<1>1. past \in Past /\ past.photos \in Nat
  BY DEF Inv, TypeOK, Past
<1> DEFINE Adds == /\ past'.photos \in Nat /\ past.photos <= past'.photos
                   /\ past.discarded \subseteq past'.discarded
                   /\ NoOverlap' => NoOverlap
           Counts == \/ past' = past
                     \/ \E kind \in Kinds : Incident(kind)
                     \/ \E d \in Devices, i \in Inspections : DiscardOps(d, i)
                     \/ \E k \in Cycles : Begin(k)
<1>2. ASSUME Counts
      PROVE  Adds
  <2>1. CASE past' = past
    BY <1>1, <2>1 DEF NoOverlap
  <2>2. ASSUME NEW kind \in Kinds, Incident(kind)
        PROVE  Adds
    BY <1>1, <2>2, IncidentHappens DEF NoOverlap
  <2>3. ASSUME NEW d \in Devices, NEW i \in Inspections, DiscardOps(d, i)
        PROVE  Adds
    <3>1. IncidentWith("discard", BoxOf(d, i))
      BY <2>3 DEF DiscardOps
    <3>2. BoxOf(d, i) \in SUBSET OpIds
      BY DEF BoxOf, InBox
    <3> QED
      BY <1>1, <3>1, <3>2, IncidentAdds DEF NoOverlap
  <2>4. ASSUME NEW k \in Cycles, Begin(k)
        PROVE  Adds
    BY <1>1, <2>4, BeginAdds DEF NoOverlap
  <2> HIDE DEF Adds
  <2> QED
    BY <1>2, <2>1, <2>2, <2>3, <2>4
<1>3. ASSUME NEW i \in Inspections, OpenAttachment(i)
      PROVE  Counts /\ past.photos < past'.photos
  BY <1>1, <1>3, IncidentHappens DEF OpenAttachment, Kinds
<1>4. ASSUME NEW d \in Devices, User(d) \/ Reload(d) \/ \E id \in OpIds : EnqueueOp(d, id)
      PROVE  Counts /\ waiting' = waiting
  <2>1. ASSUME NEW i \in Inspections, DiscardOps(d, i)
        PROVE  Counts /\ waiting' = waiting
    BY <2>1 DEF DiscardOps, server
  <2> QED
    BY <1>4, <2>1 DEF User, Reload, EnqueueOp, Enqueue, StageOp, StageCreate,
       StageDelete, ResolveConflict, Logout, Login, server, Kinds
<1>5. ASSUME NEW k \in Cycles, Cycle(k) \/ NetworkFails(k) \/ RequestFails(k) \/ PullFails(k)
      PROVE  Counts /\ waiting' = waiting
  <2>1. Begin(k) => Counts /\ waiting' = waiting
    BY DEF Begin, server
  <2> QED
    BY <1>5, <2>1 DEF Cycle, NetworkFails, RequestFails, PullFails, SyncOps, AbsorbResult,
       UpdateOp, Sweep, ListRows, ListConflicts, ReadLocal, MergeSnapshot, server, Kinds
<1>6. ASSUME NEW h \in Handlers, Handle(h) \/ OpFails(h)
      PROVE  Counts /\ waiting' = waiting
  BY <1>6 DEF Handle, Serve, OpFails, Respond, HandlerEnds, Server!Apply, server, Kinds
<1>7. ASSUME NEW u \in Users, NEW id \in OpIds, RemoteApply(u, id)
      PROVE  Counts /\ waiting' = waiting
  BY <1>7 DEF RemoteApply, Server!Apply
<1>8. ASSUME NEW i \in Inspections, CompleteAttachments(i)
      PROVE  Counts /\ waiting' \subseteq waiting
  BY <1>8 DEF CompleteAttachments, Server!CompleteAttachments
<1>9. ASSUME UNCHANGED vars
      PROVE  Counts /\ waiting' = waiting
  BY <1>9 DEF vars
<1> HIDE DEF Counts
<1>10. Counts /\ (waiting' \subseteq waiting \/ past.photos < past'.photos)
  BY <1>3, <1>4, <1>5, <1>6, <1>7, <1>8, <1>9 DEF Next, Counts
<1>11. Adds
  BY <1>2, <1>10
<1> QED
  BY <1>1, <1>10, <1>11

LEMMA PhotosCountedStep ==
    ASSUME Inv, PhotosCounted, [Next]_vars
    PROVE  PhotosCounted'
BY PhotosMove DEF PhotosCounted

\* The outbox and the stamps: what is enqueued is new, and its device's.
LEMMA BoxMoves ==
    ASSUME Inv, AtHome, [Next]_vars
    PROVE  \/ UNCHANGED <<at, box>>
           \/ \E d \in Devices, id \in OpIds :
                 /\ Enqueue(d, id) /\ id \notin Minted /\ Home[id] = d
                 /\ UNCHANGED <<server, cycle, snap, request>>
           \/ /\ at' = at
              /\ \/ \E d \in Devices, i \in Inspections : DiscardOps(d, i)
                 \/ \E k \in Cycles : UpdateOp(k) \/ Sweep(k)
                 \/ \E k \in Cycles, i \in Inspections : MergeSnapshot(k, i)
<1> DEFINE Mints == \E d \in Devices, id \in OpIds :
                       /\ Enqueue(d, id) /\ id \notin Minted /\ Home[id] = d
                       /\ UNCHANGED <<server, cycle, snap, request>>
           Rest == UNCHANGED <<at, box>>
           Discards == at' = at /\ \E d \in Devices, i \in Inspections : DiscardOps(d, i)
           Absorbs_ == at' = at /\ \E k \in Cycles : UpdateOp(k) \/ Sweep(k)
           Prunes == at' = at /\ \E k \in Cycles, i \in Inspections : MergeSnapshot(k, i)
<1>1. ASSUME NEW d \in Devices, NEW id \in OpIds,
             StageCreate(d, id) \/ StageDelete(d, id) \/ ResolveConflict(d, id)
      PROVE  Mints
  BY <1>1 DEF StageCreate, StageDelete, ResolveConflict, NewOp, Used
<1>2. ASSUME NEW d \in Devices, NEW id \in OpIds, EnqueueOp(d, id)
      PROVE  Mints
  BY <1>2 DEF EnqueueOp, AtHome
<1>3. ASSUME NEW d \in Devices,
             \/ Logout(d) \/ Reload(d) \/ \E u \in Users : Login(d, u)
             \/ \E id \in OpIds : StageOp(d, id)
      PROVE  Rest
  BY <1>3 DEF Logout, Login, Reload, StageOp
<1>4. ASSUME NEW d \in Devices, NEW i \in Inspections, DiscardOps(d, i)
      PROVE  Discards
  <2>1. at' = at
    BY <1>4 DEF DiscardOps
  <2> QED
    BY <1>4, <2>1
<1>5. ASSUME NEW k \in Cycles,
             \/ Begin(k) \/ SyncOps(k) \/ AbsorbResult(k) \/ ListRows(k) \/ ListConflicts(k)
             \/ ReadLocal(k) \/ NetworkFails(k) \/ RequestFails(k) \/ PullFails(k)
      PROVE  Rest
  BY <1>5 DEF NetworkFails, RequestFails, PullFails, Begin, SyncOps, AbsorbResult,
     ListRows, ListConflicts, ReadLocal, device
<1>6. ASSUME NEW k \in Cycles, UpdateOp(k) \/ Sweep(k)
      PROVE  Absorbs_
  <2>1. at' = at
    BY <1>6 DEF UpdateOp, Sweep
  <2> QED
    BY <1>6, <2>1
<1>7. ASSUME NEW k \in Cycles, NEW i \in Inspections, MergeSnapshot(k, i)
      PROVE  Prunes
  <2>1. at' = at
    BY <1>7 DEF MergeSnapshot
  <2> QED
    BY <1>7, <2>1
<1>8. ASSUME NEW h \in Handlers, Handle(h) \/ OpFails(h)
      PROVE  Rest
  BY <1>8 DEF Handle, Serve, OpFails, Respond, HandlerEnds, Answered, device
<1>9. ASSUME \/ UNCHANGED vars
             \/ \E u \in Users, id \in OpIds : RemoteApply(u, id)
             \/ \E i \in Inspections : OpenAttachment(i) \/ CompleteAttachments(i)
      PROVE  Rest
  BY <1>9 DEF vars, RemoteApply, OpenAttachment, CompleteAttachments, device
<1> HIDE DEF Mints, Rest, Discards, Absorbs_, Prunes
<1>10. Rest \/ Mints \/ Discards \/ Absorbs_ \/ Prunes
  BY <1>1, <1>2, <1>3, <1>4, <1>5, <1>6, <1>7, <1>8, <1>9 DEF Next, User, Cycle
<1> QED
  BY <1>10 DEF Mints, Rest, Discards, Absorbs_, Prunes

\* The stamp of an op stays, and a new one is unlike all others.
LEMMA StampsStep ==
    ASSUME Inv, AtHome, StampsDistinct, [Next]_vars
    PROVE  /\ StampsDistinct'
           /\ \A id \in Minted : at'[id] = at[id]
<1>1. CASE at' = at
  <2>1. Minted' = Minted
    BY <1>1 DEF Minted
  <2> QED
    BY <1>1, <2>1 DEF StampsDistinct
<1>2. ASSUME NEW d \in Devices, NEW id \in OpIds, Enqueue(d, id), id \notin Minted
      PROVE  StampsDistinct' /\ \A j \in Minted : at'[j] = at[j]
  <2> DEFINE c == Cardinality(Minted)
             n == c + 1
  <2>1. at' = [at EXCEPT ![id] = n] \/ at' = [at EXCEPT ![id] = -n]
    BY <1>2 DEF Enqueue
  <2>2. Minted' = Minted \cup {id}
    BY <1>2, EnqueueMints
  <2>3. c \in Nat /\ Cardinality(Minted') = c + 1
    BY <1>2, <2>2, FS_AddElement, FS_CardinalityType DEF Inv
  <2>4. at \in [OpIds -> Int] /\ Minted \subseteq OpIds
    BY DEF Inv, TypeOK, Minted
  <2>5. \A j \in Minted : /\ at[j] <= c /\ -at[j] <= c
                          /\ \A l \in Minted : at[j] = at[l] => j = l
    BY DEF StampsDistinct
  <2>6. /\ at'[id] = n \/ at'[id] = -n
        /\ \A j \in Minted : at'[j] = at[j] /\ at[j] \in Int
    BY <1>2, <2>1, <2>4
  <2> DEFINE m == Cardinality(Minted')
  <2>7. m = n
    BY <2>3
  <2> HIDE DEF c, m
  <2>8. \A j \in Minted' : at'[j] <= m /\ -at'[j] <= m
    BY <2>2, <2>3, <2>5, <2>6, <2>7
  <2>9. \A j, l \in Minted' : at'[j] = at'[l] => j = l
    BY <2>2, <2>3, <2>5, <2>6
  <2> QED
    BY <2>6, <2>8, <2>9 DEF StampsDistinct, m
<1> QED
  BY <1>1, <1>2, BoxMoves

\* The first op of a set stays the first.
LEMMA FirstStays ==
    ASSUME Inv, AtHome, StampsDistinct, [Next]_vars,
           NEW ids, ids \subseteq Minted, ids # {}
    PROVE  First(ids)' = First(ids)
<1>1. ids \subseteq OpIds /\ IsFiniteSet(ids)
  BY FS_Subset DEF Inv, Minted
<1>2. First(ids) \in ids /\ \A j \in ids : at[First(ids)] <= at[j]
  BY <1>1, FirstInSet DEF Inv
<1>3. \A j \in ids : at'[j] = at[j] /\ at[j] \in Int
  BY <1>1, StampsStep DEF Inv, TypeOK
<1>4. \E x \in ids : \A j \in ids : at'[x] <= at'[j]
  BY <1>2, <1>3
<1>5. First(ids)' \in ids /\ \A j \in ids : at'[First(ids)'] <= at'[j]
  BY <1>4 DEF First
<1>6. at[First(ids)'] = at[First(ids)]
  BY <1>2, <1>3, <1>5
<1> QED
  BY <1>2, <1>5, <1>6 DEF StampsDistinct

\* The first op of what a cycle absorbs is not later than the others.
LEMMA FirstIsLeast ==
    ASSUME Inv, NEW k \in Cycles, pc[k] \in Absorbing
    PROVE  \A j \in todo[k] : at[First(todo[k])] <= at[j] /\ at[j] \in Int
<1>1. todo[k] \subseteq Minted /\ todo[k] # {}
  BY DEF Inv, CycleOK
<1>2. todo[k] \subseteq OpIds /\ IsFiniteSet(todo[k])
  BY <1>1, FS_Subset DEF Inv, Minted
<1> QED
  BY <1>1, <1>2, FirstInSet DEF Inv, TypeOK

\* What a step makes of an op's record.
BoxMove(d, id) ==
    \/ box'[d][id] = box[d][id]
    \/ box'[d][id] = Fresh /\ id \notin Minted /\ Home[id] = d
    \/ box'[d][id] = None /\ DiscardOps(d, OpOf[id].insp)
    \/ \E k \in Cycles :
          /\ On[k] = d
          /\ \/ /\ UpdateOp(k) /\ id = First(todo[k]) /\ id \in todo[k]
                /\ box'[d][id] = Patch(IF box[d][id] # None THEN box[d][id] ELSE Fresh,
                                       id, answer[k][id])
             \/ /\ Sweep(k)
                /\ id \in Released(d, First(todo[k]),
                              {f \in Editable :
                                   answer[k][First(todo[k])].snap.conflict[f] # None})
                /\ box'[d][id] = [box[d][id] EXCEPT !.state = "applied"]
             \/ /\ \E i \in Inspections : MergeSnapshot(k, i) /\ id \in Prunable(k, i)
                /\ box'[d][id] = None

LEMMA RecordMoves ==
    ASSUME Inv, AtHome, [Next]_vars, NEW d \in Devices, NEW id \in OpIds
    PROVE  /\ BoxMove(d, id)
           /\ id \in Minted' \ Minted /\ Home[id] = d => box'[d][id] = Fresh
<1> DEFINE Moves == BoxMove(d, id)
           Mints == id \in Minted' \ Minted /\ Home[id] = d => box'[d][id] = Fresh
<1>1. box \in [Devices -> [OpIds -> Recorded \cup {None}]] /\ On \in [Cycles -> Devices]
  BY DevicesAssumption DEF Inv, TypeOK
<1>2. at' = at => Mints
  BY DEF Minted
<1>3. CASE UNCHANGED <<at, box>>
  BY <1>2, <1>3 DEF BoxMove
<1>4. ASSUME NEW e \in Devices, NEW j \in OpIds, Enqueue(e, j), j \notin Minted, Home[j] = e
      PROVE  Moves /\ Mints
  <2>1. Minted' = Minted \cup {j} /\ box' = [box EXCEPT ![e][j] = Fresh]
    BY <1>4, EnqueueMints DEF Enqueue
  <2>2. box'[d][id] = IF d = e /\ id = j THEN Fresh ELSE box[d][id]
    BY <1>1, <2>1
  <2> QED
    BY <1>4, <2>1, <2>2 DEF BoxMove
<1>5. ASSUME NEW e \in Devices, NEW i \in Inspections, DiscardOps(e, i)
      PROVE  Moves
  <2>1. box' = [box EXCEPT ![e] = [j \in OpIds |-> IF OpOf[j].insp = i THEN None ELSE @[j]]]
    BY <1>5 DEF DiscardOps
  <2>2. box'[d][id] = IF d = e /\ OpOf[id].insp = i THEN None ELSE box[d][id]
    BY <1>1, <2>1
  <2> QED
    BY <1>5, <2>2 DEF BoxMove
<1>6. ASSUME NEW k \in Cycles, UpdateOp(k)
      PROVE  Moves
  <2> DEFINE e == On[k]
             j == First(todo[k])
             new == Patch(IF box[e][j] # None THEN box[e][j] ELSE Fresh, j, answer[k][j])
  <2>1. j \in todo[k] /\ j \in OpIds
    BY <1>6, Absorbs DEF UpdateOp, Absorbing
  <2>2. box' = [box EXCEPT ![e][j] = new]
    BY <1>6 DEF UpdateOp
  <2>3. new = Patch(IF box[e][j] # None THEN box[e][j] ELSE Fresh, j, answer[k][j])
    OBVIOUS
  <2> HIDE DEF new
  <2>4. box'[d][id] = IF d = e /\ id = j THEN new ELSE box[d][id]
    BY <1>1, <2>1, <2>2
  <2> QED
    BY <1>6, <2>1, <2>3, <2>4 DEF BoxMove
<1>7. ASSUME NEW k \in Cycles, Sweep(k)
      PROVE  Moves
  <2> DEFINE e == On[k]
             open == {f \in Editable : answer[k][First(todo[k])].snap.conflict[f] # None}
             R == Released(e, First(todo[k]), open)
  <2>1. box' = [box EXCEPT ![e] = [p \in OpIds |->
                   IF p \in R THEN [@[p] EXCEPT !.state = "applied"] ELSE @[p]]]
    BY <1>7 DEF Sweep
  <2>2. R = Released(e, First(todo[k]), open)
    OBVIOUS
  <2> HIDE DEF R
  <2>3. box'[d][id] = IF d = e /\ id \in R THEN [box[d][id] EXCEPT !.state = "applied"]
                                           ELSE box[d][id]
    BY <1>1, <2>1
  <2> QED
    BY <1>7, <2>2, <2>3 DEF BoxMove
<1>8. ASSUME NEW k \in Cycles, NEW i \in Inspections, MergeSnapshot(k, i)
      PROVE  Moves
  <2>1. box' = [box EXCEPT ![On[k]] = [j \in OpIds |->
                   IF j \in Prunable(k, i) THEN None ELSE @[j]]]
    BY <1>8 DEF MergeSnapshot
  <2>2. box'[d][id] = IF d = On[k] /\ id \in Prunable(k, i) THEN None ELSE box[d][id]
    BY <1>1, <2>1
  <2> QED
    BY <1>8, <2>2 DEF BoxMove
<1> HIDE DEF Moves, Mints
<1>9. Moves /\ Mints
  BY <1>2, <1>3, <1>4, <1>5, <1>6, <1>7, <1>8, BoxMoves DEF Moves, Mints
<1> QED
  BY <1>9 DEF Moves, Mints

LEMMA DecidedIsMintedStep ==
    ASSUME Inv, DecidedIsMinted, [Next]_vars
    PROVE  DecidedIsMinted'
<1> SUFFICES ASSUME NEW id \in OpIds, Home[id] # None, ledger'[id] # None
             PROVE  id \in Minted'
  BY DEF DecidedIsMinted
<1>1. CASE ledger[id] # None
  BY <1>1, MintedStep DEF DecidedIsMinted
<1>2. CASE ledger[id] = None
  <2>1. Takes(id)
    BY <1>2, ServerMoves DEF Takes
  <2>2. PICK h \in Handlers : request[h] # None /\ id \in request[h].left
    BY <2>1 DEF Takes
  <2>3. request[h].left \subseteq Minted
    BY <2>2 DEF Inv, RequestOK
  <2> QED
    BY <2>2, <2>3, MintedStep
<1> QED
  BY <1>1, <1>2

\* A cycle gets new work only when it sends what is due.
LEMMA TodoMoves ==
    ASSUME Inv, [Next]_vars, NEW k \in Cycles
    PROVE  todo'[k] \subseteq todo[k] \/ (SyncOps(k) /\ todo'[k] = Due(On[k]))
<1> DEFINE Less == todo'[k] \subseteq todo[k]
           Sends == SyncOps(k) /\ todo'[k] = Due(On[k])
<1>1. todo \in [Cycles -> SUBSET OpIds]
  BY DEF Inv, TypeOK
<1>2. ASSUME NEW d \in Devices, User(d) \/ Reload(d) \/ \E id \in OpIds : EnqueueOp(d, id)
      PROVE  Less
  BY <1>1, <1>2 DEF User, Reload, EnqueueOp, StageOp, StageCreate, StageDelete,
     ResolveConflict, DiscardOps, Logout, Login, cycle
<1>3. ASSUME NEW j \in Cycles, SyncOps(j)
      PROVE  Less \/ Sends
  BY <1>1, <1>3 DEF SyncOps
<1>4. ASSUME NEW j \in Cycles, AbsorbResult(j) \/ UpdateOp(j) \/ Sweep(j)
      PROVE  Less
  BY <1>1, <1>4 DEF AbsorbResult, UpdateOp, Sweep, NextResult, Done
<1>5. ASSUME NEW j \in Cycles,
             \/ Begin(j) \/ ListRows(j) \/ ListConflicts(j) \/ ReadLocal(j)
             \/ NetworkFails(j) \/ RequestFails(j) \/ PullFails(j)
             \/ \E i \in Inspections : MergeSnapshot(j, i)
      PROVE  Less
  BY <1>1, <1>5 DEF Begin, ListRows, ListConflicts, ReadLocal, NetworkFails, RequestFails,
     PullFails, MergeSnapshot
<1>6. ASSUME NEW h \in Handlers, Handle(h) \/ OpFails(h)
      PROVE  Less
  BY <1>6 DEF Handle, Serve, OpFails, Respond, HandlerEnds, Answered, cycle
<1>7. ASSUME \/ UNCHANGED vars
             \/ \E u \in Users, id \in OpIds : RemoteApply(u, id)
             \/ \E i \in Inspections : OpenAttachment(i) \/ CompleteAttachments(i)
      PROVE  Less
  BY <1>7 DEF vars, RemoteApply, OpenAttachment, CompleteAttachments, cycle
<1> HIDE DEF Less, Sends
<1>8. Less \/ Sends
  BY <1>2, <1>3, <1>4, <1>5, <1>6, <1>7 DEF Next, Cycle
<1> QED
  BY <1>8 DEF Less, Sends

\* An edit that is being staged is new, and its device's.
LEMMA WritingStep ==
    ASSUME Inv, AtHome, [Next]_vars
    PROVE  \A d \in Devices : \A id \in writing'[d] : Home[id] = d /\ id \notin Minted'
<1> DEFINE Good == \A d \in Devices : \A id \in writing'[d] : Home[id] = d /\ id \notin Minted'
<1>1. writing \in [Devices -> SUBSET OpIds] /\ at \in [OpIds -> Int]
  BY DEF Inv, TypeOK
<1>2. \A d \in Devices : \A id \in writing[d] : Home[id] = d /\ id \notin Minted
  BY DEF AtHome
<1>3. ASSUME at' = at, writing' = writing
      PROVE  Good
  BY <1>2, <1>3 DEF Minted
<1>4. ASSUME NEW d \in Devices, NEW id \in OpIds, EnqueueOp(d, id)
      PROVE  Good
  <2>1. /\ Minted' = Minted \cup {id} /\ id \in writing[d]
        /\ writing' = [writing EXCEPT ![d] = @ \ {id}]
    BY <1>4, EnqueueMints DEF EnqueueOp
  <2> QED
    BY <1>1, <1>2, <2>1
<1>5. ASSUME NEW d \in Devices, NEW id \in OpIds,
             StageCreate(d, id) \/ StageDelete(d, id) \/ ResolveConflict(d, id)
      PROVE  Good
  <2>1. Enqueue(d, id) /\ writing' = writing /\ id \notin Used
    BY <1>5 DEF StageCreate, StageDelete, ResolveConflict, NewOp
  <2>2. Minted' = Minted \cup {id}
    BY <2>1, EnqueueMints
  <2> QED
    BY <1>1, <1>2, <2>1, <2>2 DEF Used
<1>6. ASSUME NEW d \in Devices, NEW id \in OpIds, StageOp(d, id)
      PROVE  Good
  <2>1. /\ at' = at /\ id \notin Minted /\ Home[id] = d
        /\ writing' = [writing EXCEPT ![d] = @ \cup {id}]
    BY <1>6 DEF StageOp, NewOp, Used
  <2>2. Minted' = Minted
    BY <2>1 DEF Minted
  <2> QED
    BY <1>1, <1>2, <2>1, <2>2
<1>7. ASSUME NEW d \in Devices, Reload(d)
      PROVE  Good
  <2>1. at' = at /\ writing' = [writing EXCEPT ![d] = {}]
    BY <1>7 DEF Reload
  <2>2. Minted' = Minted
    BY <2>1 DEF Minted
  <2> QED
    BY <1>1, <1>2, <2>1, <2>2
<1>8. ASSUME NEW d \in Devices,
             \/ Logout(d) \/ \E u \in Users : Login(d, u)
             \/ \E i \in Inspections : DiscardOps(d, i)
      PROVE  at' = at /\ writing' = writing
  BY <1>8 DEF Logout, Login, DiscardOps
<1>9. ASSUME NEW k \in Cycles, Cycle(k) \/ NetworkFails(k) \/ RequestFails(k) \/ PullFails(k)
      PROVE  at' = at /\ writing' = writing
  BY <1>9 DEF Cycle, NetworkFails, RequestFails, PullFails, Begin, SyncOps, AbsorbResult,
     UpdateOp, Sweep, ListRows, ListConflicts, ReadLocal, MergeSnapshot, device
<1>10. ASSUME NEW h \in Handlers, Handle(h) \/ OpFails(h)
       PROVE  at' = at /\ writing' = writing
  BY <1>10 DEF Handle, Serve, OpFails, Respond, HandlerEnds, Answered, device
<1>11. ASSUME \/ UNCHANGED vars
              \/ \E u \in Users, id \in OpIds : RemoteApply(u, id)
              \/ \E i \in Inspections : OpenAttachment(i) \/ CompleteAttachments(i)
       PROVE  at' = at /\ writing' = writing
  BY <1>11 DEF vars, RemoteApply, OpenAttachment, CompleteAttachments, device
<1> HIDE DEF Good
<1>12. Good
  BY <1>3, <1>4, <1>5, <1>6, <1>7, <1>8, <1>9, <1>10, <1>11 DEF Next, User
<1> QED
  BY <1>12 DEF Good

LEMMA AtHomeStep ==
    ASSUME Inv, AtHome, [Next]_vars
    PROVE  AtHome'
<1>1. \A d \in Devices : \A id \in InBox(d)' : Home[id] = d
  <2> SUFFICES ASSUME NEW d \in Devices, NEW id \in OpIds, box'[d][id] # None
               PROVE  Home[id] = d
    BY DEF InBox
  <2>1. CASE box[d][id] # None
    BY <2>1 DEF AtHome, InBox
  <2>2. CASE box[d][id] = None
    <3>1. \/ Home[id] = d
          \/ \E k \in Cycles : On[k] = d /\ id \in todo[k]
      BY <2>2, RecordMoves DEF BoxMove, Released, BoxOf, InBox
    <3> QED
      BY <3>1 DEF AtHome
  <2> QED
    BY <2>1, <2>2
<1>2. \A k \in Cycles : \A id \in todo'[k] : Home[id] = On[k]
  <2> SUFFICES ASSUME NEW k \in Cycles, NEW id \in todo'[k]
               PROVE  Home[id] = On[k]
    OBVIOUS
  <2>1. id \in todo[k] \/ id \in InBox(On[k])
    BY TodoMoves DEF Due
  <2>2. On[k] \in Devices
    BY DevicesAssumption
  <2> QED
    BY <2>1, <2>2 DEF AtHome
<1>3. \A d \in Devices : \A id \in writing'[d] : Home[id] = d /\ id \notin Minted'
  BY WritingStep
<1> QED
  BY <1>1, <1>2, <1>3 DEF AtHome

-----------------------------------------------------------------------------
(* What is absorbed, and what is not yet, after a step *)

\* What the user gives up counts as given up.
LEMMA DiscardedOps ==
    ASSUME Inv, NEW d \in Devices, NEW i, DiscardOps(d, i)
    PROVE  BoxOf(d, i) \subseteq past'.discarded
<1>1. IncidentWith("discard", BoxOf(d, i)) /\ past \in Past
  BY DEF DiscardOps, Inv, TypeOK
<1>2. BoxOf(d, i) \in SUBSET OpIds
  BY DEF BoxOf, InBox
<1> QED
  BY <1>1, <1>2, IncidentAdds

\* What is absorbed has been decided, but for deletions that were overtaken.
LEMMA AbsorbedIsDecided ==
    ASSUME Inv, GoneIsDecided, NEW d \in Devices, NEW x \in OpIds, Absorbed(d, x)
    PROVE  ledger[x] # None \/ OpOf[x].type = "delete"
<1>1. CASE box[d][x] = None
  <2>1. x \notin past.discarded /\ x \in Minted /\ Home[x] = d /\ d # None
    BY <1>1, DevicesAssumption DEF Absorbed
  <2> QED
    BY <1>1, <2>1 DEF GoneIsDecided
<1>2. CASE box[d][x] # None
  BY <1>2 DEF Absorbed, Inv, OutboxTrue, RecordTrue
<1> QED
  BY <1>1, <1>2

\* An op with an effect was absorbed before, or is now as the next one.
LEMMA AbsorbedStep ==
    ASSUME Inv, AtHome, GoneIsDecided, EntriesTrue', \A k \in Cycles : CopyStays(k), [Next]_vars,
           NEW d \in Devices, NEW x \in OpIds, Absorbed(d, x)', HasEffect(x)'
    PROVE  \/ Absorbed(d, x) /\ HasEffect(x) /\ ledger'[x] = ledger[x]
           \/ \E k \in Cycles :
                 /\ On[k] = d /\ UpdateOp(k)
                 /\ x = First(todo[k]) /\ x \in todo[k]
                 /\ After(answer[k][x].status) \in {"applied", "conflict"}
<1>1. /\ x \in Minted' /\ Home[x] = d /\ OpOf[x].type # "delete"
      /\ IF box'[d][x] = None THEN x \notin past'.discarded
                              ELSE box'[d][x].state \in {"applied", "conflict"}
  BY DEF Absorbed, EntriesTrue, HasEffect
<1>2. Fresh.state = "queued" /\ Fresh # None
  <2>1. Fresh \in Recorded
    BY DEF Fresh, Recorded, States
  <2> QED
    BY <2>1, RecordsAssumption DEF Fresh
<1>3. /\ box'[d][x] # Fresh /\ x \in Minted
      /\ x \notin past'.discarded => x \notin past.discarded
  BY <1>1, <1>2, RecordMoves, PhotosMove
<1>4. SUFFICES ASSUME ~ \E k \in Cycles :
                           /\ On[k] = d /\ UpdateOp(k)
                           /\ x = First(todo[k]) /\ x \in todo[k]
                           /\ After(answer[k][x].status) \in {"applied", "conflict"}
               PROVE  Absorbed(d, x)
  <2>1. ASSUME Absorbed(d, x)
        PROVE  HasEffect(x) /\ ledger'[x] = ledger[x]
    <3>1. ledger[x] # None
      BY <1>1, <2>1, AbsorbedIsDecided
    <3> QED
      BY <3>1, RowsMove DEF HasEffect
  <2> QED
    BY <2>1
<1>5. CASE box'[d][x] = box[d][x]
  BY <1>1, <1>3, <1>5 DEF Absorbed
<1>6. CASE box'[d][x] = None /\ DiscardOps(d, OpOf[x].insp)
  <2>1. box[d][x] = None
    BY <1>1, <1>6, DiscardedOps DEF BoxOf, InBox
  <2> QED
    BY <1>5, <1>6, <2>1
<1>7. ASSUME NEW k \in Cycles, On[k] = d, UpdateOp(k), x = First(todo[k]), x \in todo[k],
             box'[d][x] = Patch(IF box[d][x] # None THEN box[d][x] ELSE Fresh, x, answer[k][x])
      PROVE  FALSE
  <2>1. box'[d][x].state = After(answer[k][x].status)
    BY <1>7 DEF Patch
  <2>2. box'[d][x] # None
    <3>1. /\ x \in OpIds /\ answer[k][x] \in Result /\ AnswerTrue(answer[k][x], ledger[x])
      BY <1>7, Absorbs DEF UpdateOp, Absorbing
    <3> DEFINE rec == IF box[d][x] # None THEN box[d][x] ELSE Fresh
    <3>2. rec \in Recorded
      <4>1. box[d][x] \in Recorded \cup {None}
        BY DEF Inv, TypeOK
      <4> QED
        BY <4>1 DEF Fresh, Recorded, States
    <3>3. box'[d][x] = Patch(rec, x, answer[k][x])
      BY <1>7
    <3> HIDE DEF rec
    <3> QED
      BY <3>1, <3>2, <3>3, PatchTrue, RecordsAssumption
  <2> QED
    BY <1>1, <1>4, <1>7, <2>1, <2>2
<1>8. ASSUME NEW k \in Cycles, On[k] = d, NEW id, NEW open, x \in Released(d, id, open)
      PROVE  Absorbed(d, x)
  BY <1>1, <1>3, <1>8 DEF Released, BoxOf, InBox, Absorbed
<1>9. ASSUME NEW k \in Cycles, On[k] = d, NEW i \in Inspections,
             MergeSnapshot(k, i), x \in Prunable(k, i), box'[d][x] = None
      PROVE  Absorbed(d, x)
  <2>1. copy[k][x] = "applied"
    BY <1>1, <1>9 DEF Prunable
  <2>2. box[d][x] = None \/ box[d][x].state = "applied"
    BY <1>9, <2>1 DEF CopyStays
  <2> QED
    BY <1>1, <1>3, <1>9, <2>2 DEF Absorbed
<1>10. BoxMove(d, x) /\ box'[d][x] # Fresh
  BY <1>3, RecordMoves
<1>11. CASE \E k \in Cycles :
               /\ On[k] = d
               /\ \/ /\ UpdateOp(k) /\ x = First(todo[k]) /\ x \in todo[k]
                     /\ box'[d][x] = Patch(IF box[d][x] # None THEN box[d][x] ELSE Fresh,
                                           x, answer[k][x])
                  \/ \E id, open : x \in Released(d, id, open)
                  \/ /\ \E i \in Inspections : MergeSnapshot(k, i) /\ x \in Prunable(k, i)
                     /\ box'[d][x] = None
  BY <1>7, <1>8, <1>9, <1>11
<1> QED
  BY <1>5, <1>6, <1>10, <1>11 DEF BoxMove

\* What is to be absorbed was so before, or is new.
LEMMA PendingStep ==
    ASSUME Inv, AtHome, [Next]_vars,
           NEW d \in Devices, NEW a \in OpIds, a \in Minted, Pending(d, a)'
    PROVE  Pending(d, a)
<1>1. CASE \E k \in Cycles : On[k] = d /\ a \in todo'[k]
  BY <1>1, TodoMoves DEF Pending
<1>2. CASE a \in Due(d)'
  <2>1. /\ box'[d][a] # None
        /\ \/ box'[d][a].state = "queued"
           \/ box'[d][a].state = "failed" /\ box'[d][a].retry
    BY <1>2 DEF Due, InBox
  <2>2. CASE box'[d][a] = box[d][a]
    BY <2>1, <2>2 DEF Pending, Due, InBox
  <2>3. ASSUME NEW id, NEW open, a \in Released(d, id, open),
               box'[d][a] = [box[d][a] EXCEPT !.state = "applied"]
        PROVE  FALSE
    <3>1. box[d][a] \in Recorded
      BY <2>3 DEF Inv, TypeOK, Released, BoxOf, InBox
    <3>2. box'[d][a].state = "applied"
      BY <2>3, <3>1 DEF Recorded
    <3> QED
      BY <2>1, <3>2
  <2> QED
    BY <2>1, <2>2, <2>3, RecordMoves DEF BoxMove, Pending
<1> QED
  BY <1>1, <1>2 DEF Pending

LEMMA GoneIsDecidedStep ==
    ASSUME Inv, Ordered, [Next]_vars
    PROVE  GoneIsDecided'
<1> SUFFICES ASSUME NEW id \in OpIds, id \in Minted', Home[id] # None,
                    box'[Home[id]][id] = None, id \notin past'.discarded
             PROVE  ledger'[id] # None \/ OpOf[id].type = "delete"
  BY DEF GoneIsDecided, Minted
<1> DEFINE d == Home[id]
<1>1. d \in Devices
  BY DevicesAssumption
<1>2. AtHome /\ GoneIsDecided
  BY DEF Ordered
<1>3. id \in Minted
  <2>1. Fresh # None
    <3>1. Fresh \in Recorded
      BY DEF Fresh, Recorded, States
    <3> QED
      BY <3>1, RecordsAssumption
  <2> QED
    BY <1>1, <1>2, <2>1, RecordMoves
<1>4. CASE box[d][id] = None
  <2>1. ledger[id] # None \/ OpOf[id].type = "delete"
    BY <1>2, <1>3, <1>4, PhotosMove DEF GoneIsDecided
  <2> QED
    BY <2>1, RowsMove
<1>5. CASE box[d][id] # None
  <2>1. MayLeave(d, id)
    <3>1. ~ (box'[d][id] # None)
      OBVIOUS
    <3> HIDE DEF d
    <3> QED
      BY <1>1, <1>5, <3>1, BoxStep
  <2>2. ~ DiscardOps(d, OpOf[id].insp)
    <3> HIDE DEF d
    <3> QED
      BY <1>1, <1>5, DiscardedOps DEF BoxOf, InBox
  <2> QED
    BY <2>1, <2>2, RowsMove DEF MayLeave
<1> QED
  BY <1>4, <1>5

LEMMA ParkedFieldsStep ==
    ASSUME Inv, Ordered, [Next]_vars
    PROVE  ParkedFields'
<1> SUFFICES ASSUME NEW d \in Devices, NEW id \in OpIds, box'[d][id] # None,
                    box'[d][id].state = "conflict"
             PROVE  box'[d][id].fields = ConflictFields(id, ledger'[id])
  BY DEF ParkedFields, InBox, ConflictFields
<1>1. AtHome /\ ParkedFields /\ \A k \in Cycles : Exact(k)
  BY DEF Ordered, InHand
<1>2. CASE box'[d][id] = box[d][id]
  <2>1. box[d][id].fields = ConflictFields(id, ledger[id])
    BY <1>1, <1>2 DEF ParkedFields, InBox
  <2>2. ledger'[id] = ledger[id]
    <3>1. ledger[id] # None
      BY <1>2 DEF Inv, OutboxTrue, RecordTrue
    <3> QED
      BY <3>1, RowsMove
  <2> QED
    BY <1>2, <2>1, <2>2
<1>3. CASE box'[d][id] = Fresh
  BY <1>3 DEF Fresh
<1>4. ASSUME NEW k \in Cycles, On[k] = d, UpdateOp(k), id = First(todo[k]),
             box'[d][id] = Patch(IF box[d][id] # None THEN box[d][id] ELSE Fresh, id, answer[k][id])
      PROVE  box'[d][id].fields = ConflictFields(id, ledger'[id])
  <2> DEFINE r == answer[k][id]
  <2>1. box'[d][id].state = After(r.status) /\ box'[d][id].fields = ConflictFields(id, r)
    BY <1>4 DEF Patch
  <2>2. r # None
    <3>1. r \in Result
      BY <1>4, Absorbs DEF UpdateOp, Absorbing
    <3> QED
      BY <3>1, RecordsAssumption
  <2>3. ledger[id] # None /\ r.snap = ledger[id].snap
    BY <1>1, <2>1, <2>2 DEF Exact, AnswerExact
  <2>4. ledger'[id] = ledger[id]
    BY <2>3, RowsMove
  <2> HIDE DEF r
  <2> QED
    BY <2>1, <2>3, <2>4 DEF ConflictFields
<1>5. ASSUME NEW s, NEW open, id \in Released(d, s, open),
             box'[d][id] = [box[d][id] EXCEPT !.state = "applied"]
      PROVE  FALSE
  <2>1. box[d][id] \in Recorded
    BY <1>5 DEF Inv, TypeOK, Released, BoxOf, InBox
  <2>2. box'[d][id].state = "applied"
    BY <1>5, <2>1 DEF Recorded
  <2> QED
    BY <2>2
<1>6. BoxMove(d, id)
  BY <1>1, RecordMoves
<1> QED
  BY <1>2, <1>3, <1>4, <1>5, <1>6 DEF BoxMove

LEMMA LateIsLaterStep ==
    ASSUME OneWorks, Inv, Ordered, EntriesTrue', [Next]_vars
    PROVE  LateIsLater'
<1> SUFFICES ASSUME NEW d \in Devices, NEW a \in OpIds, NEW x \in OpIds,
                    Pending(d, a)', Absorbed(d, x)', Straight(a)',
                    OpOf[a].insp = OpOf[x].insp, at'[a] < at'[x],
                    HasEffect(a)', HasEffect(x)'
             PROVE  /\ Rev(x)' <= Rev(a)'
                    /\ Wrote(a)' => Rev(x)' < Rev(a)'
  BY DEF LateIsLater
<1> DEFINE i == OpOf[a].insp
<1>1. /\ RevsGrow /\ WrittenByLedgered /\ AtHome /\ StampsDistinct /\ DecidedIsMinted
      /\ GoneIsDecided /\ LateIsLater
      /\ \A k \in Cycles : CopyStays(k) /\ LateIsUnsent(k) /\ WholeOrNot(k)
  BY DEF Ordered, InHand
<1>2. i \in Inspections
  BY PayloadType
<1>3. a \in Minted /\ Pending(d, a)
  <2>1. a \in Minted
    <3>1. CASE ledger[a] # None
      <4>1. Home[a] = d
        <5>1. AtHome'
          BY <1>1, AtHomeStep
        <5>2. a \in InBox(d)' \/ \E k \in Cycles : On[k] = d /\ a \in todo'[k]
          BY DEF Pending, Due
        <5> QED
          BY <5>1, <5>2 DEF AtHome
      <4>2. d # None
        BY DevicesAssumption
      <4> QED
        BY <1>1, <3>1, <4>1, <4>2 DEF DecidedIsMinted
    <3>2. CASE ledger[a] = None
      <4>1. Takes(a)
        <5>1. ledger'[a] # ledger[a]
          BY <3>2 DEF HasEffect
        <5> QED
          BY <5>1, ServerMoves DEF Takes
      <4>2. Home[a] # None
        <5>1. AtHome'
          BY <1>1, AtHomeStep
        <5>2. a \in InBox(d)' \/ \E k \in Cycles : On[k] = d /\ a \in todo'[k]
          BY DEF Pending, Due
        <5> QED
          BY <5>1, <5>2, DevicesAssumption DEF AtHome
      <4>3. PICK h \in Handlers : request[h] # None /\ a \in request[h].left
        BY <4>1, <4>2 DEF Takes
      <4> QED
        BY <4>3 DEF Inv, RequestOK
    <3> QED
      BY <3>1, <3>2
  <2> QED
    BY <1>1, <2>1, PendingStep
<1>4. Straight(a)
  BY PhotosMove DEF Straight, NothingPutOff
<1>5. CASE Absorbed(d, x) /\ HasEffect(x) /\ ledger'[x] = ledger[x]
  <2>1. Rev(x)' = Rev(x) /\ Rev(x) \in Nat
    BY <1>5, RowsMove DEF Rev
  <2>2. at[a] < at[x]
    BY <1>1, <1>3, <1>5, StampsStep DEF Absorbed
  <2>3. CASE HasEffect(a) /\ ledger'[a] = ledger[a]
    <3>1. Rev(x) <= Rev(a) /\ (Wrote(a) => Rev(x) < Rev(a))
      BY <1>1, <1>3, <1>4, <1>5, <2>2, <2>3 DEF LateIsLater
    <3>2. Rev(a)' = Rev(a) /\ (Wrote(a)' <=> Wrote(a))
      BY <2>3 DEF Rev, Wrote
    <3> QED
      BY <2>1, <3>1, <3>2
  <2>4. CASE /\ ledger'[a].snap = rows'[i]
             /\ rows[i] # None =>
                   /\ rows[i].rev <= rows'[i].rev
                   /\ Wrote(a)' => rows[i].rev < rows'[i].rev
    <3>1. rows[i] # None /\ Rev(x) <= rows[i].rev
      BY <1>1, <1>5 DEF RevsGrow
    <3>2. rows[i].rev \in Nat /\ rows'[i].rev \in Nat
      BY <1>2, <3>1, RowsMove
    <3>3. Rev(a)' = rows'[i].rev
      BY <2>4 DEF Rev
    <3> HIDE DEF i
    <3>4. rows[i].rev <= rows'[i].rev /\ (Wrote(a)' => rows[i].rev < rows'[i].rev)
      BY <2>4, <3>1
    <3> QED
      BY <2>1, <3>1, <3>2, <3>3, <3>4
  <2> QED
    BY <1>1, <2>3, <2>4, EffectMoves
<1>6. ASSUME NEW k \in Cycles, On[k] = d, UpdateOp(k), x = First(todo[k]), x \in todo[k],
             After(answer[k][x].status) \in {"applied", "conflict"}
      PROVE  FALSE
  <2>1. pc[k] \in Absorbing /\ at' = at /\ ledger' = ledger
    BY <1>6 DEF UpdateOp, Absorbing, server
  <2>2. a \notin todo[k]
    <3>1. \A j \in todo[k] : at[x] <= at[j] /\ at[j] \in Int
      BY <1>6, <2>1, FirstIsLeast
    <3>2. at[a] < at[x]
      BY <2>1
    <3> QED
      BY <1>6, <3>1, <3>2
  <2>3. a \in Due(d)
    <3>1. ASSUME NEW j \in Cycles, On[j] = d, a \in todo[j]
          PROVE  j = k
      <4>1. pc[j] \in Absorbing \cup {"wait"}
        BY <1>1, <3>1 DEF WholeOrNot
      <4> QED
        BY <1>6, <2>1, <3>1, <4>1 DEF OneWorks, Absorbing
    <3> QED
      BY <1>3, <2>2, <3>1 DEF Pending
  <2>4. \A id \in todo[k] : answer[k][id].status \in Whole
    <3>1. ledger[a] # None
      BY <2>1 DEF HasEffect
    <3> QED
      BY <1>1, <1>4, <1>6, <2>1, <2>2, <2>3, <3>1 DEF LateIsUnsent
  <2> QED
    BY <1>6, <2>4 DEF After, Whole
<1> QED
  BY <1>1, <1>5, <1>6, AbsorbedStep

\* A page gets the rows of the server when it is listed, and keeps their
\* revisions.
LEMMA PageMoves ==
    ASSUME Inv, [Next]_vars, NEW k \in Cycles, NEW i \in Inspections, page'[k][i] # None
    PROVE  \/ page[k][i] # None /\ page'[k][i].rev = page[k][i].rev
           \/ ListRows(k) /\ rows[i] # None /\ page'[k][i] = rows[i]
<1> DEFINE Kept == page[k][i] # None /\ page'[k][i].rev = page[k][i].rev
           Listed == ListRows(k) /\ rows[i] # None /\ page'[k][i] = rows[i]
<1>1. page \in [Cycles -> [Inspections -> Row \cup {None}]]
  BY DEF Inv, TypeOK
<1>2. ASSUME page'[k] = page[k]
      PROVE  Kept
  BY <1>2
<1>3. ASSUME NEW j \in Cycles, ListRows(j)
      PROVE  Kept \/ Listed
  <2> DEFINE own == OwnRows(session[On[j]])
  <2>1. page' = page \/ page' = [page EXCEPT ![j] = own]
    BY <1>3 DEF ListRows
  <2>2. own[i] = rows[i] \/ own[i] = None
    BY DEF OwnRows
  <2> HIDE DEF own
  <2> QED
    BY <1>1, <1>3, <2>1, <2>2
<1>4. ASSUME NEW j \in Cycles, ListConflicts(j)
      PROVE  Kept
  <2> DEFINE new == [page[k][i] EXCEPT !.conflict = rows[i].conflict]
  <2>1. page' = [page EXCEPT ![j] = [n \in Inspections |->
                    IF @[n] = None THEN None ELSE [@[n] EXCEPT !.conflict = rows[n].conflict]]]
    BY <1>4 DEF ListConflicts
  <2>2. page'[k][i] = page[k][i] \/ (page[k][i] # None /\ page'[k][i] = new)
    BY <1>1, <2>1
  <2>3. page[k][i] # None => new.rev = page[k][i].rev
    BY <1>1 DEF Row
  <2> HIDE DEF new
  <2> QED
    BY <2>2, <2>3
<1>5. ASSUME NEW j \in Cycles, PullFails(j)
      PROVE  Kept
  BY <1>1, <1>5 DEF PullFails, Nothing
<1>6. ASSUME NEW j \in Cycles, NEW n \in Inspections, MergeSnapshot(j, n)
      PROVE  Kept
  BY <1>1, <1>6 DEF MergeSnapshot
<1>7. ASSUME NEW d \in Devices, Reload(d)
      PROVE  Kept
  BY <1>1, <1>7 DEF Reload, Nothing
<1> HIDE DEF Kept, Listed
<1>8. Kept \/ Listed
  BY <1>2, <1>3, <1>4, <1>5, <1>6, <1>7, PageFrame
<1> QED
  BY <1>8 DEF Kept, Listed

\* A snapshot changes by a result or by pull.
LEMMA SnapMoves ==
    ASSUME Inv, [Next]_vars, NEW d \in Devices, NEW i \in Inspections
    PROVE  \/ snap'[d][i] = snap[d][i]
           \/ \E k \in Cycles :
                 /\ On[k] = d
                 /\ \/ /\ AbsorbResult(k) /\ OpOf[First(todo[k])].insp = i
                       /\ answer[k][First(todo[k])].snap # None
                       /\ snap'[d][i] = answer[k][First(todo[k])].snap
                    \/ MergeSnapshot(k, i) /\ snap'[d][i] = page[k][i]
<1> DEFINE Absorbs_ == \E k \in Cycles :
                /\ On[k] = d
                /\ AbsorbResult(k) /\ OpOf[First(todo[k])].insp = i
                /\ answer[k][First(todo[k])].snap # None
                /\ snap'[d][i] = answer[k][First(todo[k])].snap
           Merges == \E k \in Cycles :
                On[k] = d /\ MergeSnapshot(k, i) /\ snap'[d][i] = page[k][i]
           Same == snap'[d][i] = snap[d][i]
<1>1. snap \in [Devices -> [Inspections -> Row \cup {None}]] /\ On \in [Cycles -> Devices]
  BY DevicesAssumption DEF Inv, TypeOK
<1>2. ASSUME NEW k \in Cycles, AbsorbResult(k)
      PROVE  Same \/ Absorbs_
  <2> DEFINE id == First(todo[k])
             r  == answer[k][id]
  <2>1. id \in OpIds
    BY <1>2, Absorbs DEF AbsorbResult, Absorbing
  <2>2. OpOf[id].insp \in Inspections
    BY <2>1, PayloadType
  <2>3. /\ r.snap = None => snap' = snap
        /\ r.snap # None => snap' = [snap EXCEPT ![On[k]][OpOf[id].insp] = r.snap]
    BY <1>2 DEF AbsorbResult
  <2>4. r = answer[k][First(todo[k])] /\ id = First(todo[k])
    OBVIOUS
  <2> HIDE DEF id, r
  <2>5. snap'[d][i] # snap[d][i] =>
            On[k] = d /\ OpOf[id].insp = i /\ r.snap # None /\ snap'[d][i] = r.snap
    BY <1>1, <2>2, <2>3
  <2> QED
    BY <1>2, <2>4, <2>5
<1>3. ASSUME NEW k \in Cycles, NEW n \in Inspections, MergeSnapshot(k, n)
      PROVE  Same \/ Merges
  <2>1. snap' = [snap EXCEPT ![On[k]][n] = page[k][n]]
    BY <1>3 DEF MergeSnapshot, Merged
  <2>2. snap'[d][i] # snap[d][i] => On[k] = d /\ n = i /\ snap'[d][i] = page[k][i]
    BY <1>1, <2>1
  <2> QED
    BY <1>3, <2>2
<1>4. ASSUME NEW e \in Devices, User(e) \/ Reload(e) \/ \E id \in OpIds : EnqueueOp(e, id)
      PROVE  Same
  BY <1>4 DEF User, Reload, EnqueueOp, StageOp, StageCreate, StageDelete, ResolveConflict,
     DiscardOps, Logout, Login
<1>5. ASSUME NEW k \in Cycles,
             \/ Begin(k) \/ SyncOps(k) \/ UpdateOp(k) \/ Sweep(k) \/ ListRows(k)
             \/ ListConflicts(k) \/ ReadLocal(k) \/ NetworkFails(k) \/ RequestFails(k)
             \/ PullFails(k)
      PROVE  Same
  BY <1>5 DEF Begin, SyncOps, UpdateOp, Sweep, ListRows, ListConflicts, ReadLocal,
     NetworkFails, RequestFails, PullFails, device
<1>6. ASSUME NEW h \in Handlers, Handle(h) \/ OpFails(h)
      PROVE  Same
  BY <1>6 DEF Handle, Serve, OpFails, Respond, HandlerEnds, Answered, device
<1>7. ASSUME \/ UNCHANGED vars
             \/ \E u \in Users, id \in OpIds : RemoteApply(u, id)
             \/ \E n \in Inspections : OpenAttachment(n) \/ CompleteAttachments(n)
      PROVE  Same
  BY <1>7 DEF vars, RemoteApply, OpenAttachment, CompleteAttachments, device
<1> HIDE DEF Absorbs_, Merges, Same
<1>8. Same \/ Absorbs_ \/ Merges
  BY <1>2, <1>3, <1>4, <1>5, <1>6, <1>7 DEF Next, Cycle
<1> QED
  BY <1>8 DEF Absorbs_, Merges, Same

LEMMA PageIsNewStep ==
    ASSUME OneWorks, Inv, Ordered, EntriesTrue', [Next]_vars
    PROVE  PageIsNew'
<1> SUFFICES ASSUME NEW k \in Cycles, NEW x \in OpIds,
                    page'[k][OpOf[x].insp] # None,
                    Absorbed(On[k], x)', HasEffect(x)'
             PROVE  Rev(x)' <= page'[k][OpOf[x].insp].rev
  BY DEF PageIsNew, Absorbed, HasEffect, Minted
<1> DEFINE i == OpOf[x].insp
           d == On[k]
<1>1. /\ RevsGrow /\ AtHome /\ GoneIsDecided /\ PageIsNew
      /\ \A j \in Cycles : CopyStays(j) /\ PageInHand(j)
  BY DEF Ordered, InHand
<1>2. i \in Inspections /\ d \in Devices
  BY PayloadType, DevicesAssumption
<1>3. CASE Absorbed(d, x) /\ HasEffect(x) /\ ledger'[x] = ledger[x]
  <2>1. Rev(x)' = Rev(x)
    BY <1>3 DEF Rev
  <2>2. CASE page[k][i] # None /\ page'[k][i].rev = page[k][i].rev
    BY <1>1, <1>3, <2>1, <2>2 DEF PageIsNew
  <2>3. CASE rows[i] # None /\ page'[k][i] = rows[i]
    BY <1>1, <1>3, <2>1, <2>3 DEF RevsGrow
  <2> QED
    BY <1>2, <2>2, <2>3, PageMoves
<1>4. ASSUME NEW j \in Cycles, On[j] = d, UpdateOp(j)
      PROVE  FALSE
  <2>1. pc[j] = "save" /\ page' = page
    BY <1>4 DEF UpdateOp
  <2>2. page[k] # Nothing(Inspections)
    BY <1>2, <2>1 DEF Nothing
  <2>3. pc[k] \in {"conflicts", "read", "merge"}
    BY <1>1, <2>2 DEF PageInHand
  <2> QED
    BY <1>4, <2>1, <2>3 DEF OneWorks
<1> HIDE DEF d
<1> QED
  BY <1>1, <1>2, <1>3, <1>4, AbsorbedStep DEF d

\* A step takes back neither premise.
LEMMA PremisesStay ==
    ASSUME Inv, AtHome, StampsDistinct, [Next]_vars, NothingPutOff', EffectsInOrder'
    PROVE  NothingPutOff /\ EffectsInOrder
<1>1. NothingPutOff
  BY PhotosMove DEF NothingPutOff
<1>2. EffectsInOrder
  <2> SUFFICES ASSUME NEW a \in Minted, NEW b \in Minted, HasEffect(a), HasEffect(b),
                      Home[a] = Home[b], OpOf[a].insp = OpOf[b].insp, at[a] < at[b]
               PROVE  /\ ledger[a].snap.rev <= ledger[b].snap.rev
                      /\ Wrote(b) => ledger[a].snap.rev < ledger[b].snap.rev
    BY DEF EffectsInOrder
  <2>1. a \in OpIds /\ b \in OpIds /\ a \in Minted' /\ b \in Minted'
    BY MintedStep DEF Minted
  <2>2. ledger'[a] = ledger[a] /\ ledger'[b] = ledger[b]
    BY <2>1, RowsMove DEF HasEffect
  <2>3. at'[a] < at'[b]
    BY StampsStep
  <2> QED
    BY <2>1, <2>2, <2>3 DEF EffectsInOrder, HasEffect, Wrote
<1> QED
  BY <1>1, <1>2

\* What a result makes of the snapshot is as new as what was absorbed.
LEMMA ResultIsNew ==
    ASSUME Inv, Ordered, NothingPutOff, EffectsInOrder, NEW k \in Cycles, pc[k] \in Absorbing,
           NEW x \in OpIds, Absorbed(On[k], x), HasEffect(x),
           OpOf[First(todo[k])].insp = OpOf[x].insp,
           answer[k][First(todo[k])].snap # None
    PROVE  /\ HasEffect(First(todo[k]))
           /\ answer[k][First(todo[k])].snap = ledger[First(todo[k])].snap
           /\ Rev(x) <= Rev(First(todo[k]))
<1> DEFINE a == First(todo[k])
           d == On[k]
<1>1. /\ AtHome /\ StampsDistinct /\ Exact(k) /\ LateIsLater
      /\ d \in Devices /\ at \in [OpIds -> Int]
  BY DevicesAssumption DEF Ordered, InHand, Inv, TypeOK
<1>2. a \in todo[k] /\ a \in Minted /\ a \in OpIds /\ answer[k][a] \in Result
  BY Absorbs
<1>3. answer[k][a] # None
  BY <1>2, RecordsAssumption
<1>4. answer[k][a].snap = ledger[a].snap /\ HasEffect(a)
  BY <1>1, <1>2, <1>3 DEF Exact, AnswerExact, HasEffect
<1>5. Home[a] = d /\ Home[x] = d /\ x \in Minted
  BY <1>1, <1>2 DEF AtHome, Absorbed
<1>6. Pending(d, a) /\ Straight(a)
  BY <1>2 DEF Pending, Straight
<1> HIDE DEF a, d
<1>7. CASE at[a] < at[x]
  BY <1>1, <1>2, <1>4, <1>6, <1>7 DEF LateIsLater, a, d
<1>8. CASE at[x] < at[a]
  BY <1>2, <1>4, <1>5, <1>8 DEF EffectsInOrder, Rev, a
<1>9. CASE at[x] = at[a]
  <2>1. x = a
    BY <1>1, <1>2, <1>5, <1>9 DEF StampsDistinct
  <2>2. Rev(x) \in Nat
    <3>1. ledger[x] \in Entries
      BY SameRules DEF Inv, TypeOK, Server!TypeOK, HasEffect
    <3> QED
      BY <3>1 DEF Entries, Row, Rev, HasEffect
  <2> QED
    BY <1>4, <2>1, <2>2 DEF a
<1>10. at[a] \in Int /\ at[x] \in Int
  BY <1>1, <1>2
<1> QED
  BY <1>4, <1>7, <1>8, <1>9, <1>10 DEF a

LEMMA AbsorbedIsShownStep ==
    ASSUME Inv, Ordered, EntriesTrue', [Next]_vars
    PROVE  AbsorbedIsShown'
<1> SUFFICES ASSUME NothingPutOff', EffectsInOrder', NEW d \in Devices, NEW x \in OpIds,
                    Absorbed(d, x)', HasEffect(x)'
             PROVE  /\ snap'[d][OpOf[x].insp] # None
                    /\ Rev(x)' <= snap'[d][OpOf[x].insp].rev
  BY DEF AbsorbedIsShown
<1> DEFINE i == OpOf[x].insp
<1>1. /\ AtHome /\ StampsDistinct /\ GoneIsDecided /\ PageIsNew /\ AbsorbedIsShown
      /\ \A k \in Cycles : Exact(k) /\ CopyStays(k) /\ SnapshotKept(k)
  BY DEF Ordered, InHand
<1>2. NothingPutOff /\ EffectsInOrder
  BY <1>1, PremisesStay
<1>3. i \in Inspections /\ None \notin Row
  BY PayloadType, NoneAssumption
<1>4. CASE Absorbed(d, x) /\ HasEffect(x) /\ ledger'[x] = ledger[x]
  <2>1. Rev(x)' = Rev(x)
    BY <1>4 DEF Rev
  <2>2. snap[d][i] # None /\ Rev(x) <= snap[d][i].rev
    BY <1>1, <1>2, <1>4 DEF AbsorbedIsShown
  <2>3. ASSUME NEW k \in Cycles, On[k] = d, AbsorbResult(k), OpOf[First(todo[k])].insp = i,
               answer[k][First(todo[k])].snap # None,
               snap'[d][i] = answer[k][First(todo[k])].snap
        PROVE  snap'[d][i] # None /\ Rev(x) <= snap'[d][i].rev
    <3>1. pc[k] \in Absorbing
      BY <2>3 DEF AbsorbResult, Absorbing
    <3> QED
      BY <1>2, <1>4, <2>3, <3>1, ResultIsNew DEF Rev
  <2>4. ASSUME NEW k \in Cycles, On[k] = d, MergeSnapshot(k, i), snap'[d][i] = page[k][i]
        PROVE  snap'[d][i] # None /\ Rev(x) <= snap'[d][i].rev
    BY <1>1, <1>4, <2>4 DEF PageIsNew, MergeSnapshot
  <2> HIDE DEF i
  <2>5. snap'[d][i] # None /\ Rev(x) <= snap'[d][i].rev
    BY <1>3, <2>2, <2>3, <2>4, SnapMoves
  <2> QED
    BY <2>1, <2>5 DEF i
<1>5. ASSUME NEW k \in Cycles, On[k] = d, UpdateOp(k), x = First(todo[k]), x \in todo[k],
             After(answer[k][x].status) \in {"applied", "conflict"}
      PROVE  snap'[d][i] # None /\ Rev(x)' <= snap'[d][i].rev
  <2>1. pc[k] = "save" /\ snap' = snap /\ ledger' = ledger
    BY <1>5 DEF UpdateOp, server
  <2>2. answer[k][x] # None
    BY <2>1, Absorbs, <1>5, RecordsAssumption DEF Absorbing
  <2>3. answer[k][x].snap = ledger[x].snap /\ HasEffect(x)
    BY <1>1, <1>5, <2>1, <2>2 DEF Exact, AnswerExact, HasEffect
  <2>4. snap[d][i] = ledger[x].snap
    BY <1>1, <1>5, <2>1, <2>3 DEF SnapshotKept, HasEffect
  <2>5. Rev(x) \in Nat
    BY <2>3, RowsMove
  <2> QED
    BY <2>1, <2>3, <2>4, <2>5 DEF HasEffect, Rev
<1> QED
  BY <1>1, <1>4, <1>5, AbsorbedStep

-----------------------------------------------------------------------------
(* What a parked op waits for *)

\* A parked op changes only as the user gives it up, or as it is swept after
\* a choice that took effect later than the conflict.
LEMMA ChoiceStep ==
    ASSUME Inv, NoOverlap => Ordered, [Next]_vars
    PROVE  LeavesBySettlement
<1> SUFFICES ASSUME Ordered, EffectsInOrder, NEW d \in Devices, NEW p \in OpIds,
                    box[d][p] # None, box[d][p].state = "conflict",
                    box'[d][p] # box[d][p], ~ DiscardOps(d, OpOf[p].insp),
                    NEW f \in box[d][p].fields
             PROVE  \E r \in OpIds :
                       /\ OpOf[r].type = "resolve_conflict"
                       /\ OpOf[r].insp = OpOf[p].insp /\ OpOf[r].field = f
                       /\ ledger[r] # None /\ ledger[r].status = "applied"
                       /\ ledger[r].snap.rev > ledger[p].snap.rev
  BY DEF LeavesBySettlement, InBox
<1>1. /\ EntriesTrue /\ ConflictsLast /\ StampsDistinct /\ AtHome
      /\ LateIsLater /\ ParkedFields
      /\ \A k \in Cycles : Exact(k) /\ TodoIsDue(k) /\ SweepSettles(k) /\ CopyStays(k)
  BY DEF Ordered, InHand
<1>2. p \in Minted /\ ledger[p] # None /\ ledger[p].status = "conflict"
  BY DEF Inv, OutboxTrue, RecordTrue
<1>3. OpOf[p].type = "upsert" /\ HasEffect(p) /\ Home[p] = d
  BY <1>1, <1>2 DEF EntriesTrue, HasEffect, AtHome, InBox
<1>4. box[d][p].fields = ConflictFields(p, ledger[p])
  BY <1>1 DEF ParkedFields, InBox
<1>5. BoxMove(d, p)
  BY <1>1, RecordMoves
<1>6. ASSUME NEW k \in Cycles, On[k] = d, UpdateOp(k), p = First(todo[k]), p \in todo[k]
      PROVE  FALSE
  <2>1. pc[k] = "save"
    BY <1>6 DEF UpdateOp
  <2> QED
    BY <1>1, <1>6, <2>1 DEF TodoIsDue, Due
<1>7. ASSUME NEW k \in Cycles, On[k] = d, NEW i \in Inspections, p \in Prunable(k, i)
      PROVE  FALSE
  BY <1>1, <1>3, <1>7 DEF Prunable, CopyStays
<1>8. PICK k \in Cycles :
          /\ On[k] = d /\ Sweep(k)
          /\ p \in Released(d, First(todo[k]),
                      {g \in Editable : answer[k][First(todo[k])].snap.conflict[g] # None})
  BY <1>2, <1>5, <1>6, <1>7 DEF BoxMove
<1> DEFINE r == First(todo[k])
           i == OpOf[p].insp
<1>9. pc[k] \in Absorbing /\ pc[k] = "sweep"
  BY <1>8 DEF Sweep, Absorbing
<1>10. /\ r \in todo[k] /\ r \in Minted /\ r \in OpIds
       /\ answer[k][r] # None /\ AnswerTrue(answer[k][r], ledger[r])
  BY <1>9, Absorbs, RecordsAssumption
<1>11. OpOf[r].type = "resolve_conflict" /\ answer[k][r].status \in {"applied", "duplicate"}
  BY <1>1, <1>9 DEF SweepSettles, Settles
<1>12. /\ ledger[r] # None /\ answer[k][r].snap = ledger[r].snap
       /\ MarkDuplicate(ledger[r].status) = "duplicate"
  BY <1>1, <1>10, <1>11 DEF Exact, AnswerExact, AnswerTrue, After
<1>13. ledger[r].status = "applied"
  <2>1. ledger[r].status \in {"applied", "deleted", "conflict"}
    <3>1. ledger[r].status \in LedgeredStatus
      BY <1>10, <1>12, SameRules DEF Inv, TypeOK, Server!TypeOK, Entries
    <3> QED
      BY <1>12, <3>1 DEF MarkDuplicate, LedgeredStatus
  <2> QED
    BY <1>1, <1>10, <1>11, <1>12, <2>1 DEF EntriesTrue
<1>14. HasEffect(r) /\ Wrote(r)
  BY <1>1, <1>10, <1>11, <1>12, <1>13 DEF EntriesTrue, HasEffect, Wrote
<1>15. OpOf[r].insp = i /\ Home[r] = d
  BY <1>1, <1>8, <1>10 DEF Released, BoxOf, AtHome
<1>16. Rev(p) < Rev(r)
  <2>1. Absorbed(d, p) /\ Pending(d, r) /\ Straight(r)
    BY <1>2, <1>3, <1>8, <1>10, <1>11 DEF Absorbed, Pending, Straight
  <2>2. at[r] \in Int /\ at[p] \in Int
    BY <1>10 DEF Inv, TypeOK
  <2>3. at[r] # at[p]
    BY <1>1, <1>2, <1>3, <1>10, <1>11 DEF StampsDistinct
  <2> HIDE DEF r
  <2>4. CASE at[r] < at[p]
    BY <1>1, <1>3, <1>10, <1>14, <1>15, <2>1, <2>4 DEF LateIsLater
  <2>5. CASE at[p] < at[r]
    BY <1>2, <1>3, <1>10, <1>14, <1>15, <2>5 DEF EffectsInOrder, Rev
  <2> QED
    BY <2>2, <2>3, <2>4, <2>5
<1>17. f \in Editable /\ ledger[r].snap.conflict[f] = None
  <2>1. box[d][p].fields \cap {g \in Editable : ledger[r].snap.conflict[g] # None} = {}
    BY <1>8, <1>12 DEF Released
  <2>2. f \in Editable
    BY <1>4 DEF ConflictFields
  <2> QED
    BY <2>1, <2>2
<1>18. SettledBetween(ledger, i, f, Rev(p), Rev(r))
  <2> HIDE DEF r
  <2> QED
    BY <1>1, <1>2, <1>4, <1>10, <1>14, <1>15, <1>16, <1>17 DEF ConflictsLast
<1>19. PICK s \in OpIds : /\ OpOf[s].type = "resolve_conflict"
                          /\ OpOf[s].insp = i /\ OpOf[s].field = f
                          /\ ledger[s] # None /\ ledger[s].status = "applied"
                          /\ Rev(p) < ledger[s].snap.rev
  BY <1>18 DEF SettledBetween
<1>20. Rev(p) \in Nat /\ ledger[s].snap.rev \in Nat
  <2>1. HasEffect(s)
    BY <1>1, <1>19 DEF EntriesTrue, HasEffect
  <2> QED
    BY <1>3, <2>1, RowsMove DEF Rev
<1> QED
  BY <1>19, <1>20 DEF Rev

-----------------------------------------------------------------------------
(* What a cycle that is not disturbed goes on to know *)

\* An answer stays exact.
LEMMA ExactStays ==
    ASSUME Inv, [Next]_vars, NEW id \in OpIds, NEW r, AnswerExact(id, r)
    PROVE  AnswerExact(id, r)'
BY RowsMove, PhotosMove DEF AnswerExact

\* An op that nobody works on is not decided.
LEMMA UnsentStays ==
    ASSUME Inv, [Next]_vars, NEW a \in OpIds, Home[a] # None, ledger[a] = None,
           \A h \in Handlers : request[h] # None => a \notin request[h].left
    PROVE  ledger'[a] = None
BY ServerMoves DEF Takes

LEMMA NextStays ==
    ASSUME Inv, AtHome, StampsDistinct, [Next]_vars, NEW k \in Cycles,
           todo'[k] = todo[k], todo[k] # {}
    PROVE  First(todo[k])' = First(todo[k])
<1>1. PICK ids : ids = todo[k]
  OBVIOUS
<1>2. ids \subseteq Minted /\ ids # {}
  BY <1>1 DEF Inv, CycleOK
<1>3. First(ids)' = First(ids)
  BY <1>2, FirstStays
<1> QED
  BY <1>1, <1>3 DEF First

\* A cycle goes on to where it was, whatever else happens: its device may
\* give ops up or get new ones, and its request is worked on.
Stays(k) ==
    /\ pc'[k] = pc[k] /\ todo'[k] = todo[k] /\ answer'[k] = answer[k]
    /\ page'[k] = page[k] /\ copy'[k] = copy[k]
    /\ snap'[On[k]] = snap[On[k]]
    /\ \A id \in OpIds : \/ box'[On[k]][id] \in {box[On[k]][id], None}
                         \/ box'[On[k]][id] = Fresh /\ id \notin Minted
    /\ \A h \in Handlers, id \in OpIds :
          /\ Home[id] = On[k]
          /\ request'[h] # None /\ id \in request'[h].left
          => request[h] # None /\ id \in request[h].left

LEMMA StaysExact ==
    ASSUME Inv, Ordered, [Next]_vars, NEW k \in Cycles, answer'[k] = answer[k], todo'[k] = todo[k]
    PROVE  Exact(k)'
<1> SUFFICES ASSUME NEW id \in OpIds, answer'[k][id] # None
             PROVE  id \in todo'[k] /\ AnswerExact(id, answer[k][id])'
  BY DEF Exact
<1>1. PICK r : r = answer[k][id]
  OBVIOUS
<1>2. id \in todo[k] /\ AnswerExact(id, r)
  BY <1>1 DEF Ordered, InHand, Exact
<1>3. AnswerExact(id, r)'
  BY <1>2, ExactStays
<1> QED
  BY <1>1, <1>2, <1>3 DEF AnswerExact

\* Nothing that is late gets sent while a cycle absorbs.
LEMMA StaysUnsent ==
    ASSUME Inv, Ordered, [Next]_vars, NEW k \in Cycles, Stays(k)
    PROVE  LateIsUnsent(k)'
<1> DEFINE d == On[k]
<1> SUFFICES ASSUME pc'[k] \in Absorbing \cup {"wait"},
                    NEW a \in OpIds, a \in Due(d)', a \notin todo'[k], Straight(a)'
             PROVE  \/ /\ ledger'[a] = None
                       /\ \A h \in Handlers : request'[h] # None => a \notin request'[h].left
                    \/ /\ pc'[k] \in Absorbing
                       /\ \A id \in todo'[k] : answer'[k][id].status \in Whole
  BY DEF LateIsUnsent, Due, InBox, Absorbing, Whole
<1>1. d \in Devices /\ d # None
  BY DevicesAssumption
<1>2. /\ AtHome /\ DecidedIsMinted /\ LateIsUnsent(k)
  BY DEF Ordered, InHand
<1>3. Home[a] = d
  <2>1. AtHome'
    BY <1>2, AtHomeStep
  <2> QED
    BY <1>1, <2>1 DEF AtHome, Due
<1>4. ASSUME ledger[a] = None, \A h \in Handlers : request[h] # None => a \notin request[h].left
      PROVE  /\ ledger'[a] = None
             /\ \A h \in Handlers : request'[h] # None => a \notin request'[h].left
  <2>1. ledger'[a] = None
    BY <1>1, <1>3, <1>4, UnsentStays
  <2> QED
    BY <1>3, <1>4, <2>1 DEF Stays
<1>5. CASE a \in Minted
  <2>1. a \in Due(d)
    BY <1>5 DEF Stays, Due, InBox
  <2>2. Straight(a)
    BY PhotosMove DEF Straight, NothingPutOff
  <2>3. \/ ledger[a] = None /\ \A h \in Handlers : request[h] # None => a \notin request[h].left
        \/ pc[k] \in Absorbing /\ \A id \in todo[k] : answer[k][id].status \in Whole
    BY <1>2, <2>1, <2>2 DEF LateIsUnsent, Stays
  <2> QED
    BY <1>4, <2>3 DEF Stays
<1>6. CASE a \notin Minted
  <2>1. ledger[a] = None
    BY <1>1, <1>2, <1>3, <1>6 DEF DecidedIsMinted
  <2>2. \A h \in Handlers : request[h] # None => a \notin request[h].left
    BY <1>6 DEF Inv, RequestOK
  <2> QED
    BY <1>4, <2>1, <2>2
<1> QED
  BY <1>5, <1>6

LEMMA StaysInHand ==
    ASSUME Inv, Ordered, [Next]_vars, NEW k \in Cycles, Stays(k)
    PROVE  InHand(k)'
<1> DEFINE d == On[k]
<1>1. /\ AtHome /\ StampsDistinct /\ DecidedIsMinted /\ InHand(k)
      /\ d \in Devices /\ d # None /\ CycleOK(k)
  BY DevicesAssumption DEF Ordered, Inv
<1>2. todo[k] # {} => First(todo[k])' = First(todo[k])
  BY <1>1, NextStays DEF Stays
<1>3. Exact(k)'
  BY StaysExact DEF Stays
<1>4. WholeOrNot(k)'
  BY <1>1 DEF InHand, WholeOrNot, Stays, Absorbing, Whole
<1>5. TodoIsDue(k)'
  <2> SUFFICES ASSUME NEW id \in todo'[k]
               PROVE  IF pc'[k] = "sweep" /\ id = First(todo[k])'
                      THEN box'[d][id] = None \/ box'[d][id].state = "applied"
                      ELSE box'[d][id] = None \/ id \in Due(d)'
    BY DEF TodoIsDue
  <2>1. id \in todo[k] /\ id \in Minted /\ id \in OpIds
    BY <1>1 DEF CycleOK, Stays, Minted
  <2>2. First(todo[k])' = First(todo[k])
    BY <1>2, <2>1
  <2>3. box'[d][id] = None \/ box'[d][id] = box[d][id]
    BY <2>1 DEF Stays
  <2>4. IF pc[k] = "sweep" /\ id = First(todo[k])
        THEN box[d][id] = None \/ box[d][id].state = "applied"
        ELSE box[d][id] = None \/ id \in Due(d)
    BY <1>1, <2>1 DEF InHand, TodoIsDue
  <2> QED
    BY <2>1, <2>2, <2>3, <2>4 DEF Stays, Due, InBox
<1>6. LateIsUnsent(k)'
  BY StaysUnsent
<1>7. SnapshotKept(k)'
  <2>1. CASE pc[k] \in {"save", "sweep"}
    <3>1. todo[k] # {}
      BY <1>1, <2>1 DEF CycleOK, Absorbing
    <3> QED
      BY <1>1, <1>2, <2>1, <3>1 DEF InHand, SnapshotKept, Stays
  <2>2. CASE pc[k] \notin {"save", "sweep"}
    BY <2>2 DEF SnapshotKept, Stays
  <2> QED
    BY <2>1, <2>2
<1>8. SweepSettles(k)'
  <2>1. CASE pc[k] = "sweep"
    <3>1. todo[k] # {}
      BY <1>1, <2>1 DEF CycleOK, Absorbing
    <3> QED
      BY <1>1, <1>2, <2>1, <3>1 DEF InHand, SweepSettles, Settles, Stays
  <2>2. CASE pc[k] # "sweep"
    BY <2>2 DEF SweepSettles, Stays
  <2> QED
    BY <2>1, <2>2
<1>9. CopyStays(k)'
  <2> SUFFICES ASSUME NEW id \in OpIds, copy'[k][id] = "applied"
               PROVE  box'[d][id] = None \/ box'[d][id].state = "applied"
    BY DEF CopyStays
  <2>1. copy[k][id] = "applied"
    BY DEF Stays
  <2>2. box[d][id] = None \/ box[d][id].state = "applied"
    BY <1>1, <2>1 DEF InHand, CopyStays
  <2>3. CASE box'[d][id] \in {box[d][id], None}
    BY <2>2, <2>3
  <2>4. CASE box'[d][id] = Fresh /\ id \notin Minted
    <3>1. Fresh # None
      <4>1. Fresh \in Recorded
        BY DEF Fresh, Recorded, States
      <4> QED
        BY <4>1, RecordsAssumption
    <3>2. Home[id] = d
      <4>1. AtHome'
        BY <1>1, AtHomeStep
      <4> QED
        BY <1>1, <2>4, <3>1, <4>1 DEF AtHome, InBox
    <3>3. ledger[id] # None
      BY <2>1 DEF Inv, CopyTrue
    <3> QED
      BY <1>1, <2>4, <3>2, <3>3 DEF DecidedIsMinted
  <2> QED
    BY <2>3, <2>4 DEF Stays
<1>10. PageInHand(k)'
  <2>1. Nothing(Inspections)' = Nothing(Inspections) /\ Nothing(OpIds)' = Nothing(OpIds)
    BY DEF Nothing
  <2> QED
    BY <1>1, <2>1 DEF InHand, PageInHand, Stays
<1> QED
  BY <1>3, <1>4, <1>5, <1>6, <1>7, <1>8, <1>9, <1>10 DEF InHand

\* A request goes on with less, or it is sent.
LEMMA RequestMoves ==
    ASSUME Inv, [Next]_vars, NEW h \in Handlers, request'[h] # None
    PROVE  \/ /\ request[h] # None /\ request'[h].left \subseteq request[h].left
              /\ request'[h].by \in {None, request[h].by}
           \/ \E k \in Cycles : /\ SyncOps(k) /\ request'[h].by = k
                                /\ request'[h].left = Due(On[k]) /\ todo'[k] = Due(On[k])
<1> DEFINE Less == /\ request[h] # None /\ request'[h].left \subseteq request[h].left
                   /\ request'[h].by \in {None, request[h].by}
           Sent == \E k \in Cycles : /\ SyncOps(k) /\ request'[h].by = k
                                     /\ request'[h].left = Due(On[k]) /\ todo'[k] = Due(On[k])
<1>1. request \in [Handlers -> Request \cup {None}] /\ todo \in [Cycles -> SUBSET OpIds]
  BY DEF Inv, TypeOK
<1>2. ASSUME request'[h] = request[h]
      PROVE  Less
  BY <1>2
<1>3. ASSUME NEW ks, request' = Left(ks)
      PROVE  Less
  <2>1. request'[h] = IF request[h] # None /\ request[h].by \in ks
                      THEN [request[h] EXCEPT !.by = None] ELSE request[h]
    BY <1>3 DEF Left
  <2>2. CASE request[h] \in Request
    BY <2>1, <2>2 DEF Request
  <2>3. CASE request[h] = None
    BY <2>1, <2>3
  <2> QED
    BY <1>1, <2>2, <2>3
<1>4. ASSUME NEW k \in Cycles, SyncOps(k)
      PROVE  Less \/ Sent
  <2> DEFINE h0  == CHOOSE g \in Free : TRUE
             req == [by |-> k, user |-> session[On[k]], left |-> Due(On[k])]
  <2>1. \/ request' = request
        \/ /\ Free # {} /\ request' = [request EXCEPT ![h0] = req]
           /\ todo' = [todo EXCEPT ![k] = Due(On[k])]
    BY <1>4 DEF SyncOps
  <2>2. req.by = k /\ req.left = Due(On[k])
    OBVIOUS
  <2> HIDE DEF req, h0
  <2>3. request'[h] = request[h] \/ (request'[h] = req /\ todo'[k] = Due(On[k]))
    BY <1>1, <2>1
  <2> QED
    BY <1>2, <1>4, <2>2, <2>3
<1>5. ASSUME NEW g \in Handlers, Serve(g) \/ OpFails(g)
      PROVE  Less
  <2>1. request[g] \in Request /\ request[g] # None
    BY <1>1, <1>5 DEF Serve, OpFails
  <2>2. \E id : request' = [request EXCEPT ![g].left = @ \ {id}]
    BY <1>5, Served
  <2> QED
    BY <1>1, <2>1, <2>2 DEF Request
<1>6. ASSUME NEW g \in Handlers, Respond(g) \/ HandlerEnds(g)
      PROVE  Less
  <2>1. request' = [request EXCEPT ![g] = None]
    BY <1>6 DEF Respond, HandlerEnds
  <2> QED
    BY <1>1, <2>1
<1>7. ASSUME NEW d \in Devices, User(d) \/ Reload(d) \/ \E id \in OpIds : EnqueueOp(d, id)
      PROVE  request' = request \/ \E ks : request' = Left(ks)
  BY <1>7 DEF User, Reload, EnqueueOp, StageOp, StageCreate, StageDelete, ResolveConflict,
     DiscardOps, Logout, Login
<1>8. ASSUME NEW k \in Cycles,
             \/ Begin(k) \/ AbsorbResult(k) \/ UpdateOp(k) \/ Sweep(k)
             \/ ListRows(k) \/ ListConflicts(k) \/ ReadLocal(k) \/ PullFails(k)
             \/ \E i \in Inspections : MergeSnapshot(k, i)
      PROVE  request' = request
  BY <1>8, CycleMoves
<1>9. ASSUME NEW k \in Cycles, NetworkFails(k) \/ RequestFails(k)
      PROVE  request' = Left({k})
  BY <1>9 DEF NetworkFails, RequestFails
<1>10. ASSUME \/ UNCHANGED vars
              \/ \E u \in Users, id \in OpIds : RemoteApply(u, id)
              \/ \E i \in Inspections : OpenAttachment(i) \/ CompleteAttachments(i)
       PROVE  request' = request
  BY <1>10 DEF vars, RemoteApply, OpenAttachment, CompleteAttachments
<1> HIDE DEF Less, Sent
<1>11. Less \/ Sent
  BY <1>2, <1>3, <1>4, <1>5, <1>6, <1>7, <1>8, <1>9, <1>10 DEF Next, Cycle, Handle
<1> QED
  BY <1>11 DEF Less, Sent

\* A cycle that makes no step of its own is not disturbed: it is the only one
\* of its device at work, or has nothing in hand.
Still(k) ==
    /\ pc'[k] = pc[k] /\ todo'[k] = todo[k] /\ answer'[k] = answer[k]
    /\ page'[k] = page[k] /\ copy'[k] = copy[k]

LEMMA StillStays ==
    ASSUME OneWorks, Inv, Ordered, [Next]_vars, NEW k \in Cycles, pc[k] # "idle", Still(k)
    PROVE  Stays(k)
<1> DEFINE d == On[k]
<1>1. /\ AtHome /\ d \in Devices
      /\ \A j \in Cycles : On[j] = d /\ pc[j] # "idle" => j = k
      /\ todo \in [Cycles -> SUBSET OpIds] /\ pc \in [Cycles -> Places]
      /\ page \in [Cycles -> [Inspections -> Row \cup {None}]]
  BY DevicesAssumption DEF Ordered, OneWorks, Inv, TypeOK
<1>2. ASSUME NEW j \in Cycles, On[j] = d,
             \/ AbsorbResult(j) \/ UpdateOp(j) \/ Sweep(j) \/ SyncOps(j)
             \/ \E i \in Inspections : MergeSnapshot(j, i)
      PROVE  j = k
  <2>1. pc[j] # "idle"
    BY <1>2 DEF AbsorbResult, UpdateOp, Sweep, SyncOps, MergeSnapshot
  <2> QED
    BY <1>1, <1>2, <2>1
<1>3. ~ AbsorbResult(k) /\ ~ UpdateOp(k) /\ ~ Sweep(k)
  <2> SUFFICES ASSUME AbsorbResult(k) \/ UpdateOp(k) \/ Sweep(k)
               PROVE  FALSE
    OBVIOUS
  <2>1. First(todo[k]) \in todo[k] /\ pc[k] \in Absorbing
    BY AbsorbMoves, Absorbs
  <2>2. ~ Done(k, First(todo[k]))
    BY <1>1, <2>1 DEF Done, Still
  <2> QED
    BY <1>1, <2>2 DEF AbsorbResult, UpdateOp, Sweep, NextResult, Still
<1>4. \A i \in Inspections : ~ MergeSnapshot(k, i)
  <2> SUFFICES ASSUME NEW i \in Inspections, MergeSnapshot(k, i)
               PROVE  FALSE
    OBVIOUS
  <2>1. page[k][i] # None /\ page' = [page EXCEPT ![k] = [page[k] EXCEPT ![i] = None]]
    BY DEF MergeSnapshot
  <2>2. page'[k][i] = None
    BY <1>1, <2>1
  <2> QED
    BY <2>1, <2>2 DEF Still
<1>5. ~ SyncOps(k)
  BY <1>1 DEF SyncOps, Still
<1>6. snap'[d] = snap[d]
  <2>1. \A i \in Inspections : snap'[d][i] = snap[d][i]
    BY <1>1, <1>3, <1>4, <1>2, SnapMoves
  <2>2. /\ snap \in [Devices -> [Inspections -> Row \cup {None}]]
        /\ snap' \in [Devices -> [Inspections -> Row \cup {None}]]
    BY NextInv DEF Inv, TypeOK
  <2> QED
    BY <1>1, <2>1, <2>2
<1>7. ASSUME NEW id \in OpIds
      PROVE  \/ box'[d][id] \in {box[d][id], None}
             \/ box'[d][id] = Fresh /\ id \notin Minted
  <2>1. BoxMove(d, id)
    BY <1>1, RecordMoves
  <2> QED
    BY <1>1, <1>3, <1>4, <1>2, <2>1 DEF BoxMove
<1>8. ASSUME NEW h \in Handlers, NEW id \in OpIds, Home[id] = d,
             request'[h] # None, id \in request'[h].left
      PROVE  request[h] # None /\ id \in request[h].left
  <2>1. ASSUME NEW j \in Cycles, SyncOps(j), id \in Due(On[j])
        PROVE  FALSE
    <3>1. Home[id] = On[j]
      BY <1>1, <2>1, DevicesAssumption DEF Due, AtHome
    <3> QED
      BY <1>1, <1>5, <1>8, <1>2, <2>1, <3>1
  <2> QED
    BY <1>8, <2>1, RequestMoves
<1> QED
  BY <1>6, <1>7, <1>8 DEF Stays, Still

-----------------------------------------------------------------------------
(* What a cycle knows after a step of its own *)

\* A cycle makes a step of its own, it is ended, or its request goes on;
\* otherwise it does not change.
LEMMA CycleCases ==
    ASSUME Inv, [Next]_vars, NEW k \in Cycles
    PROVE  \/ Still(k)
           \/ Begin(k) \/ SyncOps(k) \/ ListRows(k) \/ ListConflicts(k) \/ ReadLocal(k)
           \/ \E i \in Inspections : MergeSnapshot(k, i)
           \/ AbsorbResult(k) \/ UpdateOp(k) \/ Sweep(k)
           \/ NetworkFails(k) \/ RequestFails(k) \/ PullFails(k)
           \/ Reload(On[k])
           \/ \E h \in Handlers : /\ request[h] # None /\ request[h].by = k
                                  /\ Serve(h) \/ OpFails(h) \/ Respond(h)
<1> DEFINE Own == \/ Begin(k) \/ SyncOps(k) \/ ListRows(k) \/ ListConflicts(k) \/ ReadLocal(k)
                  \/ \E i \in Inspections : MergeSnapshot(k, i)
                  \/ AbsorbResult(k) \/ UpdateOp(k) \/ Sweep(k)
                  \/ NetworkFails(k) \/ RequestFails(k) \/ PullFails(k)
           Waits == \E h \in Handlers : /\ request[h] # None /\ request[h].by = k
                                        /\ Serve(h) \/ OpFails(h) \/ Respond(h)
           Ends  == Reload(On[k])
           Same  == Still(k)
<1>1. /\ pc \in [Cycles -> Places] /\ todo \in [Cycles -> SUBSET OpIds]
      /\ answer \in [Cycles -> [OpIds -> Result \cup {None}]]
      /\ page \in [Cycles -> [Inspections -> Row \cup {None}]]
      /\ copy \in [Cycles -> [OpIds -> States \cup {None}]]
  BY DEF Inv, TypeOK
<1>2. ASSUME NEW j \in Cycles, j # k,
             \/ Begin(j) \/ SyncOps(j) \/ ListRows(j) \/ ListConflicts(j) \/ ReadLocal(j)
             \/ NetworkFails(j) \/ RequestFails(j) \/ PullFails(j)
      PROVE  Same
  BY <1>1, <1>2 DEF Begin, SyncOps, ListRows, ListConflicts, ReadLocal, NetworkFails,
     RequestFails, PullFails, Still
<1>3. ASSUME NEW j \in Cycles, j # k,
             \/ AbsorbResult(j) \/ UpdateOp(j) \/ Sweep(j)
             \/ \E i \in Inspections : MergeSnapshot(j, i)
      PROVE  Same
  BY <1>1, <1>3 DEF AbsorbResult, UpdateOp, Sweep, NextResult, Done, MergeSnapshot, Still
<1>4. ASSUME NEW d \in Devices, Reload(d)
      PROVE  Same \/ Ends
  <2>1. d # On[k] => Same
    BY <1>1, <1>4 DEF Reload, Still
  <2> QED
    BY <1>4, <2>1
<1>5. ASSUME NEW d \in Devices, User(d) \/ \E id \in OpIds : EnqueueOp(d, id)
      PROVE  Same
  BY <1>5 DEF User, EnqueueOp, StageOp, StageCreate, StageDelete, ResolveConflict,
     DiscardOps, Logout, Login, cycle, Still
<1>6. ASSUME NEW h \in Handlers, Serve(h) \/ OpFails(h)
      PROVE  Same \/ Waits
  <2> DEFINE id == First(request[h].left)
             by == request[h].by
  <2>1. /\ request[h] # None
        /\ UNCHANGED <<pc, todo, page, copy>>
        /\ \E r \in Result :
              answer' = IF by = None THEN answer ELSE [answer EXCEPT ![by][id] = r]
    BY <1>6, Served DEF device
  <2>2. request[h].by # k => Same
    BY <1>1, <2>1 DEF Still
  <2> QED
    BY <1>6, <2>1, <2>2
<1>7. ASSUME NEW h \in Handlers, Respond(h)
      PROVE  Same \/ Waits
  <2>1. /\ request[h] # None
        /\ pc' = [pc EXCEPT ![request[h].by] = "absorb"]
        /\ UNCHANGED <<todo, answer, page, copy>>
    BY <1>7 DEF Respond
  <2>2. request[h].by # k => Same
    BY <1>1, <2>1 DEF Still
  <2> QED
    BY <1>7, <2>1, <2>2
<1>8. ASSUME \/ UNCHANGED vars
             \/ \E h \in Handlers : HandlerEnds(h)
             \/ \E u \in Users, id \in OpIds : RemoteApply(u, id)
             \/ \E i \in Inspections : OpenAttachment(i) \/ CompleteAttachments(i)
      PROVE  Same
  BY <1>8 DEF vars, HandlerEnds, RemoteApply, OpenAttachment, CompleteAttachments, cycle, Still
<1>9. ASSUME NEW j \in Cycles, Cycle(j) \/ NetworkFails(j) \/ RequestFails(j) \/ PullFails(j)
      PROVE  Same \/ Own
  <2>1. CASE j = k
    BY <1>9, <2>1 DEF Cycle
  <2>2. CASE j # k
    <3> HIDE DEF Same, Own
    <3> QED
      BY <1>2, <1>3, <1>9, <2>2 DEF Cycle
  <2> QED
    BY <2>1, <2>2
<1> HIDE DEF Own, Waits, Ends, Same
<1>10. Same \/ Own \/ Ends \/ Waits
  BY <1>4, <1>5, <1>6, <1>7, <1>8, <1>9 DEF Next, Handle
<1> QED
  BY <1>10 DEF Own, Waits, Ends, Same

\* What was applied stays applied, whatever the cycle does.
LEMMA CopyStaysStep ==
    ASSUME OneWorks, Inv, Ordered, [Next]_vars, NEW k \in Cycles,
           \A id \in OpIds : copy'[k][id] \in {copy[k][id], None}
    PROVE  CopyStays(k)'
<1> DEFINE d == On[k]
<1> SUFFICES ASSUME NEW id \in OpIds, copy'[k][id] = "applied"
             PROVE  box'[d][id] = None \/ box'[d][id].state = "applied"
  BY DEF CopyStays
<1>1. /\ AtHome /\ DecidedIsMinted /\ CopyStays(k) /\ PageInHand(k)
      /\ d \in Devices /\ d # None
  BY DevicesAssumption DEF Ordered, InHand
<1>2. copy[k][id] = "applied"
  BY RecordsAssumption DEF States
<1>3. pc[k] = "merge"
  <2>1. copy[k] # Nothing(OpIds)
    BY <1>2, RecordsAssumption DEF Nothing, States
  <2> QED
    BY <1>1, <2>1 DEF PageInHand
<1>4. box[d][id] = None \/ box[d][id].state = "applied"
  BY <1>1, <1>2 DEF CopyStays
<1>5. CASE box'[d][id] = Fresh /\ id \notin Minted /\ Home[id] = d
  BY <1>1, <1>2, <1>5 DEF DecidedIsMinted, Inv, CopyTrue
<1>6. ASSUME NEW j \in Cycles, On[j] = d, UpdateOp(j)
      PROVE  FALSE
  BY <1>6, <1>3 DEF UpdateOp, OneWorks
<1>7. ASSUME NEW s, NEW open, id \in Released(d, s, open)
      PROVE  FALSE
  BY <1>4, <1>7 DEF Released, BoxOf, InBox
<1>8. BoxMove(d, id)
  BY <1>1, RecordMoves
<1> QED
  BY <1>4, <1>5, <1>6, <1>7, <1>8 DEF BoxMove

\* A cycle that neither waits nor absorbs.
LEMMA RestInHand ==
    ASSUME OneWorks, Inv, Ordered, [Next]_vars, NEW k \in Cycles,
           pc'[k] \notin Absorbing \cup {"wait"}, todo'[k] = {},
           \A id \in OpIds : answer'[k][id] = None,
           CopyStays(k)', PageInHand(k)'
    PROVE  InHand(k)'
BY DEF InHand, Exact, WholeOrNot, TodoIsDue, LateIsUnsent, SnapshotKept, SweepSettles, Absorbing

\* What a cycle that does not pull keeps of the list: nothing.
LEMMA NoPage ==
    ASSUME Inv, Ordered, NEW k \in Cycles, pc[k] \notin {"conflicts", "read", "merge"},
           page'[k] = page[k], copy'[k] = copy[k]
    PROVE  PageInHand(k)'
<1>1. page[k] = Nothing(Inspections) /\ copy[k] = Nothing(OpIds)
  BY DEF Ordered, InHand, PageInHand
<1>2. Nothing(Inspections)' = Nothing(Inspections) /\ Nothing(OpIds)' = Nothing(OpIds)
  BY DEF Nothing
<1> QED
  BY <1>1, <1>2 DEF PageInHand

\* A cycle that is not at work has nothing to absorb.
LEMMA NoWork ==
    ASSUME Inv, Ordered, NEW k \in Cycles, pc[k] \notin Absorbing \cup {"wait"}
    PROVE  todo[k] = {} /\ \A id \in OpIds : answer[k][id] = None
BY DEF Ordered, InHand, WholeOrNot, Exact

\* A cycle that is idle has nothing in hand, whatever others of its device do.
LEMMA IdleInHand ==
    ASSUME OneWorks, Inv, Ordered, [Next]_vars, NEW k \in Cycles, pc[k] = "idle", Still(k)
    PROVE  InHand(k)'
<1>1. todo[k] = {} /\ \A id \in OpIds : answer[k][id] = None
  BY NoWork DEF Absorbing
<1>2. PageInHand(k)'
  BY NoPage DEF Still
<1>3. CopyStays(k)'
  BY CopyStaysStep DEF Still
<1> QED
  BY <1>1, <1>2, <1>3, RestInHand DEF Still, Absorbing

LEMMA StillInHand ==
    ASSUME OneWorks, Inv, Ordered, [Next]_vars, NEW k \in Cycles, Still(k)
    PROVE  InHand(k)'
BY IdleInHand, StillStays, StaysInHand

\* Pulling, and all that ends what a cycle was at, leaves it with no more
\* than the list in hand.
LEMMA RestMoves ==
    ASSUME OneWorks, Inv, Ordered, [Next]_vars, NEW k \in Cycles,
           \/ Begin(k) \/ ListRows(k) \/ ListConflicts(k) \/ ReadLocal(k)
           \/ \E i \in Inspections : MergeSnapshot(k, i)
           \/ NetworkFails(k) \/ PullFails(k) \/ Reload(On[k])
           \/ (SyncOps(k) /\ Due(On[k]) = {})
    PROVE  InHand(k)'
<1>1. /\ pc \in [Cycles -> Places] /\ todo \in [Cycles -> SUBSET OpIds]
      /\ answer \in [Cycles -> [OpIds -> Result \cup {None}]]
      /\ page \in [Cycles -> [Inspections -> Row \cup {None}]]
      /\ copy \in [Cycles -> [OpIds -> States \cup {None}]]
  BY DEF Inv, TypeOK
<1>2. PageInHand(k)
  BY DEF Ordered, InHand
<1>3. /\ Nothing(Inspections)' = Nothing(Inspections) /\ Nothing(OpIds)' = Nothing(OpIds)
      /\ \A id \in OpIds : Nothing(OpIds)[id] = None
  BY DEF Nothing
<1> DEFINE Rests == /\ pc'[k] \notin Absorbing \cup {"wait"} /\ todo'[k] = {}
                    /\ \A id \in OpIds : answer'[k][id] = None
           Forgets == \A id \in OpIds : copy'[k][id] \in {copy[k][id], None}
<1>4. ASSUME Rests, Forgets, PageInHand(k)'
      PROVE  InHand(k)'
  BY <1>4, CopyStaysStep, RestInHand
<1>5. ASSUME pc[k] \notin Absorbing \cup {"wait"}, pc'[k] \notin Absorbing \cup {"wait"},
             UNCHANGED <<todo, answer>>
      PROVE  Rests
  BY <1>5, NoWork
<1>6. CASE Begin(k) \/ (SyncOps(k) /\ Due(On[k]) = {})
  <2>1. /\ pc[k] \in {"idle", "send"} /\ pc'[k] \in {"send", "list"}
        /\ UNCHANGED <<todo, answer, page, copy>>
    BY <1>1, <1>6 DEF Begin, SyncOps
  <2>2. PageInHand(k)'
    BY <2>1, NoPage
  <2>3. Rests
    BY <1>5, <2>1 DEF Absorbing
  <2> QED
    BY <1>4, <2>1, <2>2, <2>3
<1>7. CASE ListRows(k) \/ ListConflicts(k)
  <2>1. /\ pc[k] \in {"list", "conflicts"}
        /\ \/ pc'[k] \in {"conflicts", "read"}
           \/ pc[k] = "list" /\ pc'[k] = "idle" /\ page' = page
        /\ UNCHANGED <<todo, answer, copy>>
    BY <1>1, <1>7 DEF ListRows, ListConflicts
  <2>2. PageInHand(k)'
    BY <1>2, <1>3, <2>1 DEF PageInHand
  <2>3. Rests
    BY <1>5, <2>1 DEF Absorbing
  <2> QED
    BY <1>4, <2>1, <2>2, <2>3
<1>8. CASE ReadLocal(k)
  <2>1. /\ pc[k] = "read"
        /\ UNCHANGED <<todo, answer, page, box>>
        /\ \/ pc'[k] = "idle" /\ page[k] = Nothing(Inspections) /\ copy' = copy
           \/ /\ pc'[k] = "merge"
              /\ copy' = [copy EXCEPT ![k] = [id \in OpIds |->
                    IF box[On[k]][id] = None THEN None ELSE box[On[k]][id].state]]
    BY <1>1, <1>8 DEF ReadLocal, device
  <2>2. PageInHand(k)'
    BY <1>2, <1>3, <2>1 DEF PageInHand
  <2>3. Rests
    BY <1>5, <2>1 DEF Absorbing
  <2>4. CASE copy' = copy
    BY <1>4, <2>2, <2>3, <2>4
  <2>5. CASE copy' = [copy EXCEPT ![k] = [id \in OpIds |->
                 IF box[On[k]][id] = None THEN None ELSE box[On[k]][id].state]]
    <3>1. \A id \in OpIds : copy'[k][id] = IF box[On[k]][id] = None THEN None
                                           ELSE box[On[k]][id].state
      BY <1>1, <2>5
    <3>2. CopyStays(k)'
      BY <2>1, <3>1, RecordsAssumption DEF CopyStays, States
    <3> QED
      BY <2>2, <2>3, <3>2, RestInHand
  <2> QED
    BY <2>1, <2>4, <2>5
<1>9. ASSUME NEW i \in Inspections, MergeSnapshot(k, i)
      PROVE  InHand(k)'
  <2> DEFINE rest == [page[k] EXCEPT ![i] = None]
  <2>1. /\ pc[k] = "merge" /\ page' = [page EXCEPT ![k] = rest]
        /\ UNCHANGED <<todo, answer>>
        /\ \/ /\ rest = Nothing(Inspections)
              /\ pc' = [pc EXCEPT ![k] = "idle"]
              /\ copy' = [copy EXCEPT ![k] = Nothing(OpIds)]
           \/ UNCHANGED <<pc, copy>>
    BY <1>9 DEF MergeSnapshot
  <2> HIDE DEF rest
  <2>2. page'[k] = rest /\ pc'[k] \in {"idle", "merge"}
    BY <1>1, <2>1
  <2>3. PageInHand(k)'
    BY <1>1, <1>2, <1>3, <2>1, <2>2 DEF PageInHand
  <2>4. Rests
    BY <1>5, <2>1, <2>2 DEF Absorbing
  <2>5. Forgets
    BY <1>1, <1>3, <2>1
  <2> QED
    BY <1>4, <2>3, <2>4, <2>5
<1>10. CASE NetworkFails(k)
  <2>1. /\ pc[k] = "wait" /\ pc'[k] = "list" /\ todo'[k] = {}
        /\ answer'[k] = Nothing(OpIds)
        /\ UNCHANGED <<page, copy>>
    BY <1>1, <1>10 DEF NetworkFails
  <2>2. PageInHand(k)'
    BY <2>1, NoPage
  <2> QED
    BY <1>3, <1>4, <2>1, <2>2 DEF Absorbing
<1>11. CASE PullFails(k)
  <2>1. /\ pc[k] \in {"list", "conflicts", "read"} /\ pc'[k] = "idle"
        /\ page'[k] = Nothing(Inspections)
        /\ UNCHANGED <<todo, answer, copy>>
    BY <1>1, <1>11 DEF PullFails
  <2>2. PageInHand(k)'
    BY <1>2, <1>3, <2>1 DEF PageInHand
  <2>3. Rests
    BY <1>5, <2>1 DEF Absorbing
  <2> QED
    BY <1>4, <2>1, <2>2, <2>3
<1>12. CASE Reload(On[k])
  <2>1. /\ pc'[k] = "idle" /\ todo'[k] = {} /\ answer'[k] = Nothing(OpIds)
        /\ page'[k] = Nothing(Inspections) /\ copy'[k] = Nothing(OpIds)
    BY <1>12 DEF Reload
  <2>2. PageInHand(k)'
    BY <1>3, <2>1 DEF PageInHand
  <2> QED
    BY <1>3, <1>4, <2>1, <2>2 DEF Absorbing
<1> QED
  BY <1>6, <1>7, <1>8, <1>9, <1>10, <1>11, <1>12

\* A cycle sends what is due: nothing is late, or nobody is answered.
LEMMA SendMoves ==
    ASSUME OneWorks, Inv, Ordered, [Next]_vars, NEW k \in Cycles,
           SyncOps(k), Due(On[k]) # {}
    PROVE  InHand(k)'
<1> DEFINE d   == On[k]
           ids == Due(d)
           new == AllAnswered(ids, "refused")
<1>1. /\ todo \in [Cycles -> SUBSET OpIds] /\ pc \in [Cycles -> Places]
      /\ answer \in [Cycles -> [OpIds -> Result \cup {None}]]
  BY DEF Inv, TypeOK
<1>2. /\ pc[k] = "send" /\ todo' = [todo EXCEPT ![k] = ids]
      /\ UNCHANGED <<page, copy, box>>
      /\ \/ pc' = [pc EXCEPT ![k] = "absorb"] /\ answer' = [answer EXCEPT ![k] = new]
         \/ pc' = [pc EXCEPT ![k] = "wait"] /\ answer' = answer
  BY DEF SyncOps, device
<1>3. \A id \in OpIds : answer[k][id] = None
  BY <1>2, NoWork DEF Absorbing
<1>4. ids \subseteq OpIds
  BY DEF Due, InBox
<1>5. \A id \in OpIds : new[id] = IF id \in ids THEN [status |-> "refused", snap |-> None] ELSE None
  BY DEF AllAnswered
<1>6. Due(d)' = ids
  BY <1>2 DEF Due, InBox
<1>7. PageInHand(k)'
  BY <1>2, NoPage
<1>8. CopyStays(k)'
  BY <1>2, CopyStaysStep
<1> HIDE DEF ids, new
<1>9. /\ todo'[k] = ids
      /\ pc'[k] \in {"absorb", "wait"}
      /\ pc'[k] = "absorb" => \A id \in ids : answer'[k][id].status = "refused"
      /\ pc'[k] = "wait" => \A id \in OpIds : answer'[k][id] = None
      /\ \A id \in OpIds : answer'[k][id] # None =>
             id \in ids /\ answer'[k][id] = [status |-> "refused", snap |-> None]
  BY <1>1, <1>2, <1>3, <1>4, <1>5
<1>10. Exact(k)'
  <2> SUFFICES ASSUME NEW id \in OpIds, answer'[k][id] # None
               PROVE  id \in todo'[k] /\ AnswerExact(id, answer[k][id])'
    BY DEF Exact
  <2>1. id \in ids /\ answer'[k][id] = [status |-> "refused", snap |-> None]
    BY <1>9
  <2> QED
    BY <1>9, <2>1 DEF AnswerExact, After
<1>11. WholeOrNot(k)'
  BY <1>9 DEF WholeOrNot, Absorbing, Whole
<1>12. TodoIsDue(k)'
  BY <1>6, <1>9 DEF TodoIsDue
<1>13. LateIsUnsent(k)'
  BY <1>6, <1>9 DEF LateIsUnsent
<1>14. SnapshotKept(k)' /\ SweepSettles(k)'
  BY <1>9 DEF SnapshotKept, SweepSettles
<1> QED
  BY <1>7, <1>8, <1>10, <1>11, <1>12, <1>13, <1>14 DEF InHand

\* A request that fails as a whole leaves nothing decided for its cycle.
LEMMA FailMoves ==
    ASSUME OneWorks, Inv, Ordered, [Next]_vars, NEW k \in Cycles, RequestFails(k)
    PROVE  InHand(k)'
<1> DEFINE d == On[k]
<1>1. /\ pc \in [Cycles -> Places] /\ todo \in [Cycles -> SUBSET OpIds]
      /\ answer \in [Cycles -> [OpIds -> Result \cup {None}]]
  BY DEF Inv, TypeOK
<1>2. PICK s \in {"unavailable", "refused"} : answer' = [answer EXCEPT ![k] = AllAnswered(todo[k], s)]
  BY DEF RequestFails
<1>3. /\ pc[k] = "wait" /\ pc'[k] = "absorb"
      /\ UNCHANGED <<todo, page, copy, box>>
  BY <1>1 DEF RequestFails, device
<1>4. \A id \in OpIds : answer'[k][id] = IF id \in todo[k] THEN [status |-> s, snap |-> None] ELSE None
  BY <1>1, <1>2 DEF AllAnswered
<1>5. Due(d)' = Due(d)
  BY <1>3 DEF Due, InBox
<1>6. PageInHand(k)'
  BY <1>3, NoPage
<1>7. CopyStays(k)'
  BY <1>3, CopyStaysStep
<1>8. Exact(k)'
  <2> SUFFICES ASSUME NEW id \in OpIds, answer'[k][id] # None
               PROVE  id \in todo'[k] /\ AnswerExact(id, answer[k][id])'
    BY DEF Exact
  <2>1. id \in todo[k] /\ answer'[k][id] = [status |-> s, snap |-> None]
    BY <1>4
  <2> QED
    BY <1>3, <2>1 DEF AnswerExact, After
<1>9. \A id \in todo'[k] : answer'[k][id].status \in Whole
  BY <1>1, <1>3, <1>4 DEF Whole
<1>10. WholeOrNot(k)'
  BY <1>3, <1>9 DEF WholeOrNot, Absorbing
<1>11. TodoIsDue(k)'
  <2>1. TodoIsDue(k)
    BY DEF Ordered, InHand
  <2> QED
    BY <1>3, <1>5, <2>1 DEF TodoIsDue
<1>12. LateIsUnsent(k)'
  BY <1>3, <1>9 DEF LateIsUnsent, Absorbing
<1>13. SnapshotKept(k)' /\ SweepSettles(k)'
  BY <1>3 DEF SnapshotKept, SweepSettles
<1> QED
  BY <1>6, <1>7, <1>8, <1>10, <1>11, <1>12, <1>13 DEF InHand

-----------------------------------------------------------------------------
(* What a cycle knows while it absorbs *)

\* The state of an op that is being absorbed or passed over.
OnlyReleased(old, new) ==
    \/ new = old
    \/ old # None /\ old.state = "conflict" /\ new # None /\ new.state = "applied"

\* A step of absorbing goes on with the first op or is done with it.
LEMMA AbsorbFrame ==
    ASSUME Inv, Ordered, [Next]_vars, NEW k \in Cycles,
           AbsorbResult(k) \/ UpdateOp(k) \/ Sweep(k)
    PROVE  LET d == On[k]
               x == First(todo[k])
               r == answer[k][x]
           IN  /\ pc[k] \in Absorbing
               /\ UNCHANGED <<rows, ledger, past, request, page, copy, at>>
               /\ \/ /\ pc'[k] \in {"save", "sweep"}
                     /\ todo'[k] = todo[k] /\ answer'[k] = answer[k]
                  \/ /\ pc'[k] = IF todo[k] = {x} THEN "list" ELSE "absorb"
                     /\ todo'[k] = todo[k] \ {x}
                     /\ \A id \in OpIds : answer'[k][id] = IF id = x THEN None ELSE answer[k][id]
               /\ \A id \in OpIds : id # x => OnlyReleased(box[d][id], box'[d][id])
               /\ pc'[k] = "save" => box' = box
               /\ pc'[k] = "sweep" =>
                     /\ Settles(x, r)
                     /\ box'[d][x] = None \/ box'[d][x].state = "applied"
               /\ pc'[k] \in {"save", "sweep"} /\ r.snap # None =>
                     snap'[d][OpOf[x].insp] = r.snap
               /\ x \in Due(d)' => pc'[k] = "save" \/ Retryable(r.status)
<1> DEFINE d == On[k]
           x == First(todo[k])
           r == answer[k][x]
           open == {f \in Editable : r.snap.conflict[f] # None}
           Goes == /\ pc'[k] \in {"save", "sweep"}
                   /\ todo'[k] = todo[k] /\ answer'[k] = answer[k]
           Ends == /\ pc'[k] = IF todo[k] = {x} THEN "list" ELSE "absorb"
                   /\ todo'[k] = todo[k] \ {x}
                   /\ \A id \in OpIds : answer'[k][id] = IF id = x THEN None ELSE answer[k][id]
           Boxes == \A id \in OpIds : id # x => OnlyReleased(box[d][id], box'[d][id])
           Swept == pc'[k] = "sweep" => /\ Settles(x, r)
                                        /\ box'[d][x] = None \/ box'[d][x].state = "applied"
           Kept == pc'[k] \in {"save", "sweep"} /\ r.snap # None => snap'[d][OpOf[x].insp] = r.snap
           Due_ == x \in Due(d)' => pc'[k] = "save" \/ Retryable(r.status)
<1>1. /\ pc[k] \in Absorbing /\ x \in todo[k] /\ x \in OpIds
      /\ UNCHANGED <<rows, ledger, past, request, page, copy, at>>
  BY AbsorbMoves, Absorbs DEF AbsorbResult, UpdateOp, Sweep, server
<1>2. /\ pc \in [Cycles -> Places] /\ todo \in [Cycles -> SUBSET OpIds]
      /\ answer \in [Cycles -> [OpIds -> Result \cup {None}]]
      /\ box \in [Devices -> [OpIds -> Recorded \cup {None}]]
      /\ snap \in [Devices -> [Inspections -> Row \cup {None}]]
      /\ d \in Devices /\ OpOf[x].insp \in Inspections
  BY <1>1, DevicesAssumption, PayloadType DEF Inv, TypeOK
<1>3. TodoIsDue(k) /\ SnapshotKept(k)
  BY DEF Ordered, InHand
<1>4. ASSUME Done(k, x)
      PROVE  Ends /\ pc'[k] \notin {"save", "sweep"}
  BY <1>2, <1>4 DEF Done
<1>5. ASSUME NEW s \in {"save", "sweep"}, pc' = [pc EXCEPT ![k] = s], UNCHANGED <<todo, answer>>
      PROVE  Goes /\ pc'[k] = s
  BY <1>2, <1>5
<1>6. CASE AbsorbResult(k)
  <2>1. box' = box
    BY <1>6 DEF AbsorbResult
  <2>2. Boxes
    BY <2>1 DEF OnlyReleased
  <2>3. r.snap # None => snap'[d][OpOf[x].insp] = r.snap
    BY <1>2, <1>6 DEF AbsorbResult
  <2>4. CASE box[d][x] # None
    <3>1. pc' = [pc EXCEPT ![k] = "save"] /\ UNCHANGED <<todo, answer>>
      BY <1>6, <2>4 DEF AbsorbResult
    <3> QED
      BY <1>1, <1>5, <2>1, <2>2, <2>3, <3>1
  <2>5. CASE box[d][x] = None
    <3>1. NextResult(k, x)
      BY <1>6, <2>5 DEF AbsorbResult
    <3>2. x \notin Due(d)'
      BY <2>1, <2>5 DEF Due, InBox
    <3>3. \/ Settles(x, r) /\ pc' = [pc EXCEPT ![k] = "sweep"] /\ UNCHANGED <<todo, answer>>
          \/ Done(k, x)
      BY <3>1 DEF NextResult
    <3>4. (Goes \/ Ends) /\ Swept /\ pc'[k] # "save"
      BY <1>4, <1>5, <2>1, <2>5, <3>3
    <3> QED
      BY <1>1, <2>2, <2>3, <3>2, <3>4
  <2> QED
    BY <2>4, <2>5
<1>7. CASE UpdateOp(k)
  <2> DEFINE rec == IF box[d][x] # None THEN box[d][x] ELSE Fresh
  <2>1. /\ pc[k] = "save" /\ NextResult(k, x) /\ snap' = snap
        /\ box' = [box EXCEPT ![d][x] = Patch(rec, x, r)]
    BY <1>7 DEF UpdateOp
  <2>2. box'[d][x] = Patch(rec, x, r) /\ \A id \in OpIds : id # x => box'[d][id] = box[d][id]
    BY <1>1, <1>2, <2>1
  <2>3. Boxes
    BY <2>2 DEF OnlyReleased
  <2>4. r.snap # None => snap'[d][OpOf[x].insp] = r.snap
    BY <1>3, <2>1 DEF SnapshotKept
  <2>5. /\ box'[d][x].state = After(r.status)
        /\ After(r.status) = "failed" => box'[d][x].retry = Retryable(r.status)
    BY <2>2 DEF Patch
  <2>6. x \in Due(d)' => Retryable(r.status)
    <3>1. After(r.status) \in {"applied", "conflict", "failed"}
      BY DEF After
    <3> QED
      BY <2>5, <3>1 DEF Due
  <2>7. \/ Settles(x, r) /\ pc' = [pc EXCEPT ![k] = "sweep"] /\ UNCHANGED <<todo, answer>>
        \/ Done(k, x)
    BY <2>1 DEF NextResult
  <2>8. Settles(x, r) => box'[d][x].state = "applied"
    BY <2>5 DEF Settles, After
  <2>9. (Goes \/ Ends) /\ Swept /\ pc'[k] # "save"
    BY <1>4, <1>5, <2>7, <2>8
  <2> QED
    BY <1>1, <2>3, <2>4, <2>6, <2>9
<1>8. CASE Sweep(k)
  <2>1. /\ pc[k] = "sweep" /\ Done(k, x)
        /\ box' = [box EXCEPT ![d] = [p \in OpIds |->
                      IF p \in Released(d, x, open) THEN [box[d][p] EXCEPT !.state = "applied"]
                                                    ELSE box[d][p]]]
    BY <1>8 DEF Sweep
  <2>2. \A p \in OpIds : box'[d][p] = IF p \in Released(d, x, open)
                                      THEN [box[d][p] EXCEPT !.state = "applied"] ELSE box[d][p]
    BY <1>2, <2>1
  <2>3. \A p \in OpIds : OnlyReleased(box[d][p], box'[d][p])
    <3> SUFFICES ASSUME NEW p \in OpIds
                 PROVE  OnlyReleased(box[d][p], box'[d][p])
      OBVIOUS
    <3>1. CASE p \in Released(d, x, open)
      <4>1. box[d][p] \in Recorded /\ box[d][p] # None /\ box[d][p].state = "conflict"
        BY <1>2, <3>1 DEF Released, BoxOf, InBox
      <4>2. /\ box'[d][p] = [box[d][p] EXCEPT !.state = "applied"]
            /\ [box[d][p] EXCEPT !.state = "applied"] \in Recorded
            /\ [box[d][p] EXCEPT !.state = "applied"].state = "applied"
        BY <2>2, <3>1, <4>1 DEF Recorded, States
      <4> QED
        BY <4>1, <4>2, RecordsAssumption DEF OnlyReleased
    <3>2. CASE p \notin Released(d, x, open)
      BY <2>2, <3>2 DEF OnlyReleased
    <3> QED
      BY <3>1, <3>2
  <2>4. box[d][x] = None \/ box[d][x].state = "applied"
    BY <1>1, <1>3, <2>1 DEF TodoIsDue
  <2>5. x \notin Due(d)'
    <3>1. OnlyReleased(box[d][x], box'[d][x])
      BY <1>1, <2>3
    <3> QED
      BY <2>4, <3>1 DEF OnlyReleased, Due, InBox
  <2>6. Ends /\ pc'[k] \notin {"save", "sweep"}
    BY <1>4, <2>1
  <2> QED
    BY <1>1, <2>3, <2>5, <2>6
<1> QED
  BY <1>6, <1>7, <1>8

\* What a cycle has absorbed leaves it with the rest of its results.
LEMMA AbsorbInHand ==
    ASSUME OneWorks, Inv, Ordered, [Next]_vars, NEW k \in Cycles,
           AbsorbResult(k) \/ UpdateOp(k) \/ Sweep(k)
    PROVE  InHand(k)'
<1> DEFINE d == On[k]
           x == First(todo[k])
           r == answer[k][x]
           Goes == /\ pc'[k] \in {"save", "sweep"}
                   /\ todo'[k] = todo[k] /\ answer'[k] = answer[k]
           Ends == /\ pc'[k] = IF todo[k] = {x} THEN "list" ELSE "absorb"
                   /\ todo'[k] = todo[k] \ {x}
                   /\ \A id \in OpIds : answer'[k][id] = IF id = x THEN None ELSE answer[k][id]
<1>1. /\ pc[k] \in Absorbing
      /\ UNCHANGED <<rows, ledger, past, request, page, copy, at>>
      /\ Goes \/ Ends
      /\ \A id \in OpIds : id # x => OnlyReleased(box[d][id], box'[d][id])
      /\ pc'[k] = "save" => box' = box
      /\ pc'[k] = "sweep" => /\ Settles(x, r)
                             /\ box'[d][x] = None \/ box'[d][x].state = "applied"
      /\ pc'[k] \in {"save", "sweep"} /\ r.snap # None => snap'[d][OpOf[x].insp] = r.snap
      /\ x \in Due(d)' => pc'[k] = "save" \/ Retryable(r.status)
  BY AbsorbFrame
<1>2. x \in todo[k] /\ x \in OpIds /\ todo[k] \subseteq OpIds /\ r # None
  BY <1>1, Absorbs, RecordsAssumption DEF Inv, TypeOK
<1>3. /\ Exact(k) /\ WholeOrNot(k) /\ TodoIsDue(k) /\ LateIsUnsent(k)
  BY DEF Ordered, InHand
<1>4. Goes => First(todo[k])' = x
  <2>1. /\ AtHome /\ StampsDistinct
    BY DEF Ordered
  <2> QED
    BY <1>2, <2>1, NextStays
<1>5. PageInHand(k)' /\ CopyStays(k)'
  BY <1>1, NoPage, CopyStaysStep DEF Absorbing
<1> HIDE DEF x
<1>6. Exact(k)'
  <2> SUFFICES ASSUME NEW id \in OpIds, answer'[k][id] # None
               PROVE  id \in todo'[k] /\ AnswerExact(id, answer[k][id])'
    BY DEF Exact
  <2>1. answer'[k][id] = answer[k][id] /\ (id \in todo[k] => id \in todo'[k])
    BY <1>1
  <2>2. id \in todo[k] /\ AnswerExact(id, answer[k][id])
    BY <1>3, <2>1 DEF Exact
  <2> QED
    BY <1>1, <2>1, <2>2 DEF AnswerExact
<1>7. \A id \in todo'[k] : id \in todo[k] /\ answer'[k][id] = answer[k][id]
  BY <1>1, <1>2
<1>8. WholeOrNot(k)'
  <2>1. todo'[k] # {} => pc'[k] \in Absorbing
    BY <1>1 DEF Absorbing
  <2>2. pc'[k] # "wait"
    BY <1>1
  <2> QED
    BY <1>1, <1>3, <1>7, <2>1, <2>2 DEF WholeOrNot
<1>9. ASSUME NEW id \in todo[k], id # x
      PROVE  box'[d][id] = None \/ id \in Due(d)'
  <2>1. box[d][id] = None \/ id \in Due(d)
    BY <1>3, <1>9 DEF TodoIsDue, x
  <2>2. OnlyReleased(box[d][id], box'[d][id])
    BY <1>1, <1>2, <1>9
  <2> QED
    BY <1>2, <2>1, <2>2 DEF OnlyReleased, Due, InBox
<1>10. TodoIsDue(k)'
  <2> SUFFICES ASSUME NEW id \in todo'[k]
               PROVE  IF pc'[k] = "sweep" /\ id = First(todo[k])'
                      THEN box'[d][id] = None \/ box'[d][id].state = "applied"
                      ELSE box'[d][id] = None \/ id \in Due(d)'
    BY DEF TodoIsDue
  <2>1. CASE id # x
    <3>1. pc'[k] = "sweep" => id # First(todo[k])'
      BY <1>1, <1>4, <2>1
    <3> QED
      BY <1>7, <1>9, <2>1, <3>1
  <2>2. CASE id = x /\ pc'[k] = "sweep"
    BY <1>1, <1>4, <2>2
  <2>3. CASE id = x /\ pc'[k] # "sweep"
    <3>1. box' = box /\ pc[k] # "sweep"
      <4>1. pc'[k] = "save" /\ box' = box
        <5>1. Goes
          BY <1>1, <2>3
        <5> QED
          BY <1>1, <2>3, <5>1
      <4>2. ~ Sweep(k)
        <5>1. pc \in [Cycles -> Places]
          BY DEF Inv, TypeOK
        <5> QED
          BY <4>1, <5>1 DEF Sweep, Done
      <4>3. pc[k] # "sweep"
        BY <4>2 DEF AbsorbResult, UpdateOp
      <4> QED
        BY <4>1, <4>3
    <3>2. box[d][x] = None \/ x \in Due(d)
      BY <1>2, <1>3, <3>1 DEF TodoIsDue
    <3> QED
      BY <2>3, <3>1, <3>2 DEF Due, InBox
  <2> QED
    BY <2>1, <2>2, <2>3
<1>11. LateIsUnsent(k)'
  <2> SUFFICES ASSUME pc'[k] \in Absorbing,
                      NEW a \in OpIds, a \in Due(d)', a \notin todo'[k], Straight(a)'
               PROVE  \/ /\ ledger'[a] = None
                         /\ \A h \in Handlers : request'[h] # None => a \notin request'[h].left
                      \/ \A id \in todo'[k] : answer'[k][id].status \in Whole
    <3>1. pc'[k] # "wait"
      BY <1>1
    <3> QED
      BY <3>1 DEF LateIsUnsent, Due, InBox, Absorbing, Whole
  <2>1. Straight(a)
    BY <1>1 DEF Straight, NothingPutOff
  <2>2. CASE a # x
    <3>1. a \notin todo[k]
      BY <1>1, <2>2
    <3>2. OnlyReleased(box[d][a], box'[d][a])
      BY <1>1, <2>2
    <3>3. a \in Due(d)
      BY <3>2 DEF OnlyReleased, Due, InBox
    <3>4. \/ ledger[a] = None /\ \A h \in Handlers : request[h] # None => a \notin request[h].left
          \/ \A id \in todo[k] : answer[k][id].status \in Whole
      BY <1>1, <1>3, <2>1, <3>1, <3>3 DEF LateIsUnsent
    <3> QED
      BY <1>1, <1>7, <3>4
  <2>3. CASE a = x
    <3>1. Ends /\ Retryable(r.status)
      BY <1>1, <1>2, <2>3
    <3>2. r.status # "attachments_incomplete"
      <4>1. AnswerExact(x, r)
        BY <1>2, <1>3 DEF Exact
      <4> QED
        BY <1>1, <2>1, <2>3, <4>1 DEF AnswerExact, Straight, NothingPutOff
    <3>3. r.status \in Whole
      BY <3>1, <3>2 DEF Retryable, Whole
    <3>4. \A id \in todo[k] : answer[k][id].status \in Whole
      BY <1>1, <1>2, <1>3, <3>3 DEF WholeOrNot
    <3> QED
      BY <1>7, <3>4
  <2> QED
    BY <2>2, <2>3
<1>12. SnapshotKept(k)'
  <2> SUFFICES ASSUME pc'[k] \in {"save", "sweep"}
               PROVE  LET id == First(todo[k])'
                      IN  answer'[k][id].snap # None => snap'[d][OpOf[id].insp] = answer'[k][id].snap
    BY DEF SnapshotKept
  <2>1. Goes
    BY <1>1
  <2> QED
    BY <1>1, <1>4, <2>1
<1>13. SweepSettles(k)'
  <2> SUFFICES ASSUME pc'[k] = "sweep"
               PROVE  Settles(First(todo[k])', answer'[k][First(todo[k])'])
    BY DEF SweepSettles, Settles
  <2>1. Goes
    BY <1>1
  <2> QED
    BY <1>1, <1>4, <2>1
<1> QED
  BY <1>5, <1>6, <1>8, <1>10, <1>11, <1>12, <1>13 DEF InHand

-----------------------------------------------------------------------------
(* What a cycle knows while it waits *)

\* Only the gate puts an op off, and it does not look at resolutions.
LEMMA OnlyGateRefuses ==
    ASSUME NEW u \in Users, NEW id \in OpIds, NEW row \in Row \cup {None}, NEW w \in BOOLEAN,
           Outcome(u, id, row, w).status = "attachments_incomplete"
    PROVE  w /\ OpOf[id].type # "resolve_conflict"
<1>1. ASSUME NEW r, NEW c
      PROVE  MergeOrFail(id, r, c).status \in {"applied", "conflict", "error"}
  BY DEF MergeOrFail, Merge, Reply
<1>2. ASSUME NEW r, NEW c, NEW v \in BOOLEAN,
             ApplyUpsert(id, r, c, v).status = "attachments_incomplete"
      PROVE  v
  <2>1. MergeOrFail(id, r, c).status # "attachments_incomplete"
    BY <1>1
  <2> QED
    BY <1>2, <2>1 DEF ApplyUpsert
<1>3. OpOf[id].type # "resolve_conflict"
  BY DEF Outcome, ApplyResolve, Reply
<1>4. row # None
  <2>1. ApplyUpsert(id, CreateInspection(u, id), TRUE, FALSE).status # "attachments_incomplete"
    BY <1>2
  <2> QED
    BY <1>3, <2>1 DEF Outcome, ApplyToAbsent, Reply
<1>5. ApplyToRow(u, id, row, w).status = "attachments_incomplete"
  BY <1>3, <1>4 DEF Outcome
<1>6. ApplyUpsert(id, row, FALSE, w).status = "attachments_incomplete"
  BY <1>5 DEF ApplyToRow, Reply
<1> QED
  BY <1>2, <1>3, <1>6

\* What a handler answers is exact.
LEMMA ServedExact ==
    ASSUME Inv, PhotosCounted, [Next]_vars, NEW h \in Handlers, Serve(h) \/ OpFails(h),
           NEW id, id = First(request[h].left)
    PROVE  \E r \in Result :
              /\ AnswerExact(id, r)'
              /\ r.status \notin Whole
              /\ answer' = IF request[h].by = None THEN answer
                           ELSE [answer EXCEPT ![request[h].by][id] = r]
<1> DEFINE k  == request[h].by
           u  == request[h].user
           i  == OpOf[id].insp
           Says(r) == answer' = IF k = None THEN answer ELSE [answer EXCEPT ![k][id] = r]
           True_(r) == /\ r \in Result /\ r.status \notin Whole
                       /\ r.snap # None \/ After(r.status) \in {"applied", "conflict"} =>
                             ledger'[id] # None /\ r.snap = ledger'[id].snap
                       /\ r.status = "attachments_incomplete" =>
                             past'.photos > 0 /\ OpOf[id].type # "resolve_conflict"
<1>1. request[h] # None /\ request[h].left # {}
  BY DEF Serve, OpFails
<1>2. u \in Users /\ request[h].left \subseteq Minted
  BY <1>1 DEF Inv, TypeOK, Request, RequestOK
<1>3. id \in OpIds
  BY <1>1, <1>2, NextOp
<1>4. /\ ledger[id] \in Entries \cup {None} /\ i \in Inspections
      /\ rows[i] \in Row \cup {None}
  BY <1>3, SameRules, PayloadType DEF Inv, TypeOK, Server!TypeOK
<1>5. \A s \in {"invalid", "error"} : True_([status |-> s, snap |-> None])
  BY DEF Result, AnswerStatus, OutcomeStatus, LedgeredStatus, After, Whole
<1>6. \E r : Says(r) /\ True_(r)
  <2>1. CASE Serve(h) /\ ledger[id] # None
    <3>1. /\ ledger[id].status \in LedgeredStatus /\ ledger[id].snap \in Row \cup {None}
          /\ ledger'[id] = ledger[id]
      <4>1. ledger'[id] = ledger[id]
        BY <1>3, <2>1, RowsMove
      <4> QED
        BY <1>4, <2>1, <4>1 DEF Entries
    <3> DEFINE r0 == [status |-> MarkDuplicate(ledger[id].status), snap |-> ledger[id].snap]
    <3>2. Says(r0) \/ Says([status |-> "invalid", snap |-> None])
      <4>1. ~ Server!Apply(u, id)
        BY <2>1 DEF Server!Apply
      <4> QED
        BY <2>1, <4>1 DEF Serve, Answered
    <3>3. MarkDuplicate(ledger[id].status) \in {"duplicate", "forbidden", "invalid"}
      BY <3>1 DEF MarkDuplicate, LedgeredStatus
    <3>4. True_(r0)
      BY <2>1, <3>1, <3>3 DEF Result, AnswerStatus, OutcomeStatus, LedgeredStatus, Whole
    <3> HIDE DEF r0, True_, Says
    <3> QED
      BY <1>5, <3>2, <3>4
  <2>2. CASE Serve(h) /\ ledger[id] = None
    <3> DEFINE w == i \in waiting
               out == Outcome(u, id, rows[i], w)
               e == Entry(u, out)
               r1 == [status |-> e.status, snap |-> e.snap]
               r2 == [status |-> out.status, snap |-> None]
    <3>1. \/ Server!Apply(u, id) /\ Says(r1)
          \/ out.status \notin LedgeredStatus /\ Says(r2)
      BY <2>2 DEF Serve, Answered
    <3>2. ASSUME Server!Apply(u, id)
          PROVE  True_(r1)
      <4>1. /\ out.status \in LedgeredStatus
            /\ ledger'[id] = e /\ e \in Entries /\ e # None
        BY <1>2, <1>3, <1>4, <3>2, ApplyGrows DEF Inv, TypeOK
      <4>2. e.status \in LedgeredStatus /\ e.snap \in Row \cup {None}
        BY <4>1 DEF Entries
      <4> HIDE DEF e
      <4> QED
        BY <4>1, <4>2 DEF Result, AnswerStatus, OutcomeStatus, LedgeredStatus, Whole
    <3>3. ASSUME out.status \notin LedgeredStatus
          PROVE  True_(r2)
      <4>1. w \in BOOLEAN
        OBVIOUS
      <4>2. out.status \in OutcomeStatus /\
            (out.status = "attachments_incomplete" => w /\ OpOf[id].type # "resolve_conflict")
        <5>1. out = Outcome(u, id, rows[i], w)
          OBVIOUS
        <5> HIDE DEF out, w
        <5> QED
          BY <1>2, <1>3, <1>4, <4>1, <5>1, OutcomeType, OnlyGateRefuses DEF Outcomes
      <4>3. out.status \in {"attachments_incomplete", "error"}
        BY <3>3, <4>2 DEF OutcomeStatus
      <4>4. w => past'.photos > 0
        BY PhotosMove DEF PhotosCounted
      <4> HIDE DEF out, w
      <4> QED
        BY <4>2, <4>3, <4>4 DEF Result, AnswerStatus, OutcomeStatus, LedgeredStatus, After, Whole
    <3> HIDE DEF r1, r2, out, True_, Says
    <3> QED
      BY <3>1, <3>2, <3>3
  <2>3. CASE OpFails(h)
    <3>1. Says([status |-> "error", snap |-> None])
      BY <2>3 DEF OpFails, Answered
    <3> QED
      BY <1>5, <3>1
  <2> QED
    BY <2>1, <2>2, <2>3
<1>7. PICK r : Says(r) /\ True_(r)
  BY <1>6
<1>8. AnswerExact(id, r)'
  BY <1>7 DEF AnswerExact
<1> QED
  BY <1>7, <1>8

\* A cycle that gets an answer waits on.
LEMMA ServeInHand ==
    ASSUME OneWorks, Inv, Ordered, [Next]_vars, NEW k \in Cycles, NEW h \in Handlers,
           request[h] # None, request[h].by = k, Serve(h) \/ OpFails(h)
    PROVE  InHand(k)'
<1> DEFINE d == On[k]
<1>1. PICK id : id = First(request[h].left)
  OBVIOUS
<1>2. PICK r \in Result : /\ AnswerExact(id, r)'
                          /\ r.status \notin Whole
                          /\ answer' = IF k = None THEN answer ELSE [answer EXCEPT ![k][id] = r]
  <2>1. PhotosCounted
    BY DEF Ordered
  <2>2. \E r \in Result : /\ AnswerExact(id, r)'
                         /\ r.status \notin Whole
                         /\ answer' = IF request[h].by = None THEN answer
                                      ELSE [answer EXCEPT ![request[h].by][id] = r]
    BY <1>1, <2>1, ServedExact
  <2> QED
    BY <2>2
<1>3. /\ id \in request[h].left /\ id \in OpIds
      /\ request' = [request EXCEPT ![h].left = @ \ {id}]
      /\ UNCHANGED <<device, pc, todo, page, copy>>
  BY <1>1, Served
<1>4. CASE k = None
  <2>1. Still(k)
    BY <1>2, <1>3, <1>4 DEF Still
  <2> QED
    BY <2>1, StillInHand
<1>5. CASE k # None
  <2>1. /\ pc[k] = "wait" /\ id \in todo[k]
        /\ \A j \in todo[k] : j \in OpIds
    BY <1>3, <1>5 DEF Inv, TypeOK, RequestOK, Ordered, LeftIsTodo
  <2>2. /\ AtHome /\ Exact(k) /\ WholeOrNot(k) /\ TodoIsDue(k) /\ LateIsUnsent(k)
        /\ d \in Devices /\ d # None
    BY DevicesAssumption DEF Ordered, InHand
  <2>3. \A j \in OpIds : answer'[k][j] = IF j = id THEN r ELSE answer[k][j]
    BY <1>2, <1>3, <1>5 DEF Inv, TypeOK
  <2>4. pc'[k] = "wait" /\ todo'[k] = todo[k] /\ box' = box
    BY <1>3, <2>1 DEF device
  <2>5. Exact(k)'
    <3> SUFFICES ASSUME NEW j \in OpIds, answer'[k][j] # None
                 PROVE  j \in todo'[k] /\ AnswerExact(j, answer[k][j])'
      BY DEF Exact
    <3>1. CASE j = id
      <4>1. AnswerExact(j, r)'
        BY <1>2, <3>1
      <4>2. answer'[k][j] = r
        BY <2>3, <3>1
      <4> QED
        BY <2>1, <2>4, <3>1, <4>1, <4>2 DEF AnswerExact
    <3>2. CASE j # id
      <4>1. PICK s : s = answer[k][j]
        OBVIOUS
      <4>2. answer'[k][j] = s
        BY <2>3, <3>2, <4>1
      <4>3. j \in todo[k] /\ AnswerExact(j, s)
        BY <2>2, <4>1, <4>2 DEF Exact
      <4>4. AnswerExact(j, s)'
        BY <4>3, ExactStays
      <4> QED
        BY <2>4, <4>2, <4>3, <4>4 DEF AnswerExact
    <3> QED
      BY <3>1, <3>2
  <2>6. WholeOrNot(k)'
    BY <1>2, <2>1, <2>2, <2>3, <2>4 DEF WholeOrNot, Absorbing
  <2>7. TodoIsDue(k)'
    BY <2>1, <2>2, <2>4 DEF TodoIsDue, Due, InBox
  <2>8. LateIsUnsent(k)'
    <3> SUFFICES ASSUME NEW a \in OpIds, a \in Due(d)', a \notin todo'[k], Straight(a)'
                 PROVE  /\ ledger'[a] = None
                        /\ \A g \in Handlers : request'[g] # None => a \notin request'[g].left
      BY <2>4 DEF LateIsUnsent, Due, InBox
    <3>1. a \in Due(d) /\ a \notin todo[k] /\ Home[a] = d
      BY <2>2, <2>4 DEF Due, InBox, AtHome
    <3>2. Straight(a)
      BY PhotosMove DEF Straight, NothingPutOff
    <3>3. ledger[a] = None /\ \A g \in Handlers : request[g] # None => a \notin request[g].left
      BY <2>1, <2>2, <3>1, <3>2 DEF LateIsUnsent, Absorbing
    <3>4. ledger'[a] = None
      BY <2>2, <3>1, <3>3, UnsentStays
    <3>5. ASSUME NEW g \in Handlers, request'[g] # None
          PROVE  a \notin request'[g].left
      <4>1. request[g] # None /\ request'[g].left \subseteq request[g].left
        BY <1>3, <3>5 DEF Inv, TypeOK, Request
      <4> QED
        BY <3>3, <4>1
    <3> QED
      BY <3>4, <3>5
  <2>9. SnapshotKept(k)' /\ SweepSettles(k)'
    BY <2>4 DEF SnapshotKept, SweepSettles
  <2>10. PageInHand(k)' /\ CopyStays(k)'
    BY <1>3, <2>1, NoPage, CopyStaysStep
  <2> QED
    BY <2>5, <2>6, <2>7, <2>8, <2>9, <2>10 DEF InHand
<1> QED
  BY <1>4, <1>5

\* The answer arrives: each op of the request got its own.
LEMMA RespondInHand ==
    ASSUME OneWorks, Inv, Ordered, [Next]_vars, NEW k \in Cycles, NEW h \in Handlers,
           request[h] # None, request[h].by = k, Respond(h)
    PROVE  InHand(k)'
<1> DEFINE d == On[k]
<1>1. /\ request[h].left = {} /\ k # None
      /\ pc' = [pc EXCEPT ![k] = "absorb"]
      /\ request' = [request EXCEPT ![h] = None]
      /\ UNCHANGED <<rows, ledger, box, past, todo, answer, page, copy>>
  BY DEF Respond, server, device
<1>2. /\ pc[k] = "wait" /\ pc'[k] = "absorb"
      /\ \A id \in todo[k] : id \in OpIds /\ answer[k][id] # None
  BY <1>1 DEF Inv, TypeOK, RequestOK
<1>3. /\ Exact(k) /\ WholeOrNot(k) /\ TodoIsDue(k) /\ LateIsUnsent(k)
  BY DEF Ordered, InHand
<1>4. Exact(k)'
  BY <1>1, StaysExact
<1>5. WholeOrNot(k)'
  BY <1>1, <1>2, <1>3 DEF WholeOrNot, Absorbing
<1>6. Due(d)' = Due(d)
  BY <1>1 DEF Due, InBox
<1>7. TodoIsDue(k)'
  BY <1>1, <1>2, <1>3, <1>6 DEF TodoIsDue
<1>8. LateIsUnsent(k)'
  <2> SUFFICES ASSUME NEW a \in OpIds, a \in Due(d)', a \notin todo'[k], Straight(a)'
               PROVE  /\ ledger'[a] = None
                      /\ \A g \in Handlers : request'[g] # None => a \notin request'[g].left
    BY DEF LateIsUnsent, Due, InBox
  <2>1. a \in Due(d) /\ a \notin todo[k] /\ Straight(a)
    BY <1>1, <1>6 DEF Straight, NothingPutOff
  <2>2. ledger[a] = None /\ \A g \in Handlers : request[g] # None => a \notin request[g].left
    BY <1>2, <1>3, <2>1 DEF LateIsUnsent, Absorbing
  <2>3. \A g \in Handlers : request'[g] # None => request'[g] = request[g]
    BY <1>1 DEF Inv, TypeOK
  <2> QED
    BY <1>1, <2>2, <2>3
<1>9. SnapshotKept(k)' /\ SweepSettles(k)'
  BY <1>2 DEF SnapshotKept, SweepSettles
<1>10. PageInHand(k)' /\ CopyStays(k)'
  BY <1>1, <1>2, NoPage, CopyStaysStep
<1> QED
  BY <1>4, <1>5, <1>7, <1>8, <1>9, <1>10 DEF InHand

LEMMA InHandStep ==
    ASSUME OneWorks, Inv, Ordered, [Next]_vars, NEW k \in Cycles
    PROVE  InHand(k)'
<1>1. CASE Still(k)
  BY <1>1, StillInHand
<1>2. CASE SyncOps(k)
  <2>1. CASE Due(On[k]) = {}
    BY <1>2, <2>1, RestMoves
  <2>2. CASE Due(On[k]) # {}
    BY <1>2, <2>2, SendMoves
  <2> QED
    BY <2>1, <2>2
<1>3. ASSUME NEW h \in Handlers, request[h] # None, request[h].by = k,
             Serve(h) \/ OpFails(h) \/ Respond(h)
      PROVE  InHand(k)'
  BY <1>3, ServeInHand, RespondInHand
<1>4. CASE AbsorbResult(k) \/ UpdateOp(k) \/ Sweep(k)
  BY <1>4, AbsorbInHand
<1>5. CASE \/ Begin(k) \/ ListRows(k) \/ ListConflicts(k) \/ ReadLocal(k)
           \/ NetworkFails(k) \/ PullFails(k) \/ Reload(On[k])
  BY <1>5, RestMoves
<1>6. CASE \E i \in Inspections : MergeSnapshot(k, i)
  BY <1>6, RestMoves
<1>7. CASE RequestFails(k)
  BY <1>7, FailMoves
<1> QED
  BY <1>1, <1>2, <1>3, <1>4, <1>5, <1>6, <1>7, CycleCases

\* A handler's cycle waits for what the handler has left.
LEMMA LeftIsTodoStep ==
    ASSUME Inv, Ordered, [Next]_vars
    PROVE  LeftIsTodo'
<1> SUFFICES ASSUME NEW h \in Handlers, request'[h] # None, request'[h].by # None
             PROVE  request'[h].left \subseteq todo'[request'[h].by]
  BY DEF LeftIsTodo
<1>1. CASE \E k \in Cycles : /\ SyncOps(k) /\ request'[h].by = k
                             /\ request'[h].left = Due(On[k]) /\ todo'[k] = Due(On[k])
  BY <1>1
<1>2. CASE /\ request[h] # None /\ request'[h].left \subseteq request[h].left
           /\ request'[h].by \in {None, request[h].by}
  <2>1. PICK k : k = request[h].by
    OBVIOUS
  <2>2. request'[h].by = k /\ k # None /\ k \in Cycles
    BY <1>2, <2>1 DEF Inv, TypeOK, Request
  <2>3. request[h].left \subseteq todo[k]
    BY <1>2, <2>1, <2>2 DEF Ordered, LeftIsTodo
  <2>4. pc[k] = "wait" /\ pc'[k] = "wait"
    <3>1. RequestOK(h) /\ RequestOK(h)'
      BY NextInv DEF Inv
    <3> QED
      BY <1>2, <2>1, <2>2, <3>1 DEF RequestOK
  <2>5. pc \in [Cycles -> Places]
    BY DEF Inv, TypeOK
  <2>6. todo'[k] = todo[k]
    <3>1. CASE Still(k)
      BY <3>1 DEF Still
    <3>2. CASE \/ Begin(k) \/ SyncOps(k) \/ ListRows(k) \/ ListConflicts(k) \/ ReadLocal(k)
               \/ \E i \in Inspections : MergeSnapshot(k, i)
               \/ AbsorbResult(k) \/ UpdateOp(k) \/ Sweep(k) \/ PullFails(k)
      <4>1. pc[k] # "wait"
        BY <3>2 DEF Begin, SyncOps, ListRows, ListConflicts, ReadLocal, MergeSnapshot,
           AbsorbResult, UpdateOp, Sweep, PullFails
      <4> QED
        BY <2>4, <4>1
    <3>3. CASE NetworkFails(k) \/ RequestFails(k) \/ Reload(On[k])
      <4>1. pc'[k] # "wait"
        <5>1. CASE NetworkFails(k) \/ RequestFails(k)
          BY <2>2, <2>5, <5>1 DEF NetworkFails, RequestFails
        <5>2. CASE Reload(On[k])
          BY <2>2, <5>2 DEF Reload
        <5> QED
          BY <3>3, <5>1, <5>2
      <4> QED
        BY <2>4, <4>1
    <3>4. ASSUME NEW g \in Handlers, Serve(g) \/ OpFails(g)
          PROVE  todo' = todo
      BY <3>4, Served
    <3>5. ASSUME NEW g \in Handlers, Respond(g)
          PROVE  todo' = todo
      BY <3>5 DEF Respond
    <3> QED
      BY <2>2, <3>1, <3>2, <3>3, <3>4, <3>5, CycleCases
  <2> QED
    BY <1>2, <2>2, <2>3, <2>6
<1> QED
  BY <1>1, <1>2, RequestMoves

-----------------------------------------------------------------------------
(* The invariant *)

LEMMA InitOrdered == Init => Ordered
<1> SUFFICES ASSUME Init
             PROVE  Ordered
  OBVIOUS
<1>1. /\ rows = SeedRows /\ ledger = [id \in OpIds |-> None] /\ waiting = {}
      /\ box = [d \in Devices |-> Nothing(OpIds)] /\ at = [id \in OpIds |-> 0]
      /\ writing = [d \in Devices |-> {}]
      /\ pc = [k \in Cycles |-> "idle"] /\ todo = [k \in Cycles |-> {}]
      /\ request = Nothing(Handlers)
      /\ answer = [k \in Cycles |-> Nothing(OpIds)]
      /\ page = [k \in Cycles |-> Nothing(Inspections)]
      /\ copy = [k \in Cycles |-> Nothing(OpIds)]
  BY SameRules DEF Init, Server!Init
<1>2. Minted = {}
  BY <1>1 DEF Minted
<1>3. \A id \in OpIds : ledger[id] = None /\ ~ HasEffect(id)
  BY <1>1 DEF HasEffect
<1>4. \A d \in Devices : \A id \in OpIds : box[d][id] = None
  BY <1>1 DEF Nothing
<1>5. RevsGrow /\ EntriesTrue /\ ConflictsLast /\ DecidedIsMinted
  BY <1>3 DEF RevsGrow, EntriesTrue, ConflictsLast, DecidedIsMinted
<1>6. WrittenByLedgered
  BY <1>1 DEF WrittenByLedgered, SeedRows, SeedRow
<1>7. PhotosCounted
  BY <1>1 DEF PhotosCounted
<1>8. StampsDistinct /\ GoneIsDecided
  BY <1>2 DEF StampsDistinct, GoneIsDecided
<1>9. AtHome
  BY <1>1, <1>4 DEF AtHome, InBox
<1>10. LeftIsTodo
  BY <1>1 DEF LeftIsTodo, Nothing
<1>11. ASSUME NEW k \in Cycles
       PROVE  InHand(k)
  <2>1. /\ pc[k] = "idle" /\ todo[k] = {} /\ page[k] = Nothing(Inspections)
        /\ copy[k] = Nothing(OpIds)
        /\ \A id \in OpIds : answer[k][id] = None /\ copy[k][id] = None
    BY <1>1 DEF Nothing
  <2>2. None # "applied"
    BY RecordsAssumption DEF States
  <2> QED
    BY <2>1, <2>2 DEF InHand, Exact, WholeOrNot, TodoIsDue, LateIsUnsent, SnapshotKept,
       SweepSettles, CopyStays, PageInHand, Absorbing
<1>12. LateIsLater /\ PageIsNew /\ AbsorbedIsShown
  BY <1>3 DEF LateIsLater, PageIsNew, AbsorbedIsShown
<1>13. ParkedFields
  BY <1>4 DEF ParkedFields, InBox
<1> QED
  BY <1>5, <1>6, <1>7, <1>8, <1>9, <1>10, <1>11, <1>12, <1>13 DEF Ordered

\* Cycles of a device come to work at the same time only by overlapping.
LEMMA AloneStep ==
    ASSUME Inv, Alone, [Next]_vars
    PROVE  Alone'
<1> SUFFICES ASSUME NoOverlap', NEW j \in Cycles, NEW k \in Cycles, On[j] = On[k],
                    pc'[j] # "idle", pc'[k] # "idle", j # k
             PROVE  FALSE
  BY DEF Alone, OneWorks
<1>1. OneWorks
  BY PhotosMove DEF Alone
<1>2. pc \in [Cycles -> Places] /\ past \in Past
  BY DEF Inv, TypeOK
<1>3. ASSUME NEW n \in Cycles, pc'[n] # "idle"
      PROVE  pc[n] # "idle" \/ Begin(n)
  <2>1. CASE Still(n)
    BY <1>3, <2>1 DEF Still
  <2>2. CASE \/ SyncOps(n) \/ ListRows(n) \/ ListConflicts(n) \/ ReadLocal(n)
             \/ \E i \in Inspections : MergeSnapshot(n, i)
             \/ AbsorbResult(n) \/ UpdateOp(n) \/ Sweep(n)
             \/ NetworkFails(n) \/ RequestFails(n) \/ PullFails(n)
    BY <2>2 DEF SyncOps, ListRows, ListConflicts, ReadLocal, MergeSnapshot, AbsorbResult,
       UpdateOp, Sweep, NetworkFails, RequestFails, PullFails
  <2>3. CASE Reload(On[n])
    BY <1>3, <2>3 DEF Reload
  <2>4. ASSUME NEW h \in Handlers, Serve(h) \/ OpFails(h)
        PROVE  pc[n] # "idle"
    BY <1>3, <2>4, Served
  <2>5. ASSUME NEW h \in Handlers, request[h] # None, request[h].by = n, Respond(h)
        PROVE  pc[n] # "idle"
    BY <2>5 DEF Respond, Inv, RequestOK
  <2> QED
    BY <2>1, <2>2, <2>3, <2>4, <2>5, CycleCases
<1>4. ASSUME NEW m \in Cycles, NEW n \in Cycles, On[m] = On[n], m # n, Begin(m), pc'[n] # "idle"
      PROVE  FALSE
  <2>1. pc[n] # "idle"
    BY <1>2, <1>4 DEF Begin
  <2>2. Working(On[m])
    BY <1>4, <2>1 DEF Working
  <2> QED
    BY <1>2, <1>4, <2>2, BeginAdds DEF NoOverlap
<1> QED
  BY <1>1, <1>3, <1>4 DEF OneWorks

LEMMA NextOrdered ==
    ASSUME OneWorks, Inv, Ordered, [Next]_vars
    PROVE  Ordered'
<1>1. /\ RevsGrow /\ EntriesTrue /\ WrittenByLedgered /\ PhotosCounted /\ ConflictsLast
      /\ StampsDistinct /\ DecidedIsMinted /\ AtHome
  BY DEF Ordered
<1>2. EntriesTrue'
  BY <1>1, EntriesTrueStep
<1>3. RevsGrow' /\ WrittenByLedgered' /\ PhotosCounted' /\ ConflictsLast'
  BY <1>1, <1>2, RevsGrowStep, WrittenByLedgeredStep, PhotosCountedStep, ConflictsLastStep
<1>4. StampsDistinct' /\ DecidedIsMinted' /\ AtHome'
  BY <1>1, StampsStep, DecidedIsMintedStep, AtHomeStep
<1>5. GoneIsDecided' /\ ParkedFields' /\ LeftIsTodo'
  BY GoneIsDecidedStep, ParkedFieldsStep, LeftIsTodoStep
<1>6. \A k \in Cycles : InHand(k)'
  BY InHandStep
<1>7. LateIsLater' /\ PageIsNew' /\ AbsorbedIsShown'
  BY <1>2, LateIsLaterStep, PageIsNewStep, AbsorbedIsShownStep
<1> QED
  BY <1>2, <1>3, <1>4, <1>5, <1>6, <1>7 DEF Ordered

\* While no cycles have overlapped, what happens to a device is in order.
OrderInv == Alone /\ (NoOverlap => Ordered)

LEMMA InitOrder == Init => OrderInv
<1> SUFFICES ASSUME Init
             PROVE  OneWorks
  BY InitOrdered DEF OrderInv, Alone
<1> QED
  BY DEF Init, OneWorks

LEMMA NextOrder == Inv /\ OrderInv /\ [Next]_vars => OrderInv'
<1> SUFFICES ASSUME Inv, OrderInv, [Next]_vars
             PROVE  OrderInv'
  OBVIOUS
<1>1. Alone'
  BY AloneStep DEF OrderInv
<1>2. ASSUME NoOverlap'
      PROVE  Ordered'
  <2>1. NoOverlap
    BY <1>2, PhotosMove
  <2> QED
    BY <2>1, NextOrdered DEF OrderInv, Alone
<1> QED
  BY <1>1, <1>2 DEF OrderInv

LEMMA OrderedShows == Inv /\ OrderInv => AppliedIsShown
<1> SUFFICES ASSUME Inv, Ordered, NothingPutOff, EffectsInOrder,
                    NEW d \in Devices, NEW id \in Minted, Home[id] = d, HasEffect(id),
                    \/ box[d][id] = None /\ id \notin past.discarded
                    \/ box[d][id] # None /\ box[d][id].state = "applied"
             PROVE  /\ snap[d][OpOf[id].insp] # None
                    /\ snap[d][OpOf[id].insp].rev >= ledger[id].snap.rev
  BY DEF AppliedIsShown, OrderInv
<1> DEFINE s == snap[d][OpOf[id].insp]
<1>1. id \in OpIds /\ OpOf[id].insp \in Inspections
  BY PayloadType DEF Minted
<1>2. Absorbed(d, id)
  BY DEF Absorbed
<1>3. s # None /\ Rev(id) <= s.rev
  BY <1>1, <1>2 DEF Ordered, AbsorbedIsShown
<1>4. s.rev \in Nat /\ Rev(id) \in Nat
  <2>1. /\ s \in Row \cup {None} /\ ledger[id] \in Entries \cup {None}
    BY <1>1, SameRules DEF Inv, TypeOK, Server!TypeOK
  <2> HIDE DEF s
  <2> QED
    BY <1>3, <2>1 DEF Row, Entries, HasEffect, Rev
<1> QED
  BY <1>3, <1>4 DEF Rev

-----------------------------------------------------------------------------

\* As long as cycles do not overlap, a device never shows an inspection older
\* than an op of its own that it shows as saved, or has pruned, made it: the
\* card does not fall back.
THEOREM ShownSafety == Spec => []AppliedIsShown
<1>1. Init => Inv /\ OrderInv
  BY InitInv, InitOrder
<1>2. Inv /\ OrderInv /\ [Next]_vars => Inv' /\ OrderInv'
  BY NextInv, NextOrder
<1>3. Inv /\ OrderInv => AppliedIsShown
  BY OrderedShows
<1> QED
  BY <1>1, <1>2, <1>3, PTL DEF Spec

\* As long as cycles do not overlap, a parked op is not let go before a choice
\* for each of its fields has taken effect after it.
THEOREM ChoiceSafety == Spec => ParkedUntilChosen
<1>1. Init => Inv /\ OrderInv
  BY InitInv, InitOrder
<1>2. Inv /\ OrderInv /\ [Next]_vars => Inv' /\ OrderInv'
  BY NextInv, NextOrder
<1>3. Inv /\ OrderInv /\ [Next]_vars => [LeavesBySettlement]_vars
  BY ChoiceStep DEF OrderInv
<1> QED
  BY <1>1, <1>2, <1>3, PTL DEF Spec, ParkedUntilChosen
=============================================================================
