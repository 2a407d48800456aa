------------------------ MODULE SyncServerRefinement ------------------------
(***************************************************************************)
(* SyncServer implements AtomicSync, for every value of the constants: the *)
(* handlers' transactions, whatever they interleave with and wherever they *)
(* fail, amount to operations that take effect one at a time, each decided *)
(* against the state it meets.  The state of AtomicSync is the committed   *)
(* part of the state of SyncServer.                                        *)
(***************************************************************************)
EXTENDS SyncServerSteps

\* AtomicSync decides by the same rules; as an instance it has its own copy
\* of their definitions.
LEMMA SameRules ==
    /\ Atomic!SeedRows = SeedRows
    /\ Atomic!LedgeredStatus = LedgeredStatus
    /\ \A id : Atomic!Malformed(id) <=> Malformed(id)
    /\ \A u, o : Atomic!Entry(u, o) = Entry(u, o)
    /\ \A u, id, row, w : Atomic!Outcome(u, id, row, w) = Outcome(u, id, row, w)
<1>1. /\ Atomic!SeedRows = SeedRows
      /\ Atomic!LedgeredStatus = LedgeredStatus
      /\ \A id : Atomic!Malformed(id) <=> Malformed(id)
      /\ \A u, o : Atomic!Entry(u, o) = Entry(u, o)
  BY DEF Atomic!SeedRows, SeedRows, Atomic!SeedRow, SeedRow, Atomic!LedgeredStatus,
         LedgeredStatus, Atomic!Malformed, Malformed, Atomic!Entry, Entry
<1>2. \A s, row : Atomic!Reply(s, row) = Reply(s, row)
  BY DEF Atomic!Reply, Reply
<1>3. \A changes, creating :
         Atomic!ValidateChanges(changes, creating) <=> ValidateChanges(changes, creating)
  BY DEF Atomic!ValidateChanges, ValidateChanges
<1>4. \A id, row, created : Atomic!Merge(id, row, created) = Merge(id, row, created)
  BY DEF Atomic!Merge, Merge, Atomic!FieldsWith, FieldsWith, Atomic!ClassifyField,
         ClassifyField, Atomic!RecordConflict, RecordConflict
<1>5. \A u, id : Atomic!CreateInspection(u, id) = CreateInspection(u, id)
  BY DEF Atomic!CreateInspection, CreateInspection
<1>6. \A id, row, created, w :
         Atomic!ApplyUpsert(id, row, created, w) = ApplyUpsert(id, row, created, w)
  <2>1. \A id, row : Atomic!CannotRefresh(id, row) <=> CannotRefresh(id, row)
    BY DEF Atomic!CannotRefresh, CannotRefresh, Atomic!FieldsWith, FieldsWith,
           Atomic!ClassifyField, ClassifyField
  <2> QED
    BY <1>2, <1>4, <2>1
       DEF Atomic!ApplyUpsert, ApplyUpsert, Atomic!MergeOrFail, MergeOrFail
<1>7. \A u, id, row : Atomic!ApplyResolve(u, id, row) = ApplyResolve(u, id, row)
  BY <1>2 DEF Atomic!ApplyResolve, ApplyResolve
<1>8. \A u, id : Atomic!ApplyToAbsent(u, id) = ApplyToAbsent(u, id)
  BY <1>2, <1>3, <1>5, <1>6 DEF Atomic!ApplyToAbsent, ApplyToAbsent
<1>9. \A u, id, row, w : Atomic!ApplyToRow(u, id, row, w) = ApplyToRow(u, id, row, w)
  BY <1>2, <1>3, <1>6 DEF Atomic!ApplyToRow, ApplyToRow
<1> QED
  BY <1>1, <1>7, <1>8, <1>9 DEF Atomic!Outcome, Outcome

\* A commit is one operation taking effect at once: the row it writes is the
\* outcome on the row it replaces (DecisionIsFresh).  If it writes none it
\* may have found no inspection although there is one by now.
LEMMA CommitIsAtomic ==
    ASSUME Inv, NEW c \in Conns, Writes(c), waiting' = waiting
    PROVE  \E u \in Users, id \in OpIds :
              Atomic!Apply(u, id) \/ Atomic!ApplyToNothing(u, id)
<1> DEFINE u  == who[c]
           id == Op(c)
           i  == Target(c)
<1>1. /\ TypeOK /\ MoreOps(c) /\ u \in Users /\ ~ Malformed(id)
      /\ ledger[id] = None /\ out[c].status \in LedgeredStatus
      /\ out[c] = Outcome(u, id, IF out[c].row = None THEN None ELSE rows[i], i \in waiting)
      /\ ledger' = [ledger EXCEPT ![id] = Entry(u, out[c])]
  BY DEF Inv, Writes, LocksHeld, NoLedgerClash, DecisionIsFresh
<1>2. id \in OpIds /\ i \in Inspections /\ i = OpOf[id].insp
  BY <1>1, OpType DEF Target
<1>3. CASE out[c].row = None
  <2>1. out[c] = Outcome(u, id, None, FALSE)
    <3>1. out[c] = Outcome(u, id, None, i \in waiting)
      BY <1>1, <1>3
    <3> QED
      BY <3>1 DEF Outcome
  <2>2. rows' = rows
    BY <1>3 DEF Writes
  <2>3. Atomic!ApplyToNothing(u, id)
    BY <1>1, <1>3, <2>1, <2>2, SameRules DEF Atomic!ApplyToNothing
  <2> QED
    BY <1>1, <1>2, <2>3
<1>4. CASE out[c].row # None
  <2>1. out[c] = Outcome(u, id, rows[i], i \in waiting)
    BY <1>1, <1>4
  <2>2. rows' = [rows EXCEPT ![i] = out[c].row]
    BY <1>4 DEF Writes
  <2>3. Atomic!Apply(u, id)
    <3> HIDE DEF u, id, i
    <3> QED
      BY <1>1, <1>2, <2>1, <2>2, SameRules DEF Atomic!Apply
  <2> QED
    BY <1>1, <1>2, <2>3
<1> QED
  BY <1>3, <1>4

\* A handler's step leaves the committed state as it is, or commits.
LEMMA HandlerStep ==
    ASSUME Inv, NEW c \in Conns, Handle(c) \/ CommitUnacked(c) \/ Fail(c) \/ Abandon(c)
    PROVE  (UNCHANGED store \/ Writes(c)) /\ waiting' = waiting
<1>1. ASSUME NEW s, CommitAnd(c, s)
      PROVE  Writes(c) /\ waiting' = waiting
  BY <1>1 DEF CommitAnd, Writes, Answer, Inv, NoLedgerClash
<1> QED
  BY <1>1 DEF Handle, Respond, RejectMalformed, LockOp, Replay, FirstDelivery, LoadRow, Decide,
     Create, Commit, CommitUnacked, Fail, Abandon, Leave, Answer

\* Concurrent transactions implement operations that take effect at once:
\* the committed rows, the ledger and the incomplete attachments of
\* POST /api/sync change as AtomicSync says, and in no other way.
THEOREM Refinement == Spec => ImplementsAtomicSync
<1>1. Init => Atomic!Init
  BY SameRules DEF Init, Atomic!Init
<1>2. Inv /\ [Next]_vars => [Atomic!Next]_(Atomic!vars)
  <2> SUFFICES ASSUME Inv, [Next]_vars
               PROVE  Atomic!Next \/ UNCHANGED <<rows, ledger, waiting>>
    BY DEF Atomic!vars
  <2>1. ASSUME NEW c \in Conns, Handle(c) \/ CommitUnacked(c) \/ Fail(c) \/ Abandon(c)
        PROVE  Atomic!Next \/ UNCHANGED <<rows, ledger, waiting>>
    <3>1. CASE UNCHANGED store
      BY <2>1, <3>1, HandlerStep DEF store
    <3>2. CASE Writes(c)
      <4>1. waiting' = waiting
        BY <2>1, HandlerStep
      <4> QED
        BY <3>2, <4>1, CommitIsAtomic DEF Atomic!Next
    <3> QED
      BY <2>1, <3>1, <3>2, HandlerStep
  <2>2. ASSUME NEW c \in Conns, NEW u \in Users, NEW b \in Batches, Receive(c, u, b)
        PROVE  UNCHANGED <<rows, ledger, waiting>>
    BY <2>2 DEF Receive, store
  <2>3. ASSUME NEW i \in Inspections, OpenAttachment(i)
        PROVE  Atomic!Next
    <3>1. Atomic!OpenAttachment(i)
      BY <2>3 DEF OpenAttachment, Atomic!OpenAttachment, store
    <3> QED
      BY <3>1 DEF Atomic!Next
  <2>4. ASSUME NEW i \in Inspections, CompleteAttachments(i)
        PROVE  Atomic!Next
    <3>1. Atomic!CompleteAttachments(i)
      BY <2>4 DEF CompleteAttachments, Atomic!CompleteAttachments, store
    <3> QED
      BY <3>1 DEF Atomic!Next
  <2>5. CASE UNCHANGED vars
    BY <2>5 DEF vars
  <2> QED
    BY <2>1, <2>2, <2>3, <2>4, <2>5 DEF Next
<1> QED
  BY <1>1, <1>2, Invariance, PTL DEF Spec, ImplementsAtomicSync, Atomic!Spec
=============================================================================
