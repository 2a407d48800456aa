----------------------------- MODULE SyncServer -----------------------------
(***************************************************************************)
(* POST /api/sync as it runs: one handler per connection, each operation   *)
(* of a request in a database transaction of its own, many handlers at     *)
(* once.  A transaction takes the advisory lock of its op id, looks in the *)
(* ledger, loads the inspection FOR UPDATE, decides, and commits rows and  *)
(* ledger entry together.                                                  *)
(*                                                                         *)
(* PostgreSQL (external, READ COMMITTED) is modelled by what the handlers  *)
(* use of it: advisory locks keyed by the hash of an op id, row locks that *)
(* a SELECT ... FOR UPDATE takes only on rows that exist, unique keys, and *)
(* locks that end with the transaction.  Any statement may fail, a commit  *)
(* may succeed without its answer arriving, and a connection or the whole  *)
(* server may die at any step, which rolls its transaction back.           *)
(***************************************************************************)
EXTENDS SyncRules, Sequences

CONSTANTS
    Conns,    \* handlers that may run at the same time
    Batches,  \* the requests clients send: sequences of op ids
    Keys,     \* advisory lock keys
    Hash      \* hashtext: the lock key of an op id; two ids may share one

ASSUME BatchesAssumption == Batches \subseteq Seq(OpIds)
ASSUME HashAssumption    == Hash \in [OpIds -> Keys]
ASSUME ConnsAssumption   == None \notin Conns

VARIABLES
    rows,     \* inspection -> its committed record, or None
    ledger,   \* op id -> its committed entry in processed_ops, or None
    waiting,  \* inspections with an attachment that is not completed
    opLock,   \* advisory lock key -> the handler that holds it, or None
    rowLock,  \* inspection -> the handler that holds its row, or None
    pc,       \* handler -> where it is
    who,      \* handler -> the user of its token
    batch,    \* handler -> the op ids of its request
    results,  \* handler -> the statuses it has so far
    seen,     \* handler -> the row its transaction loaded, or None
    out       \* handler -> the outcome its transaction is about to commit

store   == <<rows, ledger>>
locks   == <<opLock, rowLock>>
request == <<who, batch>>
txn     == <<seen, out>>
vars    == <<rows, ledger, waiting, opLock, rowLock, pc, who, batch, results, seen, out>>

Places == {"idle", "next", "ledger", "load", "decide", "commit"}

NoOutcome == Reply("error", None)

Init ==
    /\ rows = SeedRows
    /\ ledger = [id \in OpIds |-> None]
    /\ waiting = {}
    /\ opLock = [k \in Keys |-> None]
    /\ rowLock = [i \in Inspections |-> None]
    /\ pc = [c \in Conns |-> "idle"]
    /\ who = [c \in Conns |-> None]
    /\ batch = [c \in Conns |-> << >>]
    /\ results = [c \in Conns |-> << >>]
    /\ seen = [c \in Conns |-> None]
    /\ out = [c \in Conns |-> NoOutcome]

-----------------------------------------------------------------------------

MoreOps(c) == Len(results[c]) < Len(batch[c])
Op(c)      == batch[c][Len(results[c]) + 1]   \* the operation in hand
Target(c)  == OpOf[Op(c)].insp

\* Mutant: the advisory lock outlives its transaction.
ReleaseRowOnly(c) ==
    /\ rowLock' = [i \in Inspections |-> IF rowLock[i] = c THEN None ELSE rowLock[i]]
    /\ seen' = [seen EXCEPT ![c] = None]
    /\ out' = [out EXCEPT ![c] = NoOutcome]
    /\ UNCHANGED opLock

\* The transaction of c ends, committed or rolled back: its locks go.
Release(c) ==
    /\ opLock' = [k \in Keys |-> IF opLock[k] = c THEN None ELSE opLock[k]]
    /\ rowLock' = [i \in Inspections |-> IF rowLock[i] = c THEN None ELSE rowLock[i]]
    /\ seen' = [seen EXCEPT ![c] = None]
    /\ out' = [out EXCEPT ![c] = NoOutcome]

\* applyOp returns this status; the loop goes on to the next operation.
Answer(c, status) ==
    /\ results' = [results EXCEPT ![c] = Append(@, status)]
    /\ pc' = [pc EXCEPT ![c] = "next"]
    /\ Release(c)
    /\ UNCHANGED <<request, waiting>>

\* The handler is gone, after answering or not.
Leave(c) ==
    /\ pc' = [pc EXCEPT ![c] = "idle"]
    /\ who' = [who EXCEPT ![c] = None]
    /\ batch' = [batch EXCEPT ![c] = << >>]
    /\ results' = [results EXCEPT ![c] = << >>]
    /\ Release(c)
    /\ UNCHANGED <<store, waiting>>

-----------------------------------------------------------------------------
(* The handler *)

Receive(c, u, b) ==
    /\ pc[c] = "idle"
    /\ pc' = [pc EXCEPT ![c] = "next"]
    /\ who' = [who EXCEPT ![c] = u]
    /\ batch' = [batch EXCEPT ![c] = b]
    /\ UNCHANGED <<store, waiting, locks, results, txn>>

Respond(c) ==
    /\ pc[c] = "next"
    /\ ~ MoreOps(c)
    /\ Leave(c)

RejectMalformed(c) ==
    /\ pc[c] = "next"
    /\ MoreOps(c)
    /\ Malformed(Op(c))
    /\ Answer(c, "invalid")
    /\ UNCHANGED store

\* Mutant: deliveries of one op id are not serialized.
LockOpAtOnce(c) ==
    /\ pc[c] = "next"
    /\ MoreOps(c)
    /\ ~ Malformed(Op(c))
    /\ opLock' = [opLock EXCEPT ![Hash[Op(c)]] = c]
    /\ pc' = [pc EXCEPT ![c] = "ledger"]
    /\ UNCHANGED <<store, waiting, rowLock, request, results, txn>>

\* pg_advisory_xact_lock: one transaction per op id at a time.
LockOp(c) ==
    /\ pc[c] = "next"
    /\ MoreOps(c)
    /\ ~ Malformed(Op(c))
    /\ opLock[Hash[Op(c)]] = None
    /\ opLock' = [opLock EXCEPT ![Hash[Op(c)]] = c]
    /\ pc' = [pc EXCEPT ![c] = "ledger"]
    /\ UNCHANGED <<store, waiting, rowLock, request, results, txn>>

\* Mutant: the ledger is searched by op id alone.
ReplayToAnyUser(c) ==
    /\ pc[c] = "ledger"
    /\ ledger[Op(c)] # None
    /\ Answer(c, MarkDuplicate(ledger[Op(c)].status))
    /\ UNCHANGED store

\* The op id is in the ledger: replay its outcome, or refuse another user's.
Replay(c) ==
    /\ pc[c] = "ledger"
    /\ ledger[Op(c)] # None
    /\ Answer(c, IF ledger[Op(c)].user = who[c]
                 THEN MarkDuplicate(ledger[Op(c)].status)
                 ELSE "invalid")
    /\ UNCHANGED store

FirstDelivery(c) ==
    /\ pc[c] = "ledger"
    /\ ledger[Op(c)] = None
    /\ pc' = [pc EXCEPT ![c] = "load"]
    /\ UNCHANGED <<store, waiting, locks, request, results, txn>>

\* Mutant: SELECT without FOR UPDATE.
LoadRowUnlocked(c) ==
    /\ pc[c] = "load"
    /\ seen' = [seen EXCEPT ![c] = rows[Target(c)]]
    /\ pc' = [pc EXCEPT ![c] = "decide"]
    /\ UNCHANGED <<store, waiting, locks, request, results, out>>

\* SELECT ... FOR UPDATE: waits for the row, unless there is no row to lock.
\* (applyResolve refuses an unknown field before it loads the row; here it
\* waits for the row first, and refuses then.)
LoadRow(c) ==
    /\ pc[c] = "load"
    /\ \/ /\ rows[Target(c)] = None
          /\ UNCHANGED rowLock
       \/ /\ rows[Target(c)] # None
          /\ rowLock[Target(c)] = None
          /\ rowLock' = [rowLock EXCEPT ![Target(c)] = c]
    /\ seen' = [seen EXCEPT ![c] = rows[Target(c)]]
    /\ pc' = [pc EXCEPT ![c] = "decide"]
    /\ UNCHANGED <<store, waiting, opLock, request, results, out>>

Decision(c) == Outcome(who[c], Op(c), seen[c], Target(c) \in waiting)
Creates(c)  == seen[c] = None /\ Decision(c).row # None

\* applyOpTx runs to its end without creating a row.  A status that is not
\* ledgered is answered at once, its transaction rolled back.
Decide(c) ==
    /\ pc[c] = "decide"
    /\ ~ Creates(c)
    /\ \/ /\ Decision(c).status \in LedgeredStatus
          /\ out' = [out EXCEPT ![c] = Decision(c)]
          /\ pc' = [pc EXCEPT ![c] = "commit"]
          /\ UNCHANGED <<store, waiting, locks, request, results, seen>>
       \/ /\ Decision(c).status \notin LedgeredStatus
          /\ Answer(c, Decision(c).status)
          /\ UNCHANGED store

\* Mutant: an upsert that does not notice the row was inserted meanwhile.
CreateOver(c) ==
    /\ pc[c] = "decide"
    /\ Creates(c)
    /\ rowLock[Target(c)] = None
    /\ rowLock' = [rowLock EXCEPT ![Target(c)] = c]
    /\ out' = [out EXCEPT ![c] = Decision(c)]
    /\ pc' = [pc EXCEPT ![c] = "commit"]
    /\ UNCHANGED <<store, waiting, opLock, request, results, seen>>

\* The INSERT of a new inspection waits for another transaction that inserts
\* the same id, and fails if that one has committed.
Create(c) ==
    /\ pc[c] = "decide"
    /\ Creates(c)
    /\ rowLock[Target(c)] = None
    /\ \/ /\ rows[Target(c)] = None
          /\ rowLock' = [rowLock EXCEPT ![Target(c)] = c]
          /\ out' = [out EXCEPT ![c] = Decision(c)]
          /\ pc' = [pc EXCEPT ![c] = "commit"]
          /\ UNCHANGED <<store, waiting, opLock, request, results, seen>>
       \/ /\ rows[Target(c)] # None
          /\ Answer(c, "error")
          /\ UNCHANGED store

\* Mutant: only clean merges enter the ledger.
CommitLedgerApplied(c, status) ==
    /\ pc[c] = "commit"
    /\ rows' = [rows EXCEPT ![Target(c)] = out[c].row]
    /\ ledger' = IF out[c].status = "conflict" THEN ledger
                 ELSE [ledger EXCEPT ![Op(c)] = Entry(who[c], out[c])]
    /\ Answer(c, status)

\* INSERT INTO processed_ops and COMMIT.  The answer is the outcome, or
\* "error" if the commit took effect and its acknowledgement was lost.
CommitAnd(c, status) ==
    /\ pc[c] = "commit"
    /\ IF ledger[Op(c)] # None
       THEN Answer(c, "error") /\ UNCHANGED store
       ELSE /\ rows' = IF out[c].row = None THEN rows
                       ELSE [rows EXCEPT ![Target(c)] = out[c].row]
            /\ ledger' = [ledger EXCEPT ![Op(c)] = Entry(who[c], out[c])]
            /\ Answer(c, status)

Commit(c)        == CommitAnd(c, out[c].status)
CommitUnacked(c) == CommitAnd(c, "error")

\* A statement of the transaction fails, BEGIN included.
Fail(c) ==
    /\ pc[c] # "idle"
    /\ MoreOps(c)
    /\ ~ Malformed(Op(c))
    /\ Answer(c, "error")
    /\ UNCHANGED store

\* The client goes away, which cancels the request's context, or the server
\* dies: what is not committed is rolled back and nothing is answered.
Abandon(c) ==
    /\ pc[c] # "idle"
    /\ Leave(c)

-----------------------------------------------------------------------------
(* The upload handlers, as far as the submit gate sees them *)

\* Mutant: no foreign key, hence no lock.
OpenAttachmentAtOnce(i) ==
    /\ rows[i] # None
    /\ waiting' = waiting \cup {i}
    /\ UNCHANGED <<store, locks, pc, request, results, txn>>

\* INSERT INTO attachments: its foreign key takes a share lock on the
\* inspection, which a transaction that holds the row FOR UPDATE excludes.
\* createUpload looked at the tombstone before, and a delete may overtake it.
OpenAttachment(i) ==
    /\ rows[i] # None
    /\ rowLock[i] = None
    /\ waiting' = waiting \cup {i}
    /\ UNCHANGED <<store, locks, pc, request, results, txn>>

\* The last incomplete attachment of an inspection is completed.
CompleteAttachments(i) ==
    /\ i \in waiting
    /\ waiting' = waiting \ {i}
    /\ UNCHANGED <<store, locks, pc, request, results, txn>>

-----------------------------------------------------------------------------

Handle(c) ==
    \/ Respond(c) \/ RejectMalformed(c) \/ LockOp(c) \/ Replay(c)
    \/ FirstDelivery(c) \/ LoadRow(c) \/ Decide(c) \/ Create(c) \/ Commit(c)

Next ==
    \/ \E c \in Conns :
          \/ \E u \in Users, b \in Batches : Receive(c, u, b)
          \/ Handle(c)
          \/ CommitUnacked(c) \/ Fail(c) \/ Abandon(c)
    \/ \E i \in Inspections : OpenAttachment(i) \/ CompleteAttachments(i)

Spec == Init /\ [][Next]_vars

\* A handler that can go on does, and PostgreSQL grants locks in the order
\* they were asked for.  Nothing makes a client send, a statement fail, or an
\* upload finish.
Fairness ==
    \A c \in Conns :
        /\ WF_vars(Handle(c))
        /\ SF_vars(LockOp(c)) /\ SF_vars(LoadRow(c)) /\ SF_vars(Create(c))

FairSpec == Spec /\ Fairness

-----------------------------------------------------------------------------
(* Invariants *)

\* Every variable has its type.
TypeOK ==
    /\ rows \in [Inspections -> Row \cup {None}]
    /\ ledger \in [OpIds -> Entries \cup {None}]
    /\ waiting \subseteq Inspections
    /\ opLock \in [Keys -> Conns \cup {None}]
    /\ rowLock \in [Inspections -> Conns \cup {None}]
    /\ pc \in [Conns -> Places]
    /\ who \in [Conns -> Users \cup {None}]
    /\ batch \in [Conns -> Seq(OpIds)]
    /\ results \in [Conns -> Seq(AnswerStatus)]
    /\ seen \in [Conns -> Row \cup {None}]
    /\ out \in [Conns -> [status : OutcomeStatus, row : Row \cup {None}]]

\* A handler's place agrees with its request, and its transaction holds the
\* locks its place presumes: the op id's from the ledger check to the end,
\* the inspection's from the load, or from the INSERT that creates it.
LocksHeld ==
    \A c \in Conns :
        /\ pc[c] # "idle" => who[c] \in Users /\ Len(results[c]) <= Len(batch[c])
        /\ pc[c] = "idle" => results[c] = << >>
        /\ pc[c] \in {"ledger", "load", "decide", "commit"} =>
              /\ MoreOps(c)
              /\ ~ Malformed(Op(c))
              /\ opLock[Hash[Op(c)]] = c
        /\ pc[c] = "decide" /\ seen[c] # None =>
              /\ rowLock[Target(c)] = c
              /\ seen[c] = rows[Target(c)]
        /\ pc[c] = "commit" =>
              /\ out[c].status \in LedgeredStatus
              /\ out[c].row # None => rowLock[Target(c)] = c

\* The advisory lock does what it is there for: an op id that was not in the
\* ledger when a transaction looked is still not in it when that transaction
\* commits, so no delivery of the op fails on the ledger's primary key and no
\* two concurrent deliveries both take effect.
NoLedgerClash ==
    \A c \in Conns : pc[c] \in {"load", "decide", "commit"} => ledger[Op(c)] = None

\* The outcome a transaction is about to commit is the one the committed
\* state dictates now, whatever other transactions did since it loaded the
\* row.  Only an outcome that writes no row may rest on a missing inspection
\* that has since been created.
DecisionIsFresh ==
    \A c \in Conns : pc[c] = "commit" =>
        out[c] = Outcome(who[c], Op(c),
                         IF out[c].row = None THEN None ELSE rows[Target(c)],
                         Target(c) \in waiting)

\* A status in the response stands for what the ledger says of that op id,
\* for this user, even while the rest of the request is under way: nothing
\* reported as done can be lost, replayed differently or belong to another.
AnswersAreDurable ==
    \A c \in Conns : \A j \in DOMAIN results[c] :
        LET id == batch[c][j]
            s  == results[c][j]
            mine == ledger[id] # None /\ ledger[id].user = who[c]
        IN  /\ s \in LedgeredStatus \ {"invalid"} => mine /\ ledger[id].status = s
            /\ s = "duplicate" => mine /\ MarkDuplicate(ledger[id].status) = "duplicate"
            /\ s = "invalid" =>
                  \/ Malformed(id)
                  \/ ledger[id] # None /\ (mine => ledger[id].status = "invalid")

\* The ledger backs the rows: every field was last written, and every open
\* conflict caused, by an operation on that inspection that the ledger holds
\* as its owner's, with a status that says so.
LineageIsLedgered ==
    \A i \in Inspections : rows[i] # None => \A f \in Editable :
        LET Backed(id, statuses) ==
                id = SeedOp \/ /\ OpOf[id].insp = i
                               /\ ledger[id] # None
                               /\ ledger[id].user = rows[i].owner
                               /\ ledger[id].status \in statuses
            cf == rows[i].conflict[f]
        IN  /\ Backed(rows[i].by[f], {"applied", "conflict"})
            /\ cf # None => /\ Backed(cf.clientOp, {"conflict"})
                            /\ Backed(cf.serverOp, {"applied", "conflict"})

-----------------------------------------------------------------------------
(* What a step may never do *)

NewOps == {id \in OpIds : ledger[id] = None /\ ledger'[id] # None}

OverwriteIsSeenOrChosen ==
    \A i \in Inspections, f \in Editable :
       rows[i] # None /\ rows'[i].val[f] # rows[i].val[f] =>
           \E id \in NewOps :
               /\ OpOf[id].insp = i
               /\ ledger'[id].user = rows[i].owner
               /\ \/ /\ OpOf[id].type = "upsert"
                     /\ f \in DOMAIN OpOf[id].changes
                     /\ OpOf[id].changes[f].base = rows[i].val[f]
                  \/ /\ OpOf[id].type = "resolve_conflict"
                     /\ OpOf[id].field = f
                     /\ rows[i].conflict[f] # None

\* "Server value is NEVER overwritten without a human choice": a committed
\* value changes only by an operation, recorded in the same step, of the
\* inspection's owner, that names the value it replaces as its base or
\* settles an open conflict of that field.
NoSilentOverwrite == [][OverwriteIsSeenOrChosen]_vars

ConflictEndsByChoice ==
    \A i \in Inspections, f \in Editable :
       /\ rows[i] # None
       /\ rows[i].conflict[f] # None
       /\ rows'[i].conflict[f] # rows[i].conflict[f]
       => /\ rows'[i].conflict[f] = None
          /\ \E id \in NewOps : /\ OpOf[id].insp = i
                                /\ OpOf[id].type = "resolve_conflict"
                                /\ OpOf[id].field = f
                                /\ ledger'[id].user = rows[i].owner
                                /\ rows'[i].val[f] = OpOf[id].value

\* An open conflict keeps both its sides, whatever becomes of the field and
\* whoever edits it, until a resolve_conflict of the owner for that field ends
\* it, and the field takes the value chosen in the same step.
ConflictsEndByChoice == [][ConflictEndsByChoice]_vars

TombstoneStays ==
    \A i \in Inspections :
       rows[i] # None /\ rows[i].deleted /\ rows'[i] # rows[i] =>
           /\ rows'[i].deleted
           /\ \E id \in NewOps : /\ OpOf[id].insp = i
                                 /\ OpOf[id].type = "resolve_conflict"

\* A tombstone is never lifted, and no upsert or delete changes it, however
\* long ago the client loaded the inspection.
TombstoneHolds == [][TombstoneStays]_vars

BecomesSubmitted(i) ==
    /\ rows'[i] # None
    /\ rows'[i].val[Status] = Submitted
    /\ rows[i] = None \/ rows[i].val[Status] # Submitted

SubmitIsGated ==
    \A i \in Inspections :
       BecomesSubmitted(i) /\ i \in waiting =>
           \E id \in NewOps : OpOf[id].type = "resolve_conflict"

\* No upsert submits an inspection that has an incomplete attachment at the
\* moment it commits, even one opened after the gate was evaluated.
SubmitGate == [][SubmitIsGated]_vars

\* Every request is answered or its handler gone, whatever the others hold.
RequestsEnd ==
    \A c \in Conns : []<>(pc[c] = "idle")

-----------------------------------------------------------------------------
(* Concurrent transactions implement operations that take effect at once.  *)

Atomic == INSTANCE AtomicSync WITH rows <- rows, ledger <- ledger, waiting <- waiting

ImplementsAtomicSync == Atomic!Spec

-----------------------------------------------------------------------------
(* What the documents say and the code does not do *)

\* README: a submit is refused while attachments are incomplete, and late
\* modifications of a deleted inspection are refused.  A late submit of a
\* deleted inspection with an incomplete attachment would break both rules.
NoLateSubmit ==
    [][\A i \in Inspections :
          rows[i] # None /\ rows[i].deleted /\ i \in waiting => ~ BecomesSubmitted(i)]_vars

\* The comment in recordConflict: if a conflict is open already, it is
\* refreshed with the client's newer choice.  So an upsert that passed every
\* check becomes the client side of the conflicts it loses.
PassesChecks(c) ==
    /\ pc[c] = "decide"
    /\ OpOf[Op(c)].type = "upsert"
    /\ seen[c] # None /\ seen[c].owner = who[c] /\ ~ seen[c].deleted
    /\ ValidateChanges(OpOf[Op(c)].changes, FALSE)
    /\ Target(c) \notin waiting

OpenConflictsAreRefreshed ==
    [][\A c \in Conns :
          PassesChecks(c) /\ Decide(c) =>
              \A f \in FieldsWith("conflict", OpOf[Op(c)].changes, seen[c]) :
                  pc'[c] = "commit" /\ out'[c].row.conflict[f].clientOp = Op(c)]_vars
=============================================================================
