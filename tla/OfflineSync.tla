---------------------------- MODULE OfflineSync ----------------------------
(***************************************************************************)
(* The devices' side of synchronisation (frontend/src/offline): an outbox  *)
(* and a copy of the server's inspections in IndexedDB, and sync cycles    *)
(* that push the one and pull the other, over a network that loses         *)
(* requests and answers, in browsers that restart.                         *)
(*                                                                         *)
(* The server is AtomicSync.  A step of a cycle is what the code does      *)
(* between two awaits that another actor could notice: an IndexedDB call   *)
(* is atomic, a read followed by a write is not, and a loop over the       *)
(* records of one inspection is one step.  Two cycles of one device are    *)
(* two tabs, or two calls of fullSync that both tested _syncing before     *)
(* either set it.  The upload phase of a cycle is module Uploads.          *)
(***************************************************************************)
EXTENDS SyncRules, Integers, FiniteSets

CONSTANTS
    Devices,     \* browsers with a database of their own
    Cycles,      \* fullSync calls that may run at the same time
    On,          \* the device a cycle runs on
    Handlers,    \* requests the server may have in hand at the same time
    Home,        \* the device an op id is minted on; None: an API client's
    LoggedIn,    \* the user a device starts with
    Null,        \* the JSON value null, the base of an edit of nothing
    Incidents,   \* the kinds of failure and of rare user action that may happen
    Limit        \* how many ops are minted, edits are being staged on a device,
                 \* and incidents happen

Kinds   == {"network", "unavailable", "refused", "error", "reload",
            "backdate", "discard", "logout", "photo"}
Bounded == {"ops", "overlap", "incidents"}

ASSUME DevicesAssumption ==
    /\ On \in [Cycles -> Devices]
    /\ Home \in [OpIds -> Devices \cup {None}]
    /\ LoggedIn \in [Devices -> Users]
    /\ None \notin Users \cup Devices

ASSUME BoundsAssumption ==
    /\ Null \in Values
    /\ Incidents \subseteq Kinds
    /\ Limit \in [Bounded -> Nat]

VARIABLES
    rows, ledger, waiting,   \* the server, see AtomicSync
    session,  \* device -> the user whose token it holds, or None
    snap,     \* device -> inspection -> the server snapshot it keeps, or None
    box,      \* device -> op id -> its record in the outbox, or None
    at,       \* op id -> its created_at; 0: not minted
    writing,  \* device -> edits whose base is read and that are not yet stamped
    pc,       \* cycle -> where it is
    todo,     \* cycle -> the ops of its request not yet absorbed
    answer,   \* cycle -> op id -> the result it was answered with, or None
    page,     \* cycle -> inspection -> its snapshot in the list, or None
    copy,     \* cycle -> op id -> its state when pull read the outbox, or None
    request,  \* handler -> the request it works on, or None
    past      \* how many incidents have happened, and how many of them are photos;
              \* the ops given up; and whether two cycles of a device overlapped

server == <<rows, ledger, waiting>>
device == <<session, snap, box, at, writing>>
cycle  == <<pc, todo, answer, page, copy>>
vars   == <<rows, ledger, waiting, session, snap, box, at, writing,
            pc, todo, answer, page, copy, request, past>>

Server == INSTANCE AtomicSync WITH rows <- rows, ledger <- ledger, waiting <- waiting

States   == {"queued", "applied", "conflict", "failed"}
Fresh    == [state |-> "queued", retry |-> FALSE, fields |-> {}, result |-> None]
Recorded == [state : States, retry : BOOLEAN, fields : SUBSET Editable,
             result : AnswerStatus \cup {"unavailable", "refused", None}]
Places   == {"idle", "send", "wait", "absorb", "save", "sweep",
             "list", "conflicts", "read", "merge"}

\* An op's result, or what the request as a whole came to: no answer that
\* makes sense (5xx), or a refusal (4xx, or an error without a status).
Result  == [status : AnswerStatus \cup {"unavailable", "refused"}, snap : Row \cup {None}]
\* A request in hand: the cycle that waits for it (None: nobody does any
\* more), the user of its token, and the ops not yet processed.
Request == [by : Cycles \cup {None}, user : Users, left : SUBSET OpIds]

Past == [incidents : Nat, photos : Nat, discarded : SUBSET OpIds, overlap : BOOLEAN]

ASSUME RecordsAssumption ==
    /\ None \notin States
    /\ None \notin Recorded
    /\ None \notin Result
    /\ None \notin Request

Nothing(S) == [x \in S |-> None]

OwnRows(u) ==
    [i \in Inspections |-> IF rows[i] # None /\ rows[i].owner = u THEN rows[i] ELSE None]

\* Every device has logged in and pulled once.
Init ==
    /\ Server!Init
    /\ session = LoggedIn
    /\ snap = [d \in Devices |-> OwnRows(LoggedIn[d])]
    /\ box = [d \in Devices |-> Nothing(OpIds)]
    /\ at = [id \in OpIds |-> 0]
    /\ writing = [d \in Devices |-> {}]
    /\ pc = [k \in Cycles |-> "idle"]
    /\ todo = [k \in Cycles |-> {}]
    /\ request = Nothing(Handlers)
    /\ answer = [k \in Cycles |-> Nothing(OpIds)]
    /\ page = [k \in Cycles |-> Nothing(Inspections)]
    /\ copy = [k \in Cycles |-> Nothing(OpIds)]
    /\ past = [incidents |-> 0, photos |-> 0, discarded |-> {}, overlap |-> FALSE]

\* One more incident, in which the user gives up these ops.
IncidentWith(kind, ids) ==
    /\ kind \in Incidents
    /\ past.incidents < Limit["incidents"]
    /\ past' = [past EXCEPT !.incidents = @ + 1,
                            !.photos = @ + IF kind = "photo" THEN 1 ELSE 0,
                            !.discarded = @ \cup ids]

Incident(kind) == IncidentWith(kind, {})

-----------------------------------------------------------------------------
(* The outbox *)

InBox(d)    == {id \in OpIds : box[d][id] # None}
BoxOf(d, i) == {id \in InBox(d) : OpOf[id].insp = i}
Active(d, i) == {id \in BoxOf(d, i) : box[d][id].state # "applied"}

\* created_at orders the outbox.
First(ids) == CHOOSE id \in ids : \A j \in ids : at[id] <= at[j]
Last(ids)  == CHOOSE id \in ids : \A j \in ids : at[id] >= at[j]

Touches(id, f) ==
    \/ OpOf[id].type = "upsert" /\ f \in DOMAIN OpOf[id].changes
    \/ OpOf[id].type = "resolve_conflict" /\ OpOf[id].field = f

Sets(id, f) ==
    IF OpOf[id].type = "upsert" THEN OpOf[id].changes[f].v ELSE OpOf[id].value

\* Mutant: the base is the server's value, whatever is queued.
BaseOfSnapshot(d, i, f) == IF snap[d][i] = None THEN Null ELSE snap[d][i].val[f]

\* The value the server would hold if every op of the outbox were replayed,
\* the parked and the failed ones too.
BaseAfterOps(d, i, f) ==
    LET ops == {id \in Active(d, i) : Touches(id, f)}
    IN  IF ops # {} THEN Sets(Last(ops), f)
        ELSE IF snap[d][i] = None THEN Null ELSE snap[d][i].val[f]

Shown(d, i)   == snap[d][i] # None \/ BoxOf(d, i) # {}
Deleted(d, i) == snap[d][i] # None /\ snap[d][i].deleted

Minted == {id \in OpIds : at[id] # 0}
Used   == Minted \cup UNION {writing[d] : d \in Devices}

\* An op id not used before.  Ids with one payload are used in one order.
NewOp(d, id) ==
    /\ Home[id] = d
    /\ id \notin Used
    /\ Cardinality(Used) < Limit["ops"]
    /\ id = CHOOSE j \in OpIds \ Used : Home[j] = d /\ OpOf[j] = OpOf[id]

\* makeOp and enqueueOp: the op is stamped by the device's clock, which may
\* have been set back behind every earlier stamp, and written.
Enqueue(d, id) ==
    LET n == Cardinality(Minted) + 1
    IN  /\ \/ at' = [at EXCEPT ![id] = n] /\ UNCHANGED past
           \/ at' = [at EXCEPT ![id] = -n] /\ Incident("backdate")
        /\ box' = [box EXCEPT ![d][id] = Fresh]

\* stageOp up to its first await: the edit of one field, on the base that the
\* outbox gives now.
StageOp(d, id) ==
    LET i  == OpOf[id].insp
        ch == OpOf[id].changes
    IN  /\ NewOp(d, id)
        /\ OpOf[id].type = "upsert"
        /\ Shown(d, i) /\ ~ Deleted(d, i)
        /\ \E f \in Editable : /\ DOMAIN ch = {f}
                               /\ ch[f].base = BaseAfterOps(d, i, f)
        /\ Cardinality(writing[d]) < Limit["overlap"]
        /\ writing' = [writing EXCEPT ![d] = @ \cup {id}]
        /\ UNCHANGED <<server, session, snap, box, at, cycle, request, past>>

EnqueueOp(d, id) ==
    /\ id \in writing[d]
    /\ Enqueue(d, id)
    /\ writing' = [writing EXCEPT ![d] = @ \ {id}]
    /\ UNCHANGED <<server, session, snap, cycle, request>>

\* A new inspection, under an id nobody used before: all fields, no bases.
StageCreate(d, id) ==
    LET i == OpOf[id].insp
    IN  /\ NewOp(d, id)
        /\ OpOf[id].type = "upsert"
        /\ DOMAIN OpOf[id].changes = Editable
        /\ \A f \in Editable : OpOf[id].changes[f].base = None
        /\ Assigned[i] = None
        /\ \A j \in Used : OpOf[j].insp # i
        /\ Enqueue(d, id)
        /\ UNCHANGED <<server, session, snap, writing, cycle, request>>

StageDelete(d, id) ==
    LET i == OpOf[id].insp
    IN  /\ NewOp(d, id)
        /\ OpOf[id].type = "delete"
        /\ Shown(d, i) /\ ~ Deleted(d, i)
        /\ Enqueue(d, id)
        /\ UNCHANGED <<server, session, snap, writing, cycle, request>>

\* The conflicts a device offers to settle: those of its parked ops that its
\* snapshot still has open.
OpenConflicts(d, i) ==
    {f \in Editable : /\ snap[d][i] # None
                      /\ snap[d][i].conflict[f] # None
                      /\ \E id \in BoxOf(d, i) : /\ box[d][id].state = "conflict"
                                                 /\ f \in box[d][id].fields}

\* The user picks one side of a conflict.
ResolveConflict(d, id) ==
    LET i == OpOf[id].insp
        f == OpOf[id].field
    IN  /\ NewOp(d, id)
        /\ OpOf[id].type = "resolve_conflict"
        /\ f \in OpenConflicts(d, i)
        /\ OpOf[id].value \in {snap[d][i].conflict[f].server, snap[d][i].conflict[f].client}
        /\ Enqueue(d, id)
        /\ UNCHANGED <<server, session, snap, writing, cycle, request>>

\* The user gives up the local ops of an inspection, which the card offers
\* when one of them failed or the inspection was deleted.
DiscardOps(d, i) ==
    /\ BoxOf(d, i) # {}
    /\ Deleted(d, i) \/ \E id \in BoxOf(d, i) : box[d][id].state = "failed"
    /\ box' = [box EXCEPT ![d] = [id \in OpIds |-> IF OpOf[id].insp = i THEN None ELSE @[id]]]
    /\ IncidentWith("discard", BoxOf(d, i))
    /\ UNCHANGED <<server, session, snap, at, writing, cycle, request>>

\* logout leaves the outbox and the snapshots where they are.
Logout(d) ==
    /\ session[d] # None
    /\ session' = [session EXCEPT ![d] = None]
    /\ Incident("logout")
    /\ UNCHANGED <<server, snap, box, at, writing, cycle, request>>

Login(d, u) ==
    /\ session[d] = None
    /\ session' = [session EXCEPT ![d] = u]
    /\ UNCHANGED <<server, snap, box, at, writing, cycle, request, past>>

-----------------------------------------------------------------------------
(* Push *)

Working(d) == \E k \in Cycles : On[k] = d /\ pc[k] # "idle"

\* fullSync, after its upload phase.
Begin(k) ==
    /\ pc[k] = "idle"
    /\ session[On[k]] # None
    /\ pc' = [pc EXCEPT ![k] = "send"]
    /\ past' = [past EXCEPT !.overlap = @ \/ Working(On[k])]
    /\ UNCHANGED <<server, device, todo, request, answer, page, copy>>

\* Mutant: what is not applied is due, as stageOp has it.
DueUnlessApplied(d) == {id \in InBox(d) : box[d][id].state # "applied"}

Due(d) ==
    {id \in InBox(d) : \/ box[d][id].state = "queued"
                       \/ box[d][id].state = "failed" /\ box[d][id].retry}

\* The whole request failed: every op of it gets the same result.
AllAnswered(ids, status) ==
    [id \in OpIds |-> IF id \in ids THEN [status |-> status, snap |-> None] ELSE None]

\* The server answers the requests of a device that holds a token, and 401
\* to any other.
Authenticated(d) == session[d] # None

Free == {h \in Handlers : request[h] = None}

\* syncOps sends what is due.  The token is read now: without one the server
\* answers 401.
SyncOps(k) ==
    LET d   == On[k]
        ids == Due(d)
    IN  /\ pc[k] = "send"
        /\ \/ /\ ids = {}
              /\ pc' = [pc EXCEPT ![k] = "list"]
              /\ UNCHANGED <<todo, request, answer>>
           \/ /\ ids # {} /\ ~ Authenticated(d)
              /\ pc' = [pc EXCEPT ![k] = "absorb"]
              /\ todo' = [todo EXCEPT ![k] = ids]
              /\ answer' = [answer EXCEPT ![k] = AllAnswered(ids, "refused")]
              /\ UNCHANGED request
           \/ /\ ids # {} /\ Authenticated(d)
              /\ Free # {}
              /\ request' = [request EXCEPT ![CHOOSE h \in Free : TRUE] =
                    [by |-> k, user |-> session[d], left |-> ids]]
              /\ pc' = [pc EXCEPT ![k] = "wait"]
              /\ todo' = [todo EXCEPT ![k] = ids]
              /\ UNCHANGED answer
        /\ UNCHANGED <<server, device, page, copy, past>>

\* The handler goes on to its next op; the answer counts if anybody waits.
Answered(h, id, status, row) ==
    LET k == request[h].by
    IN  /\ request' = [request EXCEPT ![h].left = @ \ {id}]
        /\ answer' = IF k = None THEN answer
                     ELSE [answer EXCEPT ![k][id] = [status |-> status, snap |-> row]]
        /\ UNCHANGED <<device, pc, todo, page, copy>>

\* The server takes the next op of a request, in order: replay, decide, or
\* refuse for now.
Serve(h) ==
    /\ request[h] # None
    /\ request[h].left # {}
    /\ LET id  == First(request[h].left)
           u   == request[h].user
           i   == OpOf[id].insp
           old == ledger[id]
           out == Outcome(u, id, rows[i], i \in waiting)
       IN  \/ /\ old # None
              /\ IF old.user = u THEN Answered(h, id, MarkDuplicate(old.status), old.snap)
                                 ELSE Answered(h, id, "invalid", None)
              /\ UNCHANGED server
           \/ /\ Server!Apply(u, id)
              /\ Answered(h, id, Entry(u, out).status, Entry(u, out).snap)
           \/ /\ old = None
              /\ out.status \notin LedgeredStatus
              /\ Answered(h, id, out.status, None)
              /\ UNCHANGED server
    /\ UNCHANGED past

\* A statement of the op's transaction fails, or only the acknowledgement of
\* its commit.
OpFails(h) ==
    /\ request[h] # None
    /\ request[h].left # {}
    /\ Incident("error")
    /\ LET id == First(request[h].left)
       IN  /\ Server!Apply(request[h].user, id) \/ UNCHANGED server
           /\ Answered(h, id, "error", None)

\* All ops are processed and the answer arrives.
Respond(h) ==
    /\ request[h] # None
    /\ request[h].by # None
    /\ request[h].left = {}
    /\ pc' = [pc EXCEPT ![request[h].by] = "absorb"]
    /\ request' = [request EXCEPT ![h] = None]
    /\ UNCHANGED <<server, device, todo, answer, page, copy, past>>

\* The handler of a request nobody waits for is cancelled, or has finished.
HandlerEnds(h) ==
    /\ request[h] # None
    /\ request[h].by = None
    /\ request' = [request EXCEPT ![h] = None]
    /\ UNCHANGED <<server, device, cycle, past>>

\* Nobody waits for the requests of these cycles any more.
Left(ks) ==
    [h \in Handlers |-> IF request[h] # None /\ request[h].by \in ks
                        THEN [request[h] EXCEPT !.by = None] ELSE request[h]]

\* The request or its answer is lost (status 0): syncOps returns and the
\* cycle goes on to pull.  The handler may go on.
NetworkFails(k) ==
    /\ pc[k] = "wait"
    /\ Incident("network")
    /\ pc' = [pc EXCEPT ![k] = "list"]
    /\ todo' = [todo EXCEPT ![k] = {}]
    /\ answer' = [answer EXCEPT ![k] = Nothing(OpIds)]
    /\ request' = Left({k})
    /\ UNCHANGED <<server, device, page, copy>>

\* The request fails as a whole: a gateway or the server answers 5xx, or it
\* is refused (an expired token, an answer cut off while it is read).
RequestFails(k) ==
    /\ pc[k] = "wait"
    /\ \E kind \in {"unavailable", "refused"} :
          /\ Incident(kind)
          /\ answer' = [answer EXCEPT ![k] = AllAnswered(todo[k], kind)]
    /\ pc' = [pc EXCEPT ![k] = "absorb"]
    /\ request' = Left({k})
    /\ UNCHANGED <<server, device, todo, page, copy>>

-----------------------------------------------------------------------------
(* Absorbing the results *)

\* The fields of an op's result.conflicts: those whose open conflict it is
\* the client side of.
ConflictFields(id, r) ==
    IF r.snap = None THEN {}
    ELSE {f \in Editable : r.snap.conflict[f] # None /\ r.snap.conflict[f].clientOp = id}

\* Mutant: a case without its break.
AfterFallThrough(status) ==
    CASE status \in {"applied", "deleted", "duplicate", "invalid"} -> "applied"
      [] status = "conflict" -> "conflict"
      [] OTHER -> "failed"

\* Mutant: the server's word for it is kept.
AfterAsAnswered(status) == status

\* The state of an op after a result.
After(status) ==
    CASE status \in {"applied", "deleted", "duplicate"} -> "applied"
      [] status = "conflict" -> "conflict"
      [] OTHER -> "failed"

\* Mutant: only a 5xx above 500 is retried.
RetryableButNot500(status) == status = "attachments_incomplete"

\* Is an op that failed sent again?
Retryable(status) == status \in {"attachments_incomplete", "unavailable"}

\* What a result makes of an op's record.
Patch(rec, id, r) ==
    [state  |-> After(r.status),
     retry  |-> IF After(r.status) = "failed" THEN Retryable(r.status) ELSE rec.retry,
     fields |-> ConflictFields(id, r),
     result |-> r.status]

\* Does the result of id end parked conflicts of its inspection?
Settles(id, r) ==
    /\ OpOf[id].type = "resolve_conflict"
    /\ r.status \in {"applied", "duplicate"}

\* On to the next result, or to pull.
Done(k, id) ==
    /\ pc' = [pc EXCEPT ![k] = IF todo[k] = {id} THEN "list" ELSE "absorb"]
    /\ todo' = [todo EXCEPT ![k] = @ \ {id}]
    /\ answer' = [answer EXCEPT ![k][id] = None]

\* On to the sweep after a resolution, or to the next result.
NextResult(k, id) ==
    IF Settles(id, answer[k][id])
    THEN pc' = [pc EXCEPT ![k] = "sweep"] /\ UNCHANGED <<todo, answer>>
    ELSE Done(k, id)

\* Mutant: the snapshot of a result is not kept.
AbsorbNoSnapshot(k) ==
    LET d  == On[k]
        id == First(todo[k])
    IN  /\ pc[k] = "absorb"
        /\ IF box[d][id] # None
           THEN pc' = [pc EXCEPT ![k] = "save"] /\ UNCHANGED <<todo, answer>>
           ELSE NextResult(k, id)
        /\ UNCHANGED <<server, device, request, page, copy, past>>

\* _absorbResult: keep the snapshot the result carries, then updateOp reads
\* the op's record, if it is still there.
AbsorbResult(k) ==
    LET d  == On[k]
        id == First(todo[k])
        r  == answer[k][id]
    IN  /\ pc[k] = "absorb"
        /\ snap' = IF r.snap = None THEN snap
                   ELSE [snap EXCEPT ![d][OpOf[id].insp] = r.snap]
        /\ IF box[d][id] # None
           THEN pc' = [pc EXCEPT ![k] = "save"] /\ UNCHANGED <<todo, answer>>
           ELSE NextResult(k, id)
        /\ UNCHANGED <<server, session, box, at, writing, request, page, copy, past>>

\* updateOp writes the record back, even if it was deleted meanwhile.
UpdateOp(k) ==
    LET d   == On[k]
        id  == First(todo[k])
        rec == IF box[d][id] # None THEN box[d][id]
               ELSE Fresh
    IN  /\ pc[k] = "save"
        /\ box' = [box EXCEPT ![d][id] = Patch(rec, id, answer[k][id])]
        /\ NextResult(k, id)
        /\ UNCHANGED <<server, session, snap, at, writing, request, page, copy, past>>

\* The parked ops that a resolution releases: none of their fields is open.
Released(d, id, open) ==
    {p \in BoxOf(d, OpOf[id].insp) : /\ box[d][p].state = "conflict"
                                     /\ box[d][p].fields \cap open = {}}

\* A human choice landed.
Sweep(k) ==
    LET d    == On[k]
        id   == First(todo[k])
        r    == answer[k][id]
        open == {f \in Editable : r.snap.conflict[f] # None}
    IN  /\ pc[k] = "sweep"
        /\ box' = [box EXCEPT ![d] = [p \in OpIds |->
                      IF p \in Released(d, id, open) THEN [@[p] EXCEPT !.state = "applied"]
                                                     ELSE @[p]]]
        /\ Done(k, id)
        /\ UNCHANGED <<server, session, snap, at, writing, request, page, copy, past>>

-----------------------------------------------------------------------------
(* Pull *)

\* listInspections reads the caller's rows in one statement; without a token
\* it is refused, and the cycle ends.
ListRows(k) ==
    /\ pc[k] = "list"
    /\ IF ~ Authenticated(On[k])
       THEN pc' = [pc EXCEPT ![k] = "idle"] /\ UNCHANGED page
       ELSE /\ pc' = [pc EXCEPT ![k] = "conflicts"]
            /\ page' = [page EXCEPT ![k] = OwnRows(session[On[k]])]
    /\ UNCHANGED <<server, device, todo, request, answer, copy, past>>

\* ... and their open conflicts in another, later one.
ListConflicts(k) ==
    /\ pc[k] = "conflicts"
    /\ page' = [page EXCEPT ![k] = [i \in Inspections |->
                   IF @[i] = None THEN None
                   ELSE [@[i] EXCEPT !.conflict = rows[i].conflict]]]
    /\ pc' = [pc EXCEPT ![k] = "read"]
    /\ UNCHANGED <<server, device, todo, request, answer, copy, past>>

\* The list has arrived: pull reads the outbox.
ReadLocal(k) ==
    /\ pc[k] = "read"
    /\ IF page[k] = Nothing(Inspections)
       THEN pc' = [pc EXCEPT ![k] = "idle"] /\ UNCHANGED copy
       ELSE /\ pc' = [pc EXCEPT ![k] = "merge"]
            /\ copy' = [copy EXCEPT ![k] = [id \in OpIds |->
                  IF box[On[k]][id] = None THEN None ELSE box[On[k]][id].state]]
    /\ UNCHANGED <<server, device, todo, request, answer, page, past>>

\* Mutant: a snapshot prunes all that was ever answered.
PruneAnswered(k, i) ==
    {id \in OpIds : OpOf[id].insp = i /\ copy[k][id] \notin {None, "queued"}}

\* The ops that a snapshot makes superfluous, as pull's copy had them:
\* applied ones, and deletions if it is a tombstone.
Prunable(k, i) ==
    {id \in OpIds : /\ OpOf[id].insp = i
                    /\ \/ copy[k][id] = "applied"
                       \/ copy[k][id] # None /\ OpOf[id].type = "delete" /\ page[k][i].deleted}

\* Mutant: the local card is kept while it has ops of its own.
MergedUnlessBusy(k, i) ==
    IF Active(On[k], i) # {} THEN snap ELSE [snap EXCEPT ![On[k]][i] = page[k][i]]

Merged(k, i) == [snap EXCEPT ![On[k]][i] = page[k][i]]

\* One inspection of the list: keep its snapshot and prune the outbox.  The
\* cycle ends with the last one.
MergeSnapshot(k, i) ==
    LET d    == On[k]
        rest == [page[k] EXCEPT ![i] = None]
    IN  /\ pc[k] = "merge"
        /\ page[k][i] # None
        /\ snap' = Merged(k, i)
        /\ box' = [box EXCEPT ![d] = [id \in OpIds |->
                      IF id \in Prunable(k, i) THEN None ELSE @[id]]]
        /\ page' = [page EXCEPT ![k] = rest]
        /\ IF rest = Nothing(Inspections)
           THEN /\ pc' = [pc EXCEPT ![k] = "idle"]
                /\ copy' = [copy EXCEPT ![k] = Nothing(OpIds)]
           ELSE UNCHANGED <<pc, copy>>
        /\ UNCHANGED <<server, session, at, writing, todo, answer, request, past>>

\* The list fails, in any way: fullSync's catch ends the cycle.
PullFails(k) ==
    /\ pc[k] \in {"list", "conflicts", "read"}
    /\ \E kind \in {"network", "unavailable", "refused"} : Incident(kind)
    /\ pc' = [pc EXCEPT ![k] = "idle"]
    /\ page' = [page EXCEPT ![k] = Nothing(Inspections)]
    /\ UNCHANGED <<server, device, todo, request, answer, copy>>

\* The browser restarts: only IndexedDB is left.
Reload(d) ==
    LET Ended(f, empty) == [k \in Cycles |-> IF On[k] = d THEN empty ELSE f[k]]
    IN  /\ Incident("reload")
        /\ writing[d] # {} \/ Working(d)
        /\ writing' = [writing EXCEPT ![d] = {}]
        /\ pc' = Ended(pc, "idle")
        /\ todo' = Ended(todo, {})
        /\ answer' = Ended(answer, Nothing(OpIds))
        /\ page' = Ended(page, Nothing(Inspections))
        /\ copy' = Ended(copy, Nothing(OpIds))
        /\ request' = Left({k \in Cycles : On[k] = d})
        /\ UNCHANGED <<server, session, snap, box, at>>

-----------------------------------------------------------------------------
(* The rest of the world *)

\* An API client, or a device whose outbox is of no interest, syncs an op.
RemoteApply(u, id) ==
    /\ Home[id] = None
    /\ rows[OpOf[id].insp] # None
    /\ Server!Apply(u, id)
    /\ UNCHANGED <<device, cycle, request, past>>

\* A photo's upload is created, and completed (module Uploads).
OpenAttachment(i) ==
    /\ Server!OpenAttachment(i)
    /\ Incident("photo")
    /\ UNCHANGED <<device, cycle, request>>

CompleteAttachments(i) ==
    /\ Server!CompleteAttachments(i)
    /\ UNCHANGED <<device, cycle, request, past>>

-----------------------------------------------------------------------------

User(d) ==
    \/ \E id \in OpIds : \/ StageOp(d, id) \/ StageCreate(d, id) \/ StageDelete(d, id)
                         \/ ResolveConflict(d, id)
    \/ \E i \in Inspections : DiscardOps(d, i)
    \/ Logout(d)
    \/ \E u \in Users : Login(d, u)

Cycle(k) ==
    \/ Begin(k) \/ SyncOps(k) \/ AbsorbResult(k) \/ UpdateOp(k) \/ Sweep(k)
    \/ ListRows(k) \/ ListConflicts(k) \/ ReadLocal(k)
    \/ \E i \in Inspections : MergeSnapshot(k, i)

Handle(h) == Serve(h) \/ Respond(h) \/ HandlerEnds(h)

Next ==
    \/ \E d \in Devices : User(d) \/ Reload(d) \/ \E id \in OpIds : EnqueueOp(d, id)
    \/ \E k \in Cycles : Cycle(k) \/ NetworkFails(k) \/ RequestFails(k) \/ PullFails(k)
    \/ \E h \in Handlers : Handle(h) \/ OpFails(h)
    \/ \E u \in Users, id \in OpIds : RemoteApply(u, id)
    \/ \E i \in Inspections : OpenAttachment(i) \/ CompleteAttachments(i)

Spec == Init /\ [][Next]_vars

\* The ticker starts cycles again and again, a cycle and a handler run on, and
\* IndexedDB writes are done.  Nothing makes a user act, a failure happen, or
\* an attachment complete: the answer that creates one may be lost for good.
Fairness ==
    /\ \A k \in Cycles : WF_vars(Cycle(k))
    /\ \A h \in Handlers : WF_vars(Handle(h))
    /\ \A d \in Devices : WF_vars(\E id \in OpIds : EnqueueOp(d, id))

FairSpec == Spec /\ Fairness

-----------------------------------------------------------------------------
(* Properties *)

\* Every variable has its type.
TypeOK ==
    /\ Server!TypeOK
    /\ session \in [Devices -> Users \cup {None}]
    /\ snap \in [Devices -> [Inspections -> Row \cup {None}]]
    /\ box \in [Devices -> [OpIds -> Recorded \cup {None}]]
    /\ at \in [OpIds -> Int]
    /\ writing \in [Devices -> SUBSET OpIds]
    /\ pc \in [Cycles -> Places]
    /\ todo \in [Cycles -> SUBSET OpIds]
    /\ request \in [Handlers -> Request \cup {None}]
    /\ answer \in [Cycles -> [OpIds -> Result \cup {None}]]
    /\ page \in [Cycles -> [Inspections -> Row \cup {None}]]
    /\ copy \in [Cycles -> [OpIds -> States \cup {None}]]
    /\ past \in Past

\* What a device shows as saved is: an op leaves the queue as applied, or is
\* parked as a conflict, only if the server's ledger holds it as such,
\* whatever was lost, resent, answered late or sent by another cycle.
SavedIsLedgered ==
    \A d \in Devices : \A id \in InBox(d) :
        /\ box[d][id].state = "applied" =>
              ledger[id] # None /\ MarkDuplicate(ledger[id].status) = "duplicate"
        /\ box[d][id].state = "conflict" =>
              ledger[id] # None /\ ledger[id].status = "conflict"

LeavesDecided ==
    \A d \in Devices : \A id \in InBox(d) :
        box'[d][id] = None =>
            \/ ledger[id] # None
            \/ OpOf[id].type = "delete" /\ rows[OpOf[id].insp] # None /\ rows[OpOf[id].insp].deleted
            \/ DiscardOps(d, OpOf[id].insp)

\* No edit is lost: an op leaves the outbox only when the server has decided
\* it, when it asks for a deletion that has happened, or when the user gives
\* it up.
KeptUntilDecided == [][LeavesDecided]_vars

\* No op was ever put off by the gate, to be taken up after a later one.
NothingPutOff == past.photos = 0

\* Every device has run one cycle at a time, as the flag _syncing intends.
NoOverlap == ~ past.overlap

\* The ledger keeps the row that an op left, written by it or not.
HasEffect(id) == ledger[id] # None /\ ledger[id].snap # None
Wrote(id)     == \E f \in Editable : ledger[id].snap.by[f] = id

\* The ops of a device took effect on an inspection in the order of their
\* stamps.  store.js relies on it; a transaction that failed where a later op
\* got through, and was repeated, may have upset it.
EffectsInOrder ==
    \A a, b \in {id \in Minted : HasEffect(id)} :
        /\ Home[a] = Home[b]
        /\ OpOf[a].insp = OpOf[b].insp
        /\ at[a] < at[b]
        => /\ ledger[a].snap.rev <= ledger[b].snap.rev
           /\ Wrote(b) => ledger[a].snap.rev < ledger[b].snap.rev

\* An applied op no longer counts in the card's view, so the snapshot must:
\* once an op is applied, or pruned, the device's snapshot is at least as new
\* as the one its effect produced, whatever was lost and resent.  As long as
\* cycles do not overlap, that is: the page one has read is older than what
\* another one absorbs meanwhile.
AppliedIsShown ==
    NoOverlap /\ NothingPutOff /\ EffectsInOrder =>
        \A d \in Devices : \A id \in Minted :
            LET i == OpOf[id].insp
            IN  /\ Home[id] = d
                /\ HasEffect(id)
                /\ \/ box[d][id] = None /\ id \notin past.discarded
                   \/ box[d][id] # None /\ box[d][id].state = "applied"
                => snap[d][i] # None /\ snap[d][i].rev >= ledger[id].snap.rev

\* Does the outbox of d hold an op before id that is parked or failed?
BrokenBefore(d, id) ==
    \E j \in BoxOf(d, OpOf[id].insp) : box[d][j].state \in {"conflict", "failed"}

LosesToOthers ==
    \A id \in OpIds :
        LET d == Home[id]
            i == OpOf[id].insp
        IN  /\ d # None
            /\ ledger[id] = None /\ ledger'[id] # None /\ ledger'[id].status = "conflict"
            /\ NoOverlap /\ NothingPutOff /\ EffectsInOrder
            /\ ~ BrokenBefore(d, id) /\ id \notin past.discarded
            => \A f \in Editable :
                  rows'[i].conflict[f] # rows[i].conflict[f]
                  => \/ rows[i].by[f] = SeedOp
                     \/ Home[rows[i].by[f]] # d
                     \/ rows[i].by[f] \in past.discarded

\* A chain of offline edits stays linear, as long as cycles do not overlap:
\* unless an earlier op of the outbox is parked, failed or was put off, an
\* edit never loses to its own device, the ops that were given up apart.
ChainsStayLinear == [][LosesToOthers]_vars

LeavesBySettlement ==
    NoOverlap /\ EffectsInOrder => \A d \in Devices : \A id \in InBox(d) :
        /\ box[d][id].state = "conflict"
        /\ box'[d][id] # box[d][id]
        => \/ DiscardOps(d, OpOf[id].insp)
           \/ \A f \in box[d][id].fields : \E r \in OpIds :
                 /\ OpOf[r].type = "resolve_conflict"
                 /\ OpOf[r].insp = OpOf[id].insp /\ OpOf[r].field = f
                 /\ ledger[r] # None /\ ledger[r].status = "applied"
                 /\ ledger[r].snap.rev > ledger[id].snap.rev

\* A parked op stays parked until a human choice for each of its fields has
\* taken effect after it, as long as cycles do not overlap: LoserIsParked
\* fails just as well by the answer that another cycle was given.
ParkedUntilChosen == [][LeavesBySettlement]_vars

\* Answers after which an op is shown as failed and not sent again.
Final == {"refused", "error"}

\* The gate has put the op off, and an attachment is incomplete to this day.
PutOff(d, id) ==
    /\ box[d][id].result = "attachments_incomplete"
    /\ OpOf[id].insp \in waiting

Decided(d, id) ==
    \/ id \notin InBox(d)
    \/ ledger[id] # None
    \/ box[d][id].state = "failed" /\ (box[d][id].result \in Final \/ PutOff(d, id))

\* When the users stop, every op ends in the server's ledger, is given up or
\* overtaken by a deletion, or is shown as failed: because of a final answer,
\* or waiting for an attachment, which is for ever if that was orphaned.
EveryOpDecided ==
    <>[](\A d \in Devices, id \in OpIds : Decided(d, id))

\* When the users stop, every device comes to hold exactly the server's rows
\* of its user, and nothing in its outbox but what awaits a human or an
\* attachment: parked, refused and put off ops.
Converges ==
    <>[](\A d \in Devices :
            /\ snap[d] = OwnRows(session[d])
            /\ \A id \in InBox(d) : /\ box[d][id].state # "applied"
                                    /\ id \in Due(d) => PutOff(d, id))

\* store.js: a conflict parks its op until the user picks a value; README:
\* the side that syncs later sees the conflict.
LoserIsParked ==
    \A d \in Devices : \A id \in InBox(d) :
        box[d][id].state = "applied" =>
            \A f \in Editable :
                LET cf == rows[OpOf[id].insp].conflict[f]
                IN  cf = None \/ cf.clientOp # id
=============================================================================
