------------------------------ MODULE Uploads -------------------------------
(***************************************************************************)
(* Resumable photo uploads: the upload loop of the client (store.js), the  *)
(* four upload handlers (handlers_uploads.go) with the tables attachments  *)
(* and upload_parts, and MinIO's multipart uploads (external, store.go).   *)
(*                                                                         *)
(* A handler runs in steps, one per access to the database or to MinIO     *)
(* (the inspection and its owner, which no request here changes, are read  *)
(* with the first of them); when the client goes away its context is       *)
(* cancelled and it stops at whichever step that hits.  The client keeps   *)
(* one record per photo in IndexedDB; a cycle works on copies of them, so  *)
(* two cycles (two tabs, or two fullSync calls that both passed the        *)
(* _syncing test before either set it) overwrite each other.  All photos   *)
(* belong to one inspection and one user, and have NumParts parts.         *)
(***************************************************************************)
EXTENDS Naturals, FiniteSets, FiniteSetsExt

CONSTANTS
    Photos,      \* photos staged on the device
    Uploads,     \* upload ids that MinIO can hand out
    NumParts,    \* parts of a photo
    Cycles,      \* sync cycles of the device that may overlap
    Handlers,    \* requests that the server may be working on
    FaultyKinds, \* requests that may fail, or be cut off by a reload
    MaxFaults,   \* bound on failures and reloads
    None

Kinds == {"create", "status", "part", "complete"}
Parts == 1 .. NumParts

ASSUME PartsAssumption  == NumParts \in Nat \ {0}
ASSUME FaultsAssumption == MaxFaults \in Nat /\ FaultyKinds \subseteq Kinds
ASSUME NoneAssumption   ==
    None \notin Uploads \cup Photos \cup Cycles \cup {"uploading", "completed", "open", "gone"}

VARIABLES
    att,     \* upload id -> status of its row in attachments, None if absent
    ledger,  \* upload id -> parts in upload_parts
    multi,   \* upload id -> MinIO's multipart upload: None, "open" or "gone"
    stored,  \* upload id -> parts MinIO holds
    object,  \* upload id -> parts of the object assembled from it
    req,     \* handler -> the request it works on, or None
    rec,     \* photo -> its record in IndexedDB
    cyc,     \* cycle -> its local variables
    reply,   \* cycle -> the answer that arrived and is not yet handled, or None
    faults   \* failures so far

server == <<att, ledger, multi, stored, object>>
vars   == <<server, req, rec, cyc, reply, faults>>

Idle == [at |-> "idle", todo |-> {}, list |-> [p \in Photos |-> None],
         photo |-> None, upload |-> None, have |-> {}]

Init ==
    /\ att = [u \in Uploads |-> None]
    /\ ledger = [u \in Uploads |-> {}]
    /\ multi = [u \in Uploads |-> None]
    /\ stored = [u \in Uploads |-> {}]
    /\ object = [u \in Uploads |-> {}]
    /\ req = [h \in Handlers |-> None]
    /\ rec = [p \in Photos |-> [status |-> "staged", upload |-> None]]
    /\ cyc = [k \in Cycles |-> Idle]
    /\ reply = [k \in Cycles |-> None]
    /\ faults = 0

-----------------------------------------------------------------------------
(* The handlers.  at is the step a request is at; saw is what it has read. *)

FirstStep == [create |-> "begin", status |-> "read", part |-> "admit", complete |-> "admit"]

Request(kind, u, n, k) ==
    [kind |-> kind, upload |-> u, part |-> n, cycle |-> k,
     at |-> FirstStep[kind], saw |-> {}]

At(h, kind, step) == req[h] # None /\ req[h].kind = kind /\ req[h].at = step

GoTo(h, step) == req' = [req EXCEPT ![h].at = step] /\ UNCHANGED reply

Answer(h, r) ==
    /\ req' = [req EXCEPT ![h] = None]
    /\ reply' = IF req[h].cycle = None THEN reply
                ELSE [reply EXCEPT ![req[h].cycle] = r]

Ok(u, parts) == [ok |-> TRUE, upload |-> u, parts |-> parts]
Error        == [ok |-> FALSE, upload |-> None, parts |-> {}]

\* createUpload: MinIO hands out an upload id, then the row is inserted.
CreateBegin(h) ==
    /\ At(h, "create", "begin")
    /\ \E u \in {x \in Uploads : multi[x] = None} :
          /\ multi' = [multi EXCEPT ![u] = "open"]
          /\ req' = [req EXCEPT ![h].at = "insert", ![h].upload = u]
    /\ UNCHANGED <<att, ledger, stored, object, reply>>

CreateInsert(h) ==
    /\ At(h, "create", "insert")
    /\ att' = [att EXCEPT ![req[h].upload] = "uploading"]
    /\ Answer(h, Ok(req[h].upload, {}))
    /\ UNCHANGED <<ledger, multi, stored, object>>

\* uploadStatus: the part ledger, then MinIO's list, which exists only as
\* long as the multipart upload is open.
StatusRead(h) ==
    /\ At(h, "status", "read")
    /\ req' = [req EXCEPT ![h].at = "list", ![h].saw = ledger[req[h].upload]]
    /\ UNCHANGED <<server, reply>>

StatusList(h) ==
    /\ At(h, "status", "list")
    /\ Answer(h, IF multi[req[h].upload] = "open"
                 THEN Ok(req[h].upload, req[h].saw \cap stored[req[h].upload])
                 ELSE Error)
    /\ UNCHANGED server

\* putPart and completeUpload first read the status of the attachment.
Admit(h, kind, refused, reply1, next) ==
    /\ At(h, kind, "admit")
    /\ IF att[req[h].upload] = refused THEN Answer(h, reply1) ELSE GoTo(h, next)
    /\ UNCHANGED server

PartAdmit(h) == Admit(h, "part", "completed", Error, "check")

\* Mutant of PartCheck: the part is recorded before MinIO has it.
PartCheckRecords(h) ==
    /\ At(h, "part", "check")
    /\ ledger' = [ledger EXCEPT ![req[h].upload] = @ \cup {req[h].part}]
    /\ GoTo(h, "store")
    /\ UNCHANGED <<att, multi, stored, object>>

\* Skip a part the ledger has; else store the bytes, then record them.
PartCheck(h) ==
    /\ At(h, "part", "check")
    /\ IF req[h].part \in ledger[req[h].upload]
       THEN Answer(h, Ok(req[h].upload, {})) ELSE GoTo(h, "store")
    /\ UNCHANGED server

PartStore(h) ==
    /\ At(h, "part", "store")
    /\ IF multi[req[h].upload] = "open"
       THEN /\ stored' = [stored EXCEPT ![req[h].upload] = @ \cup {req[h].part}]
            /\ GoTo(h, "record")
       ELSE Answer(h, Error) /\ UNCHANGED stored
    /\ UNCHANGED <<att, ledger, multi, object>>

PartRecord(h) ==
    /\ At(h, "part", "record")
    /\ ledger' = [ledger EXCEPT ![req[h].upload] = @ \cup {req[h].part}]
    /\ Answer(h, Ok(req[h].upload, {}))
    /\ UNCHANGED <<att, multi, stored, object>>

\* completeUpload: the parts of the ledger must be 1..n for some n; how many
\* the client announced is not looked at.
Contiguous(parts) == parts # {} /\ parts = 1 .. Max(parts)

CompleteAdmit(h) == Admit(h, "complete", "completed", Ok(req[h].upload, {}), "parts")

CompleteParts(h) ==
    /\ At(h, "complete", "parts")
    /\ LET parts == ledger[req[h].upload]
       IN  IF Contiguous(parts)
           THEN /\ req' = [req EXCEPT ![h].at = "assemble", ![h].saw = parts]
                /\ UNCHANGED reply
           ELSE Answer(h, Error)
    /\ UNCHANGED server

\* Mutant of CompleteAssemble: an upload MinIO no longer has counts as done.
CompleteAssembleGone(h) ==
    /\ At(h, "complete", "assemble")
    /\ LET u == req[h].upload
       IN  IF multi[u] = "open"
           THEN /\ object' = [object EXCEPT ![u] = req[h].saw]
                /\ multi' = [multi EXCEPT ![u] = "gone"]
                /\ GoTo(h, "mark")
           ELSE Answer(h, Ok(u, {})) /\ UNCHANGED <<object, multi>>
    /\ UNCHANGED <<att, ledger, stored>>

CompleteAssemble(h) ==
    /\ At(h, "complete", "assemble")
    /\ LET u == req[h].upload
       IN  IF multi[u] = "open"
           THEN /\ object' = [object EXCEPT ![u] = req[h].saw]
                /\ multi' = [multi EXCEPT ![u] = "gone"]
                /\ GoTo(h, "mark")
           ELSE Answer(h, Error) /\ UNCHANGED <<object, multi>>
    /\ UNCHANGED <<att, ledger, stored>>

CompleteMark(h) ==
    /\ At(h, "complete", "mark")
    /\ att' = [att EXCEPT ![req[h].upload] = "completed"]
    /\ Answer(h, Ok(req[h].upload, {}))
    /\ UNCHANGED <<ledger, multi, stored, object>>

Serve(h) ==
    /\ \/ CreateBegin(h) \/ CreateInsert(h)
       \/ StatusRead(h) \/ StatusList(h)
       \/ PartAdmit(h) \/ PartCheck(h) \/ PartStore(h) \/ PartRecord(h)
       \/ CompleteAdmit(h) \/ CompleteParts(h) \/ CompleteAssemble(h) \/ CompleteMark(h)
    /\ UNCHANGED <<rec, cyc, faults>>

MayFail(kind) == faults < MaxFaults /\ kind \in FaultyKinds

\* An access to the database or to MinIO fails, the request is refused for
\* the time being (its inspection is not yet on the server), or the server
\* dies.  If the INSERT of createUpload fails the multipart upload is aborted;
\* it is left open when the server dies.  A request whose client is gone may
\* fail at any step.
ServerFails(h) ==
    /\ req[h] # None
    /\ \/ req[h].cycle = None /\ UNCHANGED faults
       \/ req[h].cycle # None /\ MayFail(req[h].kind) /\ faults' = faults + 1
    /\ \/ UNCHANGED multi
       \/ At(h, "create", "insert") /\ multi' = [multi EXCEPT ![req[h].upload] = "gone"]
    /\ Answer(h, Error)
    /\ UNCHANGED <<att, ledger, stored, object, rec, cyc>>

-----------------------------------------------------------------------------
(* The client: one cycle runs processUploads over the records it listed.   *)

Send(k, kind, u, n) ==
    \E h \in Handlers : /\ req[h] = None
                        /\ req' = [req EXCEPT ![h] = Request(kind, u, n, k)]

Put(p, status, u) == rec' = [rec EXCEPT ![p] = [status |-> status, upload |-> u]]

\* The cycle works on copies of the records listed in todo.
List(k, todo) ==
    /\ cyc[k].at = "idle"
    /\ todo # {}
    /\ cyc' = [cyc EXCEPT ![k] =
          [Idle EXCEPT !.at = "pick", !.todo = todo,
                       !.list = [p \in Photos |-> rec[p].upload]]]
    /\ UNCHANGED <<server, req, rec, reply, faults>>

\* Mutants of ListUploads: completed records too; no record that failed.
ListUploadsAll(k) == List(k, Photos)
ListUploadsOnce(k) ==
    List(k, {p \in Photos : rec[p].status \notin {"completed", "failed"}})

ListUploads(k) == List(k, {p \in Photos : rec[p].status # "completed"})

\* The next record, as it was listed: create an upload, or ask what the
\* server has of the one it names.
UploadOne(k) ==
    /\ cyc[k].at = "pick"
    /\ \E p \in cyc[k].todo :
          LET u == cyc[k].list[p]
              kind == IF u = None THEN "create" ELSE "status"
          IN  /\ IF u = None THEN Put(p, "creating", None) ELSE UNCHANGED rec
              /\ Send(k, kind, u, None)
              /\ cyc' = [cyc EXCEPT ![k].at = kind, ![k].photo = p, ![k].upload = u,
                                    ![k].have = {}, ![k].todo = @ \ {p}]
    /\ UNCHANGED <<server, reply, faults>>

EndCycle(k) ==
    /\ cyc[k].at = "pick"
    /\ cyc[k].todo = {}
    /\ cyc' = [cyc EXCEPT ![k] = Idle]
    /\ UNCHANGED <<server, req, rec, reply, faults>>

Answered(k, kind) == cyc[k].at = kind /\ reply[k] # None /\ reply[k].ok

Consume(k) == reply' = [reply EXCEPT ![k] = None]

OnCreated(k) ==
    /\ Answered(k, "create")
    /\ Put(cyc[k].photo, "creating", reply[k].upload)
    /\ Send(k, "status", reply[k].upload, None)
    /\ cyc' = [cyc EXCEPT ![k].at = "status", ![k].upload = reply[k].upload]
    /\ Consume(k)
    /\ UNCHANGED <<server, faults>>

\* The first part wanted and not yet there, or the request to complete.
SendNext(k, have, wanted, shift) ==
    LET u == cyc[k].upload
        missing == wanted \ have
        kind == IF missing = {} THEN "complete" ELSE "part"
    IN  /\ Put(cyc[k].photo, IF missing = {} THEN "completing" ELSE "uploading", u)
        /\ Send(k, kind, u, IF missing = {} THEN None ELSE Min(missing) - shift)
        /\ cyc' = [cyc EXCEPT ![k].at = kind, ![k].have = have]
        /\ Consume(k)
        /\ UNCHANGED <<server, faults>>

\* Mutants of OnParts: the last part is left out; parts are numbered from 0.
OnPartsShort(k, have)    == SendNext(k, have, Parts \ {NumParts}, 0)
OnPartsFromZero(k, have) == SendNext(k, have, Parts, 1)

OnParts(k, have) == SendNext(k, have, Parts, 0)

OnStatus(k) ==
    /\ Answered(k, "status")
    /\ OnParts(k, reply[k].parts)

\* The part that was sent is the first one missing.
OnPart(k) ==
    /\ Answered(k, "part")
    /\ OnParts(k, cyc[k].have \cup {Min(Parts \ cyc[k].have)})

OnCompleted(k) ==
    /\ Answered(k, "complete")
    /\ Put(cyc[k].photo, "completed", cyc[k].upload)
    /\ cyc' = [cyc EXCEPT ![k].at = "pick"]
    /\ Consume(k)
    /\ UNCHANGED <<server, req, faults>>

\* The catch block reads the record as it is now ...
OnError(k) ==
    /\ cyc[k].at \in Kinds
    /\ reply[k] # None
    /\ ~ reply[k].ok
    /\ cyc' = [cyc EXCEPT ![k].at = "catch", ![k].upload = rec[cyc[k].photo].upload]
    /\ Consume(k)
    /\ UNCHANGED <<server, req, rec, faults>>

\* ... and writes it back, marked for a later cycle; this one goes on with the
\* next record unless the device is offline.
Mark(k) ==
    /\ cyc[k].at = "catch"
    /\ LET u == cyc[k].upload
       IN  Put(cyc[k].photo, IF u = None THEN "staged" ELSE "failed", u)
    /\ \/ cyc' = [cyc EXCEPT ![k].at = "pick"]
       \/ cyc' = [cyc EXCEPT ![k] = Idle]
    /\ UNCHANGED <<server, req, reply, faults>>

Run(k) ==
    \/ ListUploads(k) \/ UploadOne(k) \/ EndCycle(k)
    \/ OnCreated(k) \/ OnStatus(k) \/ OnPart(k) \/ OnCompleted(k)
    \/ OnError(k) \/ Mark(k)

\* The handler of k's request works on for nobody.
Orphan(k) ==
    req' = [h \in Handlers |-> IF req[h] # None /\ req[h].cycle = k
                               THEN [req[h] EXCEPT !.cycle = None] ELSE req[h]]

\* The request, or its answer, is lost on the way.
NetworkFails(k) ==
    /\ cyc[k].at \in Kinds
    /\ reply[k] = None
    /\ MayFail(cyc[k].at)
    /\ reply' = [reply EXCEPT ![k] = Error]
    /\ Orphan(k)
    /\ faults' = faults + 1
    /\ UNCHANGED <<server, rec, cyc>>

\* The browser is restarted or the tab closed: IndexedDB is what remains.
Reload(k) ==
    /\ cyc[k].at # "idle"
    /\ cyc[k].at \in {"pick", "catch"} \/ MayFail(cyc[k].at)
    /\ faults < MaxFaults
    /\ cyc' = [cyc EXCEPT ![k] = Idle]
    /\ Consume(k)
    /\ Orphan(k)
    /\ faults' = faults + 1
    /\ UNCHANGED <<server, rec>>

-----------------------------------------------------------------------------

Next ==
    \/ \E h \in Handlers : Serve(h) \/ ServerFails(h)
    \/ \E k \in Cycles : Run(k) \/ NetworkFails(k) \/ Reload(k)

Spec == Init /\ [][Next]_vars

\* Handlers run on, and the ticker starts cycles again and again.
FairSpec ==
    /\ Spec
    /\ \A h \in Handlers : WF_vars(Serve(h))
    /\ \A k \in Cycles : WF_vars(Run(k))

-----------------------------------------------------------------------------
(* Properties *)

RecordStatus == {"staged", "creating", "uploading", "completing", "completed", "failed"}

\* Every variable has its type.
TypeOK ==
    /\ att \in [Uploads -> {None, "uploading", "completed"}]
    /\ ledger \in [Uploads -> SUBSET Parts]
    /\ multi \in [Uploads -> {None, "open", "gone"}]
    /\ stored \in [Uploads -> SUBSET Parts]
    /\ object \in [Uploads -> SUBSET Parts]
    /\ req \in [Handlers -> {None} \cup
          [kind : Kinds, upload : Uploads \cup {None}, part : Parts \cup {None},
           cycle : Cycles \cup {None}, saw : SUBSET Parts,
           at : {"begin", "insert", "read", "list", "admit", "check", "store",
                 "record", "parts", "assemble", "mark"}]]
    /\ rec \in [Photos -> [status : RecordStatus, upload : Uploads \cup {None}]]
    /\ cyc \in [Cycles -> [at : Kinds \cup {"idle", "pick", "catch"}, todo : SUBSET Photos,
                           list : [Photos -> Uploads \cup {None}],
                           photo : Photos \cup {None}, upload : Uploads \cup {None},
                           have : SUBSET Parts]]
    /\ reply \in [Cycles -> {None} \cup
          [ok : BOOLEAN, upload : Uploads \cup {None}, parts : SUBSET Parts]]
    /\ faults \in 0 .. MaxFaults

\* An attachment that counts as completed has an object made of every part of
\* the photo, although the server checks neither the number of parts nor that
\* no other request is completing the same upload.
CompletedIsWhole ==
    \A u \in Uploads : att[u] = "completed" => object[u] = Parts

\* The ledger never claims a part that MinIO lacks, so completing never names
\* one; and an assembled object holds no part that is not recorded.
LedgerIsStored ==
    \A u \in Uploads : object[u] \subseteq ledger[u] /\ ledger[u] \subseteq stored[u]

\* A photo the device reports as uploaded is completed on the server.
ClientTruth ==
    \A p \in Photos : rec[p].status = "completed" => att[rec[p].upload] = "completed"

\* README.md, store.js: only missing parts are sent.  A completed photo misses
\* none, so its record stays completed, and of the same upload: no cycle takes
\* it back by an older copy of the record.
CompletedForGood ==
    [][\A p \in Photos : rec[p].status = "completed" => rec'[p] = rec[p]]_vars

\* Interrupted anywhere that faults may strike, every photo is uploaded in
\* the end.
EveryPhotoUploaded == <>[](\A p \in Photos : rec[p].status = "completed")

\* README: once the photos are uploaded, nothing blocks the submit.
NothingLeftIncomplete ==
    (\A p \in Photos : rec[p].status = "completed")
        => \A u \in Uploads : att[u] # "uploading"
=============================================================================
