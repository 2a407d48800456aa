--------------------------- MODULE UploadsProofs ----------------------------
(***************************************************************************)
(* Safety of Uploads for every value of the constants: any number of       *)
(* photos, parts, cycles, requests and failures.                           *)
(***************************************************************************)
EXTENDS Uploads, FiniteSetTheorems, TLAPS

-----------------------------------------------------------------------------
(* The inductive invariant *)

\* An upload that has a row in attachments.
Known(u) == u \in Uploads /\ att[u] # None

\* Nobody but the request that creates an upload knows of it before its row
\* is there, and a row has a multipart upload behind it.
OnlyKnownUploads ==
    /\ \A u \in Uploads : att[u] # None => multi[u] # None
    /\ \A p \in Photos : rec[p].upload # None => Known(rec[p].upload)
    /\ \A k \in Cycles, p \in Photos : cyc[k].list[p] # None => Known(cyc[k].list[p])

\* What a request knows at its step.  Above all: a request to complete is
\* there only when every part is recorded.
RequestOK(h) ==
    LET r == req[h]
        u == req[h].upload
    IN  req[h] # None =>
          \/ r.kind = "create" /\ r.at = "begin"
          \/ /\ r.kind = "create" /\ r.at = "insert"
             /\ u \in Uploads /\ att[u] = None /\ multi[u] # None
          \/ r.kind = "status" /\ r.at = "read" /\ Known(u)
          \/ r.kind = "status" /\ r.at = "list" /\ Known(u) /\ r.saw \subseteq ledger[u]
          \/ /\ r.kind = "part" /\ r.at \in {"admit", "check", "store", "record"}
             /\ Known(u) /\ r.part \in Parts
             /\ r.at = "record" => r.part \in stored[u]
          \/ /\ r.kind = "complete" /\ r.at \in {"admit", "parts", "assemble", "mark"}
             /\ Known(u) /\ ledger[u] = Parts
             /\ r.at = "assemble" => r.saw = Parts
             /\ r.at = "mark" => object[u] = Parts

\* MinIO gives an upload id to one request.
InsertsDiffer ==
    \A g, h \in Handlers :
        At(g, "create", "insert") /\ At(h, "create", "insert") /\ req[g].upload = req[h].upload
            => g = h

\* What a cycle knows, and what the answer that arrived tells it.
CycleOK(k) ==
    LET c == cyc[k]
        u == cyc[k].upload
    IN  /\ c.at \in Kinds \cup {"catch"} => c.photo \in Photos
        /\ c.at = "catch" /\ u # None => Known(u)
        /\ c.at \in {"status", "part", "complete"} => Known(u)
        /\ c.at = "part" => c.have \subseteq ledger[u] /\ c.have # Parts
        /\ c.at = "complete" => ledger[u] = Parts
        /\ reply[k] # None => c.at \in Kinds
        /\ reply[k] # None /\ reply[k].ok =>
              /\ c.at = "create" => Known(reply[k].upload)
              /\ c.at = "status" => reply[k].parts \subseteq ledger[u]
              /\ c.at = "part" => Min(Parts \ c.have) \in ledger[u]
              /\ c.at = "complete" => att[u] = "completed"

\* A cycle waits for the one request that works for it.
LinkOK(h) ==
    LET k == req[h].cycle
    IN  req[h] # None /\ k # None =>
          /\ cyc[k].at = req[h].kind
          /\ reply[k] = None
          /\ req[h].kind # "create" => req[h].upload = cyc[k].upload
          /\ req[h].kind = "part" => req[h].part = Min(Parts \ cyc[k].have)
          /\ \A g \in Handlers : req[g] # None /\ req[g].cycle = k => g = h

RecordOK(p) ==
    rec[p].status = "completed" => rec[p].upload # None /\ att[rec[p].upload] = "completed"

Inv ==
    /\ TypeOK
    /\ LedgerIsStored
    /\ CompletedIsWhole
    /\ OnlyKnownUploads
    /\ InsertsDiffer
    /\ \A h \in Handlers : RequestOK(h) /\ LinkOK(h)
    /\ \A k \in Cycles : CycleOK(k)
    /\ \A p \in Photos : RecordOK(p)

-----------------------------------------------------------------------------
(* Facts about data *)

\* The first missing part is a missing part: among the finite sets 0 .. x,
\* x missing, there is a smallest one.
LEMMA MinInSet ==
    ASSUME NEW S, S \subseteq Parts, S # {}
    PROVE  Min(S) \in S
<1> DEFINE Upto == {0 .. x : x \in S}
<1>1. S \subseteq Nat
  BY PartsAssumption DEF Parts
<1>2. Upto \subseteq FiniteSubsetsOf(Nat) /\ Upto # {}
  <2>1. ASSUME NEW x \in S
        PROVE  0 .. x \in SUBSET Nat /\ IsFiniteSet(0 .. x)
    BY <1>1, FS_Interval
  <2> QED
    BY <2>1 DEF FiniteSubsetsOf
<1>3. PICK T \in Upto : \A U \in Upto : ~ (<<U, T>> \in StrictSubsetOrdering(Nat))
  BY <1>2, FS_StrictSubsetOrderingWellFounded, WFMin
<1>4. PICK x \in S : T = 0 .. x
  BY <1>3
<1>5. ASSUME NEW y \in S, ~ (x =< y)
      PROVE  FALSE
  <2>1. /\ 0 .. y \in SUBSET Nat /\ 0 .. x \in SUBSET Nat
        /\ 0 .. y \subseteq 0 .. x /\ x \in 0 .. x /\ x \notin 0 .. y
    BY <1>1, <1>5
  <2>2. <<0 .. y, T>> \in StrictSubsetOrdering(Nat)
    BY <1>4, <2>1 DEF StrictSubsetOrdering
  <2> QED
    BY <1>3, <2>2
<1> QED
  BY <1>5 DEF Min

LEMMA FirstSteps ==
    /\ FirstStep["create"] = "begin"
    /\ FirstStep["status"] = "read"
    /\ FirstStep["part"] = "admit"
    /\ FirstStep["complete"] = "admit"
  BY DEF FirstStep

-----------------------------------------------------------------------------
(* Types *)

Steps == {"begin", "insert", "read", "list", "admit", "check", "store",
          "record", "parts", "assemble", "mark"}

Requests == [kind : Kinds, upload : Uploads \cup {None}, part : Parts \cup {None},
             cycle : Cycles \cup {None}, saw : SUBSET Parts, at : Steps]

Answers == [ok : BOOLEAN, upload : Uploads \cup {None}, parts : SUBSET Parts]

Records == [status : RecordStatus, upload : Uploads \cup {None}]

LocalStates == [at : Kinds \cup {"idle", "pick", "catch"}, todo : SUBSET Photos,
                list : [Photos -> Uploads \cup {None}],
                photo : Photos \cup {None}, upload : Uploads \cup {None},
                have : SUBSET Parts]

ServerType ==
    /\ att \in [Uploads -> {None, "uploading", "completed"}]
    /\ ledger \in [Uploads -> SUBSET Parts]
    /\ multi \in [Uploads -> {None, "open", "gone"}]
    /\ stored \in [Uploads -> SUBSET Parts]
    /\ object \in [Uploads -> SUBSET Parts]

ReqType   == req \in [Handlers -> {None} \cup Requests]
ReplyType == reply \in [Cycles -> {None} \cup Answers]
RecType   == rec \in [Photos -> Records]
CycType   == cyc \in [Cycles -> LocalStates]

LEMMA Types ==
    TypeOK <=> /\ ServerType /\ ReqType /\ RecType /\ CycType /\ ReplyType
               /\ faults \in 0 .. MaxFaults
  BY DEF TypeOK, ServerType, ReqType, RecType, CycType, ReplyType, Requests, Answers, Records,
         LocalStates, Steps

LEMMA AnswerType ==
    ASSUME ReqType, ReplyType, NEW h \in Handlers, NEW r \in Answers, Answer(h, r)
    PROVE  ReqType' /\ ReplyType'
  BY DEF ReqType, ReplyType, Answer

\* What the handlers answer.
LEMMA OkType ==
    /\ Error \in Answers
    /\ \A u \in Uploads \cup {None}, parts \in SUBSET Parts : Ok(u, parts) \in Answers
  BY DEF Error, Ok, Answers

LEMMA RequestType ==
    ASSUME NEW kind \in Kinds, NEW u \in Uploads \cup {None}, NEW n \in Parts \cup {None},
           NEW k \in Cycles
    PROVE  Request(kind, u, n, k) \in Requests
<1>1. FirstStep[kind] \in Steps
  BY FirstSteps DEF Kinds, Steps
<1> QED
  BY <1>1 DEF Request, Requests

-----------------------------------------------------------------------------
(* What a step does to those who do not take it *)

\* The server takes nothing back.
Grows ==
    \A u \in Uploads :
        /\ att[u] # None => att'[u] # None
        /\ att[u] = "completed" => att'[u] = "completed"
        /\ multi[u] # None => multi'[u] # None
        /\ ledger[u] \subseteq ledger'[u]
        /\ stored[u] \subseteq stored'[u]
        /\ object[u] = Parts => object'[u] = Parts

ServerOK ==
    /\ LedgerIsStored
    /\ CompletedIsWhole
    /\ \A u \in Uploads : att[u] # None => multi[u] # None

\* What is known of an upload stays true.
LEMMA KnownStays ==
    ASSUME ServerType', Grows, NEW u, Known(u)
    PROVE  /\ u \in Uploads /\ att'[u] # None
           /\ multi[u] # None => multi'[u] # None
           /\ ledger[u] \subseteq ledger'[u]
           /\ ledger[u] = Parts => ledger'[u] = Parts
           /\ att[u] = "completed" => att'[u] = "completed"
  BY DEF Known, Grows, ServerType

\* A request that did not step, or only lost its client, knows what it knew.
LEMMA RequestStays ==
    ASSUME ServerType', Grows, NEW h \in Handlers, RequestOK(h),
           \/ req'[h] = req[h]
           \/ /\ req[h] # None /\ req[h] \in Requests
              /\ req'[h] = [req[h] EXCEPT !.cycle = None],
           At(h, "create", "insert") => att'[req[h].upload] = None
    PROVE  RequestOK(h)'
<1>1. CASE req[h] = None
  BY <1>1 DEF RequestOK
<1>2. CASE req[h] # None
  <2> DEFINE u == req[h].upload
  <2>1. /\ req'[h].kind = req[h].kind /\ req'[h].at = req[h].at /\ req'[h].part = req[h].part
        /\ req'[h].upload = u /\ req'[h].saw = req[h].saw
    BY DEF Requests
  <2>2. Known(u) => /\ u \in Uploads /\ att'[u] # None
                    /\ ledger[u] \subseteq ledger'[u]
                    /\ ledger[u] = Parts => ledger'[u] = Parts
    BY KnownStays
  <2>3. u \in Uploads => /\ multi[u] # None => multi'[u] # None
                         /\ stored[u] \subseteq stored'[u]
                         /\ object[u] = Parts => object'[u] = Parts
    BY DEF Grows
  <2> HIDE DEF u
  <2> QED
    BY <1>2, <2>1, <2>2, <2>3 DEF RequestOK, At, Known, u
<1> QED
  BY <1>1, <1>2

\* Nor does a cycle forget.
LEMMA CycleStays ==
    ASSUME ServerType', Grows, NEW k \in Cycles, CycleOK(k),
           cyc'[k] = cyc[k], reply'[k] = reply[k]
    PROVE  CycleOK(k)'
  BY KnownStays DEF CycleOK, Known

\* What the answer r of request h tells its client is true.
Tells(h, r) ==
    LET u == req[h].upload
    IN  r.ok => CASE req[h].kind = "create"   -> r.upload \in Uploads /\ att'[r.upload] # None
                  [] req[h].kind = "status"   -> r.parts \subseteq ledger'[u]
                  [] req[h].kind = "part"     -> req[h].part \in ledger'[u]
                  [] req[h].kind = "complete" -> att'[u] = "completed"

\* A step of request h: it goes on, or answers what is true.
Goes(h) ==
    /\ reply' = reply
    /\ req'[h].kind = req[h].kind
    /\ req'[h].cycle = req[h].cycle
    /\ req'[h].part = req[h].part
    /\ req[h].kind # "create" => req'[h].upload = req[h].upload

Progress(h) ==
    /\ req[h] # None
    /\ \A g \in Handlers \ {h} : req'[g] = req[g]
    /\ Goes(h) \/ \E r \in Answers : Answer(h, r) /\ Tells(h, r)

\* Such a step leaves the requests and the cycles as they should be.
LEMMA ProgressLinks ==
    ASSUME Inv, NEW h \in Handlers, Progress(h), UNCHANGED <<rec, cyc>>
    PROVE  \A g \in Handlers : LinkOK(g)'
<1> SUFFICES ASSUME NEW g \in Handlers PROVE LinkOK(g)'
  OBVIOUS
<1>1. /\ \A f \in Handlers : LinkOK(f)
      /\ req[h] # None
      /\ \A f \in Handlers \ {h} : req'[f] = req[f]
      /\ cyc' = cyc
  BY DEF Inv, Progress
<1>2. CASE Goes(h)
  BY <1>1, <1>2 DEF LinkOK, Goes
<1>3. ASSUME NEW r \in Answers, Answer(h, r)
      PROVE  LinkOK(g)'
  <2>1. req'[h] = None
    BY <1>3 DEF Answer, Inv, TypeOK
  <2>2. \A k \in Cycles : k # req[h].cycle => reply'[k] = reply[k]
    BY <1>3 DEF Answer, Inv, TypeOK
  <2>3. g # h /\ req[g] # None => req[g].cycle \in Cycles \cup {None}
    BY DEF Inv, TypeOK
  <2> QED
    BY <1>1, <2>1, <2>2, <2>3 DEF LinkOK
<1> QED
  BY <1>2, <1>3 DEF Progress

LEMMA ProgressCycles ==
    ASSUME Inv, ServerType', Grows, NEW h \in Handlers, Progress(h), UNCHANGED <<rec, cyc>>
    PROVE  \A k \in Cycles : CycleOK(k)'
<1> SUFFICES ASSUME NEW k \in Cycles PROVE CycleOK(k)'
  OBVIOUS
<1>1. CycleOK(k) /\ LinkOK(h) /\ req[h] # None /\ cyc' = cyc
  BY DEF Inv, Progress
<1>2. CASE reply'[k] = reply[k]
  BY <1>1, <1>2, CycleStays
<1>3. ASSUME NEW r \in Answers, Answer(h, r), Tells(h, r), reply'[k] # reply[k]
      PROVE  CycleOK(k)'
  <2>1. req[h].cycle = k /\ reply'[k] = r /\ req[h].kind \in Kinds
    BY <1>1, <1>3 DEF Answer, Inv, TypeOK
  <2>2. k # None
    BY NoneAssumption
  <2>3. /\ cyc[k].at = req[h].kind
        /\ req[h].kind # "create" => req[h].upload = cyc[k].upload
        /\ req[h].kind = "part" => req[h].part = Min(Parts \ cyc[k].have)
    BY <1>1, <2>1, <2>2 DEF LinkOK
  <2>4. CASE req[h].kind = "create"
    BY <1>1, <1>3, <2>1, <2>3, <2>4 DEF CycleOK, Tells, Known
  <2>5. CASE req[h].kind # "create"
    <3>1. Known(cyc[k].upload)
      BY <1>1, <2>1, <2>3, <2>5 DEF CycleOK, Kinds
    <3>2. LET u == cyc[k].upload
          IN  /\ u \in Uploads /\ att'[u] # None
              /\ ledger[u] \subseteq ledger'[u]
              /\ ledger[u] = Parts => ledger'[u] = Parts
      BY <3>1, KnownStays
    <3>3. CASE req[h].kind = "status"
      BY <1>1, <1>3, <2>1, <2>3, <3>2, <3>3 DEF CycleOK, Tells, Known
    <3>4. CASE req[h].kind = "part"
      BY <1>1, <1>3, <2>1, <2>3, <3>2, <3>4 DEF CycleOK, Tells, Known
    <3>5. CASE req[h].kind = "complete"
      BY <1>1, <1>3, <2>1, <2>3, <3>2, <3>5 DEF CycleOK, Tells, Known
    <3> QED
      BY <2>1, <2>5, <3>3, <3>4, <3>5 DEF Kinds
  <2> QED
    BY <2>4, <2>5
<1> QED
  BY <1>2, <1>3 DEF Progress, Goes

\* All that a step of request h has to be shown to do.
HandlerOK(h) ==
    /\ ServerType' /\ ReqType'
    /\ Grows
    /\ ServerOK'
    /\ Progress(h)
    /\ RequestOK(h)'
    /\ \A g \in Handlers \ {h} : At(g, "create", "insert") =>
          /\ att'[req[g].upload] = None
          /\ At(h, "create", "insert")' => req'[h].upload # req[g].upload

LEMMA HandlerInv ==
    ASSUME Inv, NEW h \in Handlers, HandlerOK(h), UNCHANGED <<rec, cyc>>,
           faults' \in 0 .. MaxFaults
    PROVE  Inv'
<1>1. /\ ServerType' /\ ReqType' /\ Grows /\ ServerOK' /\ Progress(h) /\ RequestOK(h)'
      /\ TypeOK /\ ReplyType /\ RecType /\ CycType /\ OnlyKnownUploads /\ InsertsDiffer
  BY Types DEF HandlerOK, Inv
<1>2. TypeOK'
  <2>1. ReplyType'
    BY <1>1, AnswerType, Types DEF Progress, Goes, ReplyType
  <2>2. RecType' /\ CycType'
    BY <1>1 DEF RecType, CycType
  <2>3. faults' \in 0 .. MaxFaults
    OBVIOUS
  <2> QED
    BY <1>1, <2>1, <2>2, <2>3 DEF TypeOK, ServerType, ReqType, RecType, CycType, ReplyType,
        Requests, Answers, Records, LocalStates, Steps
<1>3. OnlyKnownUploads'
  <2>1. /\ \A p \in Photos : rec[p].upload # None => Known(rec[p].upload)
        /\ \A k \in Cycles, p \in Photos : cyc[k].list[p] # None => Known(cyc[k].list[p])
        /\ \A u \in Uploads : att'[u] # None => multi'[u] # None
    BY <1>1 DEF OnlyKnownUploads, ServerOK
  <2>2. \A u : Known(u) => u \in Uploads /\ att'[u] # None
    BY <1>1, KnownStays
  <2> QED
    BY <2>1, <2>2 DEF OnlyKnownUploads, Known
<1>4. InsertsDiffer'
  <2> SUFFICES ASSUME NEW f \in Handlers, NEW g \in Handlers,
                      At(f, "create", "insert")', At(g, "create", "insert")',
                      req'[f].upload = req'[g].upload
               PROVE  f = g
    BY DEF InsertsDiffer
  <2>1. \A e \in Handlers \ {h} : req'[e] = req[e]
    BY <1>1 DEF Progress
  <2>2. CASE f # h /\ g # h
    BY <1>1, <2>1, <2>2 DEF InsertsDiffer, At
  <2>3. CASE f = h \/ g = h
    BY <1>1, <2>1, <2>3 DEF HandlerOK, At
  <2> QED
    BY <2>2, <2>3
<1>5. \A g \in Handlers : RequestOK(g)'
  BY <1>1, RequestStays DEF HandlerOK, Progress, Inv
<1>6. \A g \in Handlers : LinkOK(g)'
  BY <1>1, ProgressLinks
<1>7. \A k \in Cycles : CycleOK(k)'
  BY <1>1, ProgressCycles
<1>8. \A p \in Photos : RecordOK(p)'
  <2> SUFFICES ASSUME NEW p \in Photos, rec[p].status = "completed"
               PROVE  rec[p].upload # None /\ att'[rec[p].upload] = "completed"
    BY DEF RecordOK
  <2>1. rec[p].upload # None /\ att[rec[p].upload] = "completed" /\ Known(rec[p].upload)
    BY <1>1 DEF Inv, RecordOK, OnlyKnownUploads
  <2> QED
    BY <1>1, <2>1, KnownStays
<1> QED
  BY <1>1, <1>2, <1>3, <1>4, <1>5, <1>6, <1>7, <1>8 DEF Inv, ServerOK

-----------------------------------------------------------------------------
(* The handlers *)

\* A request that has answered is no more.
LEMMA Answering ==
    ASSUME Inv, NEW h \in Handlers, req[h] # None, NEW r \in Answers, Answer(h, r), Tells(h, r)
    PROVE  ReqType' /\ Progress(h) /\ RequestOK(h)' /\ ~ At(h, "create", "insert")'
<1>1. ReqType'
  BY AnswerType, Types DEF Inv
<1>2. req'[h] = None /\ \A g \in Handlers \ {h} : req'[g] = req[g]
  BY Types DEF Inv, Answer, ReqType
<1>3. Progress(h)
  BY <1>2 DEF Progress
<1> QED
  BY <1>1, <1>2, <1>3 DEF RequestOK, At

\* A request that goes on is the same request, a step further.
LEMMA GoingOn ==
    ASSUME Inv, NEW h \in Handlers, req[h] # None, reply' = reply,
           NEW r \in Requests, req' = [req EXCEPT ![h] = r],
           r.kind = req[h].kind, r.cycle = req[h].cycle, r.part = req[h].part,
           r.kind # "create" => r.upload = req[h].upload
    PROVE  ReqType' /\ Progress(h) /\ req'[h] = r
<1>1. req \in [Handlers -> {None} \cup Requests]
  BY Types DEF Inv, ReqType
<1>2. req'[h] = r /\ \A g \in Handlers \ {h} : req'[g] = req[g]
  BY <1>1
<1> QED
  BY <1>1, <1>2 DEF ReqType, Progress, Goes

\* Most steps change nothing of a request but where it is.
LEMMA SteppingOn ==
    ASSUME Inv, NEW h \in Handlers, req[h] # None, NEW step \in Steps, GoTo(h, step)
    PROVE  /\ ReqType' /\ Progress(h)
           /\ req'[h].at = step /\ req'[h].kind = req[h].kind
           /\ req'[h].upload = req[h].upload /\ req'[h].part = req[h].part
           /\ req'[h].saw = req[h].saw
<1> DEFINE r == [req[h] EXCEPT !.at = step]
<1>1. req[h] \in Requests
  BY Types DEF Inv, ReqType
<1>2. /\ r \in Requests /\ r.at = step /\ r.saw = req[h].saw
      /\ r.kind = req[h].kind /\ r.cycle = req[h].cycle /\ r.part = req[h].part
      /\ r.upload = req[h].upload
  BY <1>1 DEF Requests
<1>3. req' = [req EXCEPT ![h] = r] /\ reply' = reply
  BY DEF GoTo
<1> HIDE DEF r
<1>4. ReqType' /\ Progress(h) /\ req'[h] = r
  BY <1>2, <1>3, GoingOn
<1> QED
  BY <1>2, <1>4

\* A step that leaves the server's state alone need only be well in itself.
LEMMA Quiet ==
    ASSUME Inv, NEW h \in Handlers, UNCHANGED server,
           ReqType', Progress(h), RequestOK(h)', ~ At(h, "create", "insert")'
    PROVE  HandlerOK(h)
<1>1. /\ ServerType /\ ServerOK
      /\ \A g \in Handlers : RequestOK(g)
  BY Types DEF Inv, ServerOK, OnlyKnownUploads
<1>2. ServerType' /\ ServerOK'
  BY <1>1 DEF server, ServerType, ServerOK, LedgerIsStored, CompletedIsWhole
<1>3. Grows
  BY DEF Grows, server
<1>4. \A g \in Handlers : At(g, "create", "insert") => att'[req[g].upload] = None
  BY <1>1 DEF server, RequestOK, At
<1> QED
  BY <1>2, <1>3, <1>4 DEF HandlerOK

LEMMA RefusalIsQuiet ==
    ASSUME Inv, NEW h \in Handlers, req[h] # None, Answer(h, Error), UNCHANGED server
    PROVE  HandlerOK(h)
<1>1. Error \in Answers /\ Tells(h, Error)
  BY OkType DEF Error, Tells
<1> QED
  BY <1>1, Answering, Quiet

LEMMA StatusOK ==
    ASSUME Inv, NEW h \in Handlers, StatusRead(h) \/ StatusList(h)
    PROVE  HandlerOK(h)
<1> DEFINE u == req[h].upload
<1>1. /\ req[h] # None /\ req[h].kind = "status" /\ u \in Uploads /\ RequestOK(h) /\ Known(u)
      /\ ServerType
  BY Types DEF StatusRead, StatusList, At, Inv, RequestOK, Known
<1>2. CASE StatusRead(h)
  <2> DEFINE r == [req[h] EXCEPT !.at = "list", !.saw = ledger[u]]
  <2>1. req[h] \in Requests /\ ledger[u] \in SUBSET Parts
    BY <1>1, Types DEF Inv, ServerType, ReqType
  <2>2. /\ r \in Requests /\ r.at = "list" /\ r.saw = ledger[u]
        /\ r.kind = req[h].kind /\ r.cycle = req[h].cycle /\ r.part = req[h].part
        /\ r.upload = u
    BY <2>1 DEF Requests, Steps
  <2>3. req' = [req EXCEPT ![h] = r] /\ reply' = reply /\ UNCHANGED server
    BY <1>2 DEF StatusRead
  <2> HIDE DEF r
  <2>4. ReqType' /\ Progress(h) /\ req'[h] = r
    BY <1>1, <2>2, <2>3, GoingOn
  <2>5. RequestOK(h)' /\ ~ At(h, "create", "insert")'
    BY <1>1, <2>2, <2>3, <2>4 DEF RequestOK, server, Known, At
  <2> QED
    BY <2>3, <2>4, <2>5, Quiet
<1>3. CASE StatusList(h)
  <2>1. CASE multi[u] = "open"
    <3> DEFINE parts == req[h].saw \cap stored[u]
    <3>1. parts \in SUBSET Parts /\ parts \subseteq ledger[u]
      BY <1>1, <1>3 DEF ServerType, StatusList, At, RequestOK
    <3>2. Ok(u, parts) \in Answers /\ Tells(h, Ok(u, parts))
      BY <1>1, <1>3, <3>1, OkType DEF Ok, Tells, StatusList, server
    <3> QED
      BY <1>1, <1>3, <2>1, <3>2, Answering, Quiet DEF StatusList
  <2>2. CASE multi[u] # "open"
    BY <1>1, <1>3, <2>2, RefusalIsQuiet DEF StatusList
  <2> QED
    BY <2>1, <2>2
<1> QED
  BY <1>2, <1>3

LEMMA PartOK ==
    ASSUME Inv, NEW h \in Handlers,
           PartAdmit(h) \/ PartCheck(h) \/ PartStore(h) \/ PartRecord(h)
    PROVE  HandlerOK(h)
<1> DEFINE u == req[h].upload
           n == req[h].part
<1>1. /\ req[h] # None /\ req[h].kind = "part" /\ RequestOK(h) /\ Known(u) /\ u \in Uploads
      /\ n \in Parts
  BY DEF PartAdmit, PartCheck, PartStore, PartRecord, Admit, At, Inv, RequestOK, Known
<1>2. /\ ServerType /\ ServerOK
      /\ \A g \in Handlers : At(g, "create", "insert") => att[req[g].upload] = None
  BY Types DEF Inv, ServerOK, OnlyKnownUploads, RequestOK, At
<1>3. Ok(u, {}) \in Answers /\ (n \in ledger'[u] => Tells(h, Ok(u, {})))
  BY <1>1, OkType DEF Ok, Tells
<1>4. CASE PartAdmit(h)
  <2>1. CASE Answer(h, Error)
    BY <1>1, <1>4, <2>1, RefusalIsQuiet DEF PartAdmit, Admit
  <2>2. CASE GoTo(h, "check")
    <3>1. /\ ReqType' /\ Progress(h) /\ req'[h].at = "check" /\ req'[h].kind = "part"
          /\ req'[h].upload = u /\ req'[h].part = n
      BY <1>1, <2>2, SteppingOn DEF Steps
    <3>2. RequestOK(h)' /\ ~ At(h, "create", "insert")'
      BY <1>1, <1>4, <3>1 DEF RequestOK, PartAdmit, Admit, server, Known, At
    <3> QED
      BY <1>4, <3>1, <3>2, Quiet DEF PartAdmit, Admit
  <2> QED
    BY <1>4, <2>1, <2>2 DEF PartAdmit, Admit
<1>5. CASE PartCheck(h)
  <2>1. CASE n \in ledger[u]
    BY <1>1, <1>3, <1>5, <2>1, Answering, Quiet DEF PartCheck, server
  <2>2. CASE n \notin ledger[u]
    <3>1. /\ ReqType' /\ Progress(h) /\ req'[h].at = "store" /\ req'[h].kind = "part"
          /\ req'[h].upload = u /\ req'[h].part = n
      BY <1>1, <1>5, <2>2, SteppingOn DEF Steps, PartCheck
    <3>2. RequestOK(h)' /\ ~ At(h, "create", "insert")'
      BY <1>1, <1>5, <3>1 DEF RequestOK, PartCheck, server, Known, At
    <3> QED
      BY <1>5, <3>1, <3>2, Quiet DEF PartCheck
  <2> QED
    BY <2>1, <2>2
<1>6. CASE PartStore(h)
  <2>1. CASE multi[u] = "open"
    <3>1. /\ stored' = [stored EXCEPT ![u] = @ \cup {n}]
          /\ UNCHANGED <<att, ledger, multi, object>>
          /\ GoTo(h, "record")
      BY <1>6, <2>1 DEF PartStore
    <3>2. /\ ReqType' /\ Progress(h) /\ req'[h].at = "record" /\ req'[h].kind = "part"
          /\ req'[h].upload = u /\ req'[h].part = n
      BY <1>1, <3>1, SteppingOn DEF Steps
    <3>3. ServerType' /\ n \in stored'[u] /\ \A v \in Uploads : stored[v] \subseteq stored'[v]
      BY <1>1, <1>2, <3>1 DEF ServerType
    <3>4. Grows /\ ServerOK'
      BY <1>2, <3>1, <3>3 DEF Grows, ServerOK, LedgerIsStored, CompletedIsWhole
    <3>5. RequestOK(h)' /\ ~ At(h, "create", "insert")'
      BY <1>1, <3>1, <3>2, <3>3 DEF RequestOK, Known, At
    <3> QED
      BY <1>2, <3>1, <3>2, <3>3, <3>4, <3>5 DEF HandlerOK
  <2>2. CASE multi[u] # "open"
    BY <1>1, <1>6, <2>2, RefusalIsQuiet DEF PartStore, server
  <2> QED
    BY <2>1, <2>2
<1>7. CASE PartRecord(h)
  <2>1. /\ ledger' = [ledger EXCEPT ![u] = @ \cup {n}]
        /\ UNCHANGED <<att, multi, stored, object>>
        /\ Answer(h, Ok(u, {}))
        /\ n \in stored[u]
    BY <1>1, <1>7 DEF PartRecord, At, RequestOK
  <2>2. /\ ServerType' /\ n \in ledger'[u]
        /\ \A v \in Uploads : ledger[v] \subseteq ledger'[v] /\ ledger'[v] \subseteq stored[v]
    BY <1>1, <1>2, <2>1 DEF ServerType, ServerOK, LedgerIsStored
  <2>3. Grows /\ ServerOK'
    BY <1>2, <2>1, <2>2 DEF Grows, ServerOK, LedgerIsStored, CompletedIsWhole
  <2> QED
    BY <1>1, <1>2, <1>3, <2>1, <2>2, <2>3, Answering DEF HandlerOK
<1> QED
  BY <1>4, <1>5, <1>6, <1>7

LEMMA CompleteOK ==
    ASSUME Inv, NEW h \in Handlers,
           CompleteAdmit(h) \/ CompleteParts(h) \/ CompleteAssemble(h) \/ CompleteMark(h)
    PROVE  HandlerOK(h)
<1> DEFINE u == req[h].upload
<1>1. /\ req[h] # None /\ req[h].kind = "complete" /\ RequestOK(h) /\ Known(u) /\ u \in Uploads
      /\ ledger[u] = Parts
  BY DEF CompleteAdmit, CompleteParts, CompleteAssemble, CompleteMark, Admit, At, Inv,
         RequestOK, Known
<1>2. /\ ServerType /\ ServerOK
      /\ \A g \in Handlers : At(g, "create", "insert") =>
            req[g].upload \in Uploads /\ att[req[g].upload] = None
  BY Types DEF Inv, ServerOK, OnlyKnownUploads, RequestOK, At
<1>3. Ok(u, {}) \in Answers /\ (att'[u] = "completed" => Tells(h, Ok(u, {})))
  BY <1>1, OkType DEF Ok, Tells
<1>4. CASE CompleteAdmit(h)
  <2>1. CASE att[u] = "completed"
    BY <1>1, <1>3, <1>4, <2>1, Answering, Quiet DEF CompleteAdmit, Admit, server
  <2>2. CASE att[u] # "completed"
    <3>1. GoTo(h, "parts") /\ UNCHANGED server
      BY <1>4, <2>2 DEF CompleteAdmit, Admit
    <3>2. /\ ReqType' /\ Progress(h) /\ req'[h].at = "parts" /\ req'[h].kind = "complete"
          /\ req'[h].upload = u
      BY <1>1, <3>1, SteppingOn DEF Steps
    <3>3. RequestOK(h)' /\ ~ At(h, "create", "insert")'
      BY <1>1, <3>1, <3>2 DEF RequestOK, server, Known, At
    <3> QED
      BY <3>1, <3>2, <3>3, Quiet
  <2> QED
    BY <2>1, <2>2
<1>5. CASE CompleteParts(h)
  <2>1. CASE Contiguous(ledger[u])
    <3> DEFINE r == [req[h] EXCEPT !.at = "assemble", !.saw = ledger[u]]
    <3>1. req[h] \in Requests /\ ledger[u] \in SUBSET Parts
      BY <1>1, <1>2, Types DEF Inv, ServerType, ReqType
    <3>2. /\ r \in Requests /\ r.at = "assemble" /\ r.saw = Parts
          /\ r.kind = req[h].kind /\ r.cycle = req[h].cycle /\ r.part = req[h].part
          /\ r.upload = u
      BY <1>1, <3>1 DEF Requests, Steps
    <3>3. req' = [req EXCEPT ![h] = r] /\ reply' = reply /\ UNCHANGED server
      BY <1>5, <2>1 DEF CompleteParts
    <3> HIDE DEF r
    <3>4. ReqType' /\ Progress(h) /\ req'[h] = r
      BY <1>1, <3>2, <3>3, GoingOn
    <3>5. RequestOK(h)' /\ ~ At(h, "create", "insert")'
      BY <1>1, <3>2, <3>3, <3>4 DEF RequestOK, server, Known, At
    <3> QED
      BY <3>3, <3>4, <3>5, Quiet
  <2>2. CASE ~ Contiguous(ledger[u])
    BY <1>1, <1>5, <2>2, RefusalIsQuiet DEF CompleteParts
  <2> QED
    BY <2>1, <2>2
<1>6. CASE CompleteAssemble(h)
  <2>1. CASE multi[u] = "open"
    <3>1. /\ object' = [object EXCEPT ![u] = Parts]
          /\ multi' = [multi EXCEPT ![u] = "gone"]
          /\ UNCHANGED <<att, ledger, stored>>
          /\ GoTo(h, "mark")
      BY <1>1, <1>6, <2>1 DEF CompleteAssemble, At, RequestOK
    <3>2. /\ ReqType' /\ Progress(h) /\ req'[h].at = "mark" /\ req'[h].kind = "complete"
          /\ req'[h].upload = u
      BY <1>1, <3>1, SteppingOn DEF Steps
    <3>3. /\ ServerType' /\ object'[u] = Parts
          /\ \A v \in Uploads : /\ object'[v] = object[v] \/ (v = u /\ object'[v] = Parts)
                                /\ multi[v] # None => multi'[v] # None
      <4>1. ServerType'
        <5>1. Parts \in SUBSET Parts
          OBVIOUS
        <5> QED
          BY <1>1, <1>2, <3>1, <5>1 DEF ServerType
      <4>2. object'[u] = Parts /\ \A v \in Uploads : v # u => object'[v] = object[v]
        BY <1>1, <1>2, <3>1 DEF ServerType
      <4>3. \A v \in Uploads : multi[v] # None => multi'[v] # None
        BY <1>1, <1>2, <3>1, NoneAssumption DEF ServerType
      <4> QED
        BY <4>1, <4>2, <4>3
    <3>4. Grows /\ ServerOK'
      BY <1>1, <1>2, <3>1, <3>3 DEF Grows, ServerOK, LedgerIsStored, CompletedIsWhole
    <3>5. RequestOK(h)' /\ ~ At(h, "create", "insert")'
      BY <1>1, <3>1, <3>2, <3>3 DEF RequestOK, Known, At
    <3> QED
      BY <1>2, <3>1, <3>2, <3>3, <3>4, <3>5 DEF HandlerOK
  <2>2. CASE multi[u] # "open"
    BY <1>1, <1>6, <2>2, RefusalIsQuiet DEF CompleteAssemble, server
  <2> QED
    BY <2>1, <2>2
<1>7. CASE CompleteMark(h)
  <2>1. /\ att' = [att EXCEPT ![u] = "completed"]
        /\ UNCHANGED <<ledger, multi, stored, object>>
        /\ Answer(h, Ok(u, {}))
        /\ object[u] = Parts
    BY <1>1, <1>7 DEF CompleteMark, At, RequestOK
  <2>2. /\ ServerType' /\ att'[u] = "completed" /\ multi[u] # None
        /\ \A v \in Uploads : v # u => att'[v] = att[v]
    BY <1>1, <1>2, <2>1 DEF ServerType, ServerOK, Known
  <2>3. Grows /\ ServerOK'
    BY <1>1, <1>2, <2>1, <2>2, NoneAssumption
       DEF Grows, ServerOK, LedgerIsStored, CompletedIsWhole
  <2>4. \A g \in Handlers : At(g, "create", "insert") => att'[req[g].upload] = None
    BY <1>1, <1>2, <2>2 DEF Known
  <2> QED
    BY <1>1, <1>3, <2>1, <2>2, <2>3, <2>4, Answering DEF HandlerOK
<1> QED
  BY <1>4, <1>5, <1>6, <1>7

LEMMA CreateOK ==
    ASSUME Inv, NEW h \in Handlers, CreateBegin(h) \/ CreateInsert(h)
    PROVE  HandlerOK(h)
<1>1. /\ ServerType /\ ServerOK
      /\ \A g \in Handlers : RequestOK(g)
      /\ \A g \in Handlers : At(g, "create", "insert") =>
            /\ req[g].upload \in Uploads
            /\ att[req[g].upload] = None /\ multi[req[g].upload] # None
  BY Types DEF Inv, ServerOK, OnlyKnownUploads, RequestOK, At
<1>2. CASE CreateBegin(h)
  <2>1. PICK u \in Uploads :
           /\ multi[u] = None
           /\ multi' = [multi EXCEPT ![u] = "open"]
           /\ req' = [req EXCEPT ![h].at = "insert", ![h].upload = u]
           /\ UNCHANGED <<att, ledger, stored, object, reply>>
    BY <1>2 DEF CreateBegin
  <2>2. req[h] # None /\ req[h].kind = "create" /\ req[h] \in Requests
    BY <1>2, Types DEF CreateBegin, At, Inv, ReqType
  <2> DEFINE r == [req[h] EXCEPT !.at = "insert", !.upload = u]
  <2>3. /\ r \in Requests /\ r.at = "insert" /\ r.upload = u
        /\ r.kind = req[h].kind /\ r.cycle = req[h].cycle /\ r.part = req[h].part
    BY <2>2 DEF Requests, Steps
  <2>4. req' = [req EXCEPT ![h] = r] /\ reply' = reply
    BY <2>1
  <2> HIDE DEF r
  <2>5. ReqType' /\ Progress(h) /\ req'[h] = r
    BY <2>2, <2>3, <2>4, GoingOn
  <2>6. /\ ServerType' /\ att[u] = None /\ multi'[u] # None
        /\ \A v \in Uploads : v # u => multi'[v] = multi[v]
    BY <1>1, <2>1, NoneAssumption DEF ServerType, ServerOK
  <2>7. Grows /\ ServerOK'
    BY <1>1, <2>1, <2>6 DEF Grows, ServerOK, LedgerIsStored, CompletedIsWhole
  <2>8. RequestOK(h)'
    BY <2>1, <2>2, <2>3, <2>5, <2>6 DEF RequestOK
  <2>9. \A g \in Handlers : At(g, "create", "insert") => att'[req[g].upload] = None
                                                         /\ req[g].upload # u
    BY <1>1, <2>1
  <2> QED
    BY <2>3, <2>5, <2>6, <2>7, <2>8, <2>9 DEF HandlerOK
<1>3. CASE CreateInsert(h)
  <2> DEFINE u == req[h].upload
  <2>1. /\ att' = [att EXCEPT ![u] = "uploading"]
        /\ UNCHANGED <<ledger, multi, stored, object>>
        /\ Answer(h, Ok(u, {}))
        /\ At(h, "create", "insert") /\ req[h] # None /\ req[h].kind = "create"
        /\ u \in Uploads /\ att[u] = None /\ multi[u] # None
    BY <1>1, <1>3 DEF CreateInsert, At
  <2>2. /\ ServerType' /\ att'[u] = "uploading" /\ att'[u] # None
        /\ \A v \in Uploads : v # u => att'[v] = att[v]
    BY <1>1, <2>1, NoneAssumption DEF ServerType
  <2>3. Grows /\ ServerOK'
    <3>1. \A v \in Uploads : att'[v] = "completed" => v # u
      BY <2>2
    <3>2. \A v \in Uploads : att[v] # None => att'[v] = att[v]
      BY <2>1, <2>2
    <3>3. Grows
      BY <2>1, <3>2, NoneAssumption DEF Grows
    <3>4. ASSUME NEW v \in Uploads
          PROVE  /\ att'[v] = "completed" => object[v] = Parts
                 /\ att'[v] # None => multi[v] # None
      BY <1>1, <2>1, <2>2, <3>1 DEF ServerOK, CompletedIsWhole
    <3> QED
      BY <1>1, <2>1, <3>3, <3>4 DEF ServerOK, LedgerIsStored, CompletedIsWhole
  <2>4. Ok(u, {}) \in Answers /\ Tells(h, Ok(u, {}))
    BY <2>1, <2>2, OkType DEF Ok, Tells
  <2>5. \A g \in Handlers \ {h} : At(g, "create", "insert") => att'[req[g].upload] = None
    BY <1>1, <2>1, <2>2 DEF Inv, InsertsDiffer
  <2> QED
    BY <2>1, <2>2, <2>3, <2>4, <2>5, Answering DEF HandlerOK
<1> QED
  BY <1>2, <1>3

\* A request that fails answers so; a create that fails may have its upload
\* aborted.
LEMMA FailsOK ==
    ASSUME Inv, NEW h \in Handlers, ServerFails(h)
    PROVE  HandlerOK(h)
<1>1. CASE UNCHANGED multi
  BY <1>1, RefusalIsQuiet DEF ServerFails, server
<1>2. CASE At(h, "create", "insert") /\ multi' = [multi EXCEPT ![req[h].upload] = "gone"]
  <2>1. /\ ServerType /\ ServerOK
        /\ \A g \in Handlers : At(g, "create", "insert") => att[req[g].upload] = None
    BY Types DEF Inv, ServerOK, OnlyKnownUploads, RequestOK, At
  <2>2. /\ req[h] # None /\ Answer(h, Error)
        /\ UNCHANGED <<att, ledger, stored, object>>
    BY DEF ServerFails
  <2>3. ServerType' /\ \A v \in Uploads : multi[v] # None => multi'[v] # None
    BY <1>2, <2>1, <2>2, NoneAssumption DEF ServerType
  <2>4. Grows /\ ServerOK'
    BY <2>1, <2>2, <2>3 DEF Grows, ServerOK, LedgerIsStored, CompletedIsWhole
  <2>5. Error \in Answers /\ Tells(h, Error)
    BY OkType DEF Error, Tells
  <2> QED
    BY <2>1, <2>2, <2>3, <2>4, <2>5, Answering DEF HandlerOK
<1> QED
  BY <1>1, <1>2 DEF ServerFails

LEMMA ServeInv ==
    ASSUME Inv, NEW h \in Handlers, Serve(h) \/ ServerFails(h)
    PROVE  Inv'
<1>1. HandlerOK(h)
  BY CreateOK, StatusOK, PartOK, CompleteOK, FailsOK DEF Serve
<1>2. UNCHANGED <<rec, cyc>>
  BY DEF Serve, ServerFails
<1>3. faults \in 0 .. MaxFaults
  BY DEF Inv, TypeOK
<1>4. faults' \in 0 .. MaxFaults
  BY <1>3, FaultsAssumption DEF Serve, ServerFails, MayFail
<1> QED
  BY <1>1, <1>2, <1>4, HandlerInv

-----------------------------------------------------------------------------
(* The client *)

RequestsOK ==
    /\ ReqType
    /\ InsertsDiffer
    /\ \A h \in Handlers : RequestOK(h) /\ LinkOK(h)

RecordsOK ==
    /\ RecType
    /\ \A p \in Photos : (rec[p].upload # None => Known(rec[p].upload)) /\ RecordOK(p)

LEMMA ServerStands ==
    ASSUME Inv, UNCHANGED server
    PROVE  Grows /\ ServerType'
  BY Types DEF Inv, Grows, server, ServerType

\* A step of cycle k, which leaves it in c with the answer r.
LEMMA ClientInv ==
    ASSUME Inv, NEW k \in Cycles, NEW c \in LocalStates, NEW r \in {None} \cup Answers,
           cyc' = [cyc EXCEPT ![k] = c], reply' = [reply EXCEPT ![k] = r],
           \A p \in Photos : c.list[p] # None => Known(c.list[p]),
           UNCHANGED server, faults' \in 0 .. MaxFaults,
           RequestsOK', RecordsOK', CycleOK(k)'
    PROVE  Inv'
<1>1. /\ ServerType /\ CycType /\ ReplyType /\ OnlyKnownUploads
      /\ LedgerIsStored /\ CompletedIsWhole
      /\ \A j \in Cycles : CycleOK(j)
  BY Types DEF Inv
<1>2. /\ cyc'[k] = c /\ reply'[k] = r
      /\ \A j \in Cycles \ {k} : cyc'[j] = cyc[j] /\ reply'[j] = reply[j]
  BY <1>1 DEF CycType, ReplyType
<1>3. TypeOK'
  <2>1. ServerType' /\ CycType' /\ ReplyType' /\ ReqType' /\ RecType'
    BY <1>1 DEF server, ServerType, CycType, ReplyType, RequestsOK, RecordsOK
  <2>2. faults' \in 0 .. MaxFaults
    OBVIOUS
  <2> QED
    BY <2>1, <2>2 DEF TypeOK, ServerType, ReqType, RecType, CycType, ReplyType,
        Requests, Answers, Records, LocalStates, Steps
<1>4. LedgerIsStored' /\ CompletedIsWhole'
  BY <1>1 DEF LedgerIsStored, CompletedIsWhole, server
<1>5. OnlyKnownUploads'
  <2>1. \A u : Known(u)' <=> Known(u)
    BY DEF Known, server
  <2>2. \A u \in Uploads : att'[u] # None => multi'[u] # None
    BY <1>1 DEF OnlyKnownUploads, server
  <2>3. ASSUME NEW j \in Cycles, NEW p \in Photos, cyc'[j].list[p] # None
        PROVE  Known(cyc'[j].list[p])
    BY <1>1, <1>2, <2>3 DEF OnlyKnownUploads
  <2>4. \A p \in Photos : rec'[p].upload # None => Known(rec'[p].upload)
    BY DEF RecordsOK, Known, server
  <2> QED
    BY <2>2, <2>3, <2>4 DEF OnlyKnownUploads, Known, server
<1>6. \A j \in Cycles : CycleOK(j)'
  BY <1>1, <1>2, ServerStands, CycleStays
<1> QED
  BY <1>3, <1>4, <1>5, <1>6 DEF Inv, RequestsOK, RecordsOK

\* A cycle that has its answer, or asked nothing, has no request out.
Nobody(k) == \A h \in Handlers : req[h] # None => req[h].cycle # k

LEMMA NobodyWorks ==
    ASSUME Inv, NEW k \in Cycles, reply[k] # None \/ cyc[k].at \in {"idle", "pick", "catch"}
    PROVE  Nobody(k)
<1>1. ASSUME NEW h \in Handlers, req[h] # None, req[h].cycle = k
      PROVE  FALSE
  <2>1. k # None /\ req[h].kind \in Kinds /\ LinkOK(h)
    BY <1>1, NoneAssumption DEF Inv, TypeOK
  <2> QED
    BY <1>1, <2>1 DEF LinkOK, Kinds
<1> QED
  BY <1>1 DEF Nobody

\* The request of a cycle goes out, ...
LEMMA Sending ==
    ASSUME Inv, NEW k \in Cycles, Nobody(k), UNCHANGED server,
           NEW kind \in Kinds, NEW u \in Uploads \cup {None}, NEW n \in Parts \cup {None},
           Send(k, kind, u, n),
           \A j \in Cycles \ {k} : cyc'[j] = cyc[j] /\ reply'[j] = reply[j],
           cyc'[k].at = kind, cyc'[k].upload = u, reply'[k] = None,
           kind # "create" => Known(u),
           kind = "part" => n \in Parts /\ n = Min(Parts \ cyc'[k].have),
           kind = "complete" => ledger[u] = Parts
    PROVE  RequestsOK'
<1> DEFINE r == Request(kind, u, n, k)
<1>1. PICK h \in Handlers : req[h] = None /\ req' = [req EXCEPT ![h] = r]
  BY DEF Send
<1>2. /\ r \in Requests /\ r.kind = kind /\ r.upload = u /\ r.part = n /\ r.cycle = k
      /\ r.at = FirstStep[kind]
  BY RequestType DEF Request
<1>3. /\ ReqType /\ InsertsDiffer
      /\ \A g \in Handlers : RequestOK(g) /\ LinkOK(g)
  BY Types DEF Inv
<1> HIDE DEF r
<1>4. ReqType' /\ req'[h] = r /\ \A g \in Handlers \ {h} : req'[g] = req[g]
  BY <1>1, <1>2, <1>3 DEF ReqType
<1>5. r.at = CASE kind = "create" -> "begin" [] kind = "status" -> "read" [] OTHER -> "admit"
  BY <1>2, FirstSteps DEF Kinds
<1>6. InsertsDiffer'
  BY <1>3, <1>4, <1>5 DEF InsertsDiffer, At
<1>7. ASSUME NEW g \in Handlers
      PROVE  RequestOK(g)'
  <2>1. CASE g # h
    BY <1>3, <1>4, <2>1 DEF RequestOK, Known, server
  <2>2. CASE g = h
    BY <1>2, <1>4, <1>5, <2>2 DEF RequestOK, Known, server, Kinds
  <2> QED
    BY <2>1, <2>2
<1>8. ASSUME NEW g \in Handlers
      PROVE  LinkOK(g)'
  <2>1. CASE g # h
    <3>1. req[g] # None => req[g].cycle \in Cycles \cup {None} /\ req[g].cycle # k
      BY <1>3 DEF ReqType, Requests, Nobody
    <3> QED
      BY <1>2, <1>3, <1>4, <2>1, <3>1 DEF LinkOK
  <2>2. CASE g = h
    BY <1>2, <1>4, <2>2 DEF LinkOK, Nobody
  <2> QED
    BY <2>1, <2>2
<1> QED
  BY <1>4, <1>6, <1>7, <1>8 DEF RequestsOK

\* ... or none does, ...
LEMMA NotSending ==
    ASSUME Inv, NEW k \in Cycles, Nobody(k), UNCHANGED server, req' = req,
           \A j \in Cycles \ {k} : cyc'[j] = cyc[j] /\ reply'[j] = reply[j]
    PROVE  RequestsOK'
<1>1. /\ ReqType /\ InsertsDiffer
      /\ \A g \in Handlers : RequestOK(g) /\ LinkOK(g)
  BY Types DEF Inv
<1>2. ASSUME NEW g \in Handlers
      PROVE  LinkOK(g)'
  <2>1. req[g] # None => req[g].cycle \in Cycles \cup {None} /\ req[g].cycle # k
    BY <1>1 DEF ReqType, Requests, Nobody
  <2> QED
    BY <1>1, <2>1 DEF LinkOK
<1> QED
  BY <1>1, <1>2 DEF RequestsOK, ReqType, InsertsDiffer, At, RequestOK, Known, server

\* ... or the one there is no longer works for the cycle.
LEMMA Orphaning ==
    ASSUME Inv, NEW k \in Cycles, Orphan(k), UNCHANGED server,
           \A j \in Cycles \ {k} : cyc'[j] = cyc[j] /\ reply'[j] = reply[j]
    PROVE  RequestsOK'
<1>1. /\ ReqType /\ InsertsDiffer /\ ServerType
      /\ \A g \in Handlers : RequestOK(g) /\ LinkOK(g)
  BY Types DEF Inv
<1>2. ASSUME NEW g \in Handlers
      PROVE  \/ req'[g] = req[g] /\ (req[g] # None => req[g].cycle # k)
             \/ /\ req[g] # None /\ req[g] \in Requests /\ req[g].cycle = k
                /\ req'[g] = [req[g] EXCEPT !.cycle = None]
  BY <1>1 DEF Orphan, ReqType
<1>3. ASSUME NEW g \in Handlers, req[g] # None
      PROVE  /\ req'[g].kind = req[g].kind /\ req'[g].at = req[g].at
             /\ req'[g].upload = req[g].upload /\ req'[g].part = req[g].part
             /\ req'[g].cycle = IF req[g].cycle = k THEN None ELSE req[g].cycle
             /\ req'[g] \in Requests
  <2>1. req[g] \in Requests
    BY <1>1, <1>3 DEF ReqType
  <2>2. CASE req'[g] = req[g] /\ req[g].cycle # k
    BY <2>1, <2>2
  <2>3. CASE req[g].cycle = k /\ req'[g] = [req[g] EXCEPT !.cycle = None]
    BY <2>1, <2>3 DEF Requests
  <2> QED
    BY <1>2, <1>3, <2>2, <2>3
<1>4. ReqType'
  BY <1>1, <1>2, <1>3 DEF Orphan, ReqType
<1>5. \A g \in Handlers : req'[g] # None => req[g] # None
  BY <1>2
<1>6. InsertsDiffer'
  BY <1>1, <1>3, <1>5 DEF InsertsDiffer, At
<1>7. \A g \in Handlers : RequestOK(g)'
  <2>1. Grows /\ ServerType'
    BY <1>1 DEF Grows, server, ServerType
  <2>2. \A g \in Handlers : At(g, "create", "insert") => att'[req[g].upload] = None
    BY <1>1 DEF RequestOK, At, server
  <2> QED
    BY <1>1, <1>2, <2>1, <2>2, RequestStays
<1>8. ASSUME NEW g \in Handlers
      PROVE  LinkOK(g)'
  <2>1. req[g] # None => req[g].cycle \in Cycles \cup {None}
    BY <1>1 DEF ReqType, Requests
  <2>2. \A f \in Handlers : req'[f] # None /\ req'[f].cycle # None =>
           req[f] # None /\ req[f].cycle # k /\ req'[f].cycle = req[f].cycle
    BY <1>3, <1>5
  <2>3. SUFFICES ASSUME req'[g] # None, req'[g].cycle # None PROVE LinkOK(g)'
    BY DEF LinkOK
  <2>4. LinkOK(g) /\ req[g].cycle \in Cycles \ {k} /\ req'[g].cycle = req[g].cycle
    BY <1>1, <2>1, <2>2, <2>3
  <2> QED
    BY <1>3, <2>2, <2>3, <2>4 DEF LinkOK
<1> QED
  BY <1>4, <1>6, <1>7, <1>8 DEF RequestsOK

\* A record is written.
LEMMA Putting ==
    ASSUME Inv, UNCHANGED server, NEW p \in Photos, NEW status \in RecordStatus,
           NEW u \in Uploads \cup {None}, Put(p, status, u),
           u # None => Known(u),
           status = "completed" => u # None /\ att[u] = "completed"
    PROVE  RecordsOK'
<1>1. /\ RecType
      /\ \A q \in Photos : (rec[q].upload # None => Known(rec[q].upload)) /\ RecordOK(q)
  BY Types DEF Inv, OnlyKnownUploads
<1>2. /\ rec'[p].status = status /\ rec'[p].upload = u
      /\ \A q \in Photos \ {p} : rec'[q] = rec[q]
      /\ RecType'
  BY <1>1 DEF Put, RecType, Records
<1> QED
  BY <1>1, <1>2 DEF RecordsOK, RecordOK, Known, server

LEMMA NotPutting ==
    ASSUME Inv, UNCHANGED server, rec' = rec
    PROVE  RecordsOK'
  BY Types DEF Inv, OnlyKnownUploads, RecordsOK, RecType, RecordOK, Known, server

\* What an action of cycle k starts from.
LEMMA CycleFacts ==
    ASSUME Inv, NEW k \in Cycles
    PROVE  /\ CycType /\ ReplyType /\ RecType /\ CycleOK(k)
           /\ cyc[k] \in LocalStates
           /\ reply[k] \in {None} \cup Answers
           /\ \A p \in Photos : cyc[k].list[p] # None => Known(cyc[k].list[p])
           /\ \A p \in Photos : rec[p].upload # None => Known(rec[p].upload)
           /\ cyc[k].at \in {"idle", "pick", "catch"} /\ reply' = reply =>
                 reply' = [reply EXCEPT ![k] = None]
           /\ Consume(k) => reply' = [reply EXCEPT ![k] = None]
           /\ reply' = [reply EXCEPT ![k] = None] =>
                 reply'[k] = None /\ \A j \in Cycles \ {k} : reply'[j] = reply[j]
           /\ \A c : cyc' = [cyc EXCEPT ![k] = c] =>
                 cyc'[k] = c /\ \A j \in Cycles \ {k} : cyc'[j] = cyc[j]
           /\ faults \in 0 .. MaxFaults
<1>1. /\ CycType /\ ReplyType /\ RecType /\ CycleOK(k) /\ OnlyKnownUploads
      /\ faults \in 0 .. MaxFaults
  BY Types DEF Inv
<1>2. cyc[k].at \in {"idle", "pick", "catch"} => reply[k] = None
  BY <1>1 DEF CycleOK, Kinds
<1> QED
  BY <1>1, <1>2 DEF CycType, ReplyType, OnlyKnownUploads, Consume

LEMMA IdleType == Idle \in LocalStates /\ Idle.at = "idle" /\ \A p \in Photos : Idle.list[p] = None
  BY DEF Idle, LocalStates

\* A cycle that is between two records, or has caught an error, or has ended.
LEMMA RestingInv ==
    ASSUME Inv, NEW k \in Cycles, NEW c \in LocalStates,
           c.at \in {"idle", "pick", "catch"}, Nobody(k), UNCHANGED server, req' = req, faults' = faults,
           cyc' = [cyc EXCEPT ![k] = c], reply' = [reply EXCEPT ![k] = None],
           \A p \in Photos : c.list[p] # None => Known(c.list[p]),
           c.at = "catch" => c.photo \in Photos /\ (c.upload # None => Known(c.upload)),
           RecordsOK'
    PROVE  Inv'
<1>1. /\ cyc'[k] = c /\ reply'[k] = None /\ faults' \in 0 .. MaxFaults
      /\ \A j \in Cycles \ {k} : cyc'[j] = cyc[j] /\ reply'[j] = reply[j]
  BY CycleFacts
<1>2. RequestsOK'
  BY <1>1, NotSending
<1>3. CycleOK(k)'
  BY <1>1 DEF CycleOK, Kinds, Known, server
<1>4. None \in {None} \cup Answers
  OBVIOUS
<1> QED
  BY <1>1, <1>2, <1>3, <1>4, ClientInv

LEMMA ListInv ==
    ASSUME Inv, NEW k \in Cycles, ListUploads(k)
    PROVE  Inv'
<1> DEFINE todo == {p \in Photos : rec[p].status # "completed"}
           c == [Idle EXCEPT !.at = "pick", !.todo = todo,
                             !.list = [p \in Photos |-> rec[p].upload]]
<1>1. /\ cyc[k].at = "idle"
      /\ cyc' = [cyc EXCEPT ![k] = c]
      /\ UNCHANGED server /\ req' = req /\ rec' = rec /\ reply' = reply /\ faults' = faults
  BY DEF ListUploads, List
<1>2. /\ c \in LocalStates /\ c.at = "pick"
      /\ \A p \in Photos : c.list[p] = rec[p].upload
  BY CycleFacts DEF Idle, LocalStates, RecType, Records
<1> HIDE DEF c
<1>3. RecordsOK' /\ Nobody(k) /\ reply' = [reply EXCEPT ![k] = None]
  BY <1>1, NotPutting, NobodyWorks, CycleFacts
<1>4. \A p \in Photos : c.list[p] # None => Known(c.list[p])
  BY <1>2, CycleFacts
<1> QED
  BY <1>1, <1>2, <1>3, <1>4, RestingInv

LEMMA EndInv ==
    ASSUME Inv, NEW k \in Cycles, EndCycle(k)
    PROVE  Inv'
<1>1. RecordsOK' /\ Nobody(k) /\ reply' = [reply EXCEPT ![k] = None]
  BY NotPutting, NobodyWorks, CycleFacts DEF EndCycle
<1> QED
  BY <1>1, IdleType, RestingInv DEF EndCycle

LEMMA CompletedInv ==
    ASSUME Inv, NEW k \in Cycles, OnCompleted(k)
    PROVE  Inv'
<1> DEFINE c == [cyc[k] EXCEPT !.at = "pick"]
           u == cyc[k].upload
<1>1. /\ cyc[k].at = "complete" /\ reply[k] # None /\ reply[k].ok
      /\ Put(cyc[k].photo, "completed", u)
      /\ cyc' = [cyc EXCEPT ![k] = c] /\ reply' = [reply EXCEPT ![k] = None]
      /\ UNCHANGED server /\ req' = req /\ faults' = faults
  BY CycleFacts DEF OnCompleted, Answered
<1>2. Known(u) /\ att[u] = "completed" /\ cyc[k].photo \in Photos
  <2>1. CycleOK(k)
    BY CycleFacts
  <2> QED
    BY <1>1, <2>1 DEF CycleOK, Kinds
<1>2a. u \in Uploads \cup {None} /\ u # None
  BY <1>2, NoneAssumption DEF Known
<1>3. RecordsOK'
  BY <1>1, <1>2, <1>2a, Putting DEF RecordStatus
<1>4. /\ c \in LocalStates /\ c.at = "pick" /\ c.list = cyc[k].list
  BY CycleFacts DEF LocalStates
<1> HIDE DEF c
<1>5. Nobody(k) /\ \A q \in Photos : c.list[q] # None => Known(c.list[q])
  BY <1>1, <1>4, NobodyWorks, CycleFacts
<1> QED
  BY <1>1, <1>3, <1>4, <1>5, RestingInv

LEMMA ErrorInv ==
    ASSUME Inv, NEW k \in Cycles, OnError(k)
    PROVE  Inv'
<1> DEFINE u == rec[cyc[k].photo].upload
           c == [cyc[k] EXCEPT !.at = "catch", !.upload = u]
<1>1. /\ cyc[k].at \in Kinds /\ reply[k] # None
      /\ cyc' = [cyc EXCEPT ![k] = c]
      /\ reply' = [reply EXCEPT ![k] = None]
      /\ UNCHANGED server /\ req' = req /\ rec' = rec /\ faults' = faults
  <2>1. cyc' = [cyc EXCEPT ![k] = c]
    BY DEF OnError
  <2>2. /\ cyc[k].at \in Kinds /\ reply[k] # None /\ Consume(k)
        /\ UNCHANGED server /\ req' = req /\ rec' = rec /\ faults' = faults
    BY DEF OnError
  <2> QED
    BY <2>1, <2>2 DEF Consume
<1>2. cyc[k].photo \in Photos /\ u \in Uploads \cup {None} /\ (u # None => Known(u))
  BY <1>1, CycleFacts DEF CycleOK, RecType, Records
<1>3. RecordsOK'
  BY <1>1, NotPutting
<1>4. /\ c \in LocalStates /\ c.at = "catch" /\ c.list = cyc[k].list
      /\ c.photo = cyc[k].photo /\ c.upload = u
  <2>1. cyc[k] \in LocalStates /\ u \in Uploads \cup {None}
    BY <1>2, CycleFacts
  <2> HIDE DEF u
  <2> QED
    BY <2>1 DEF LocalStates
<1> HIDE DEF c, u
<1>5. Nobody(k) /\ \A q \in Photos : c.list[q] # None => Known(c.list[q])
  BY <1>1, <1>4, NobodyWorks, CycleFacts
<1> QED
  BY <1>1, <1>2, <1>3, <1>4, <1>5, RestingInv

LEMMA MarkInv ==
    ASSUME Inv, NEW k \in Cycles, Mark(k)
    PROVE  Inv'
<1> DEFINE u == cyc[k].upload
           c == [cyc[k] EXCEPT !.at = "pick"]
           s == IF u = None THEN "staged" ELSE "failed"
<1>1. /\ cyc[k].at = "catch"
      /\ Put(cyc[k].photo, s, u)
      /\ cyc' = [cyc EXCEPT ![k] = c] \/ cyc' = [cyc EXCEPT ![k] = Idle]
      /\ reply' = [reply EXCEPT ![k] = None]
      /\ UNCHANGED server /\ req' = req /\ faults' = faults
  BY CycleFacts DEF Mark
<1>2. /\ cyc[k].photo \in Photos /\ u \in Uploads \cup {None} /\ (u # None => Known(u))
      /\ s \in RecordStatus /\ s # "completed"
  BY <1>1, CycleFacts DEF CycleOK, LocalStates, RecordStatus
<1>3. RecordsOK'
  <2> HIDE DEF s, u
  <2> QED
    BY <1>1, <1>2, Putting
<1>4. /\ c \in LocalStates /\ c.at = "pick" /\ c.list = cyc[k].list
  BY CycleFacts DEF LocalStates
<1> HIDE DEF c
<1>5. Nobody(k) /\ \A q \in Photos : c.list[q] # None => Known(c.list[q])
  <2>1. cyc[k].at \in {"idle", "pick", "catch"}
    BY <1>1
  <2>2. Nobody(k)
    BY <2>1, NobodyWorks
  <2> QED
    BY <1>4, <2>2, CycleFacts
<1>6. CASE cyc' = [cyc EXCEPT ![k] = c]
  BY <1>1, <1>3, <1>4, <1>5, <1>6, RestingInv
<1>7. CASE cyc' = [cyc EXCEPT ![k] = Idle]
  BY <1>1, <1>3, <1>5, <1>7, IdleType, RestingInv
<1> QED
  BY <1>1, <1>6, <1>7

\* A cycle that has sent its next request.
LEMMA SentInv ==
    ASSUME Inv, NEW k \in Cycles, NEW c \in LocalStates, Nobody(k),
           NEW n \in Parts \cup {None}, c.at \in Kinds, Send(k, c.at, c.upload, n),
           UNCHANGED server, faults' = faults,
           cyc' = [cyc EXCEPT ![k] = c], reply' = [reply EXCEPT ![k] = None],
           \A p \in Photos : c.list[p] # None => Known(c.list[p]),
           RecordsOK',
           c.photo \in Photos,
           c.at # "create" => Known(c.upload),
           c.at = "part" => /\ n \in Parts /\ n = Min(Parts \ c.have)
                            /\ c.have \subseteq ledger[c.upload] /\ c.have # Parts,
           c.at = "complete" => ledger[c.upload] = Parts
    PROVE  Inv'
<1>1. /\ cyc'[k] = c /\ reply'[k] = None /\ faults' \in 0 .. MaxFaults
      /\ \A j \in Cycles \ {k} : cyc'[j] = cyc[j] /\ reply'[j] = reply[j]
  BY CycleFacts
<1>2. c.upload \in Uploads \cup {None}
  BY DEF LocalStates
<1>3. RequestsOK'
  BY <1>1, <1>2, Sending
<1>4. CycleOK(k)'
  BY <1>1 DEF CycleOK, Known, server, Kinds
<1>5. None \in {None} \cup Answers
  OBVIOUS
<1> QED
  BY <1>1, <1>3, <1>4, <1>5, ClientInv

LEMMA UploadInv ==
    ASSUME Inv, NEW k \in Cycles, UploadOne(k)
    PROVE  Inv'
<1>1. PICK p \in cyc[k].todo :
         LET u == cyc[k].list[p]
             kind == IF u = None THEN "create" ELSE "status"
         IN  /\ IF u = None THEN Put(p, "creating", None) ELSE UNCHANGED rec
             /\ Send(k, kind, u, None)
             /\ cyc' = [cyc EXCEPT ![k].at = kind, ![k].photo = p, ![k].upload = u,
                                   ![k].have = {}, ![k].todo = @ \ {p}]
  BY DEF UploadOne
<1> DEFINE u == cyc[k].list[p]
           kind == IF u = None THEN "create" ELSE "status"
           c == [cyc[k] EXCEPT !.at = kind, !.photo = p, !.upload = u,
                               !.have = {}, !.todo = @ \ {p}]
<1>2. cyc[k] \in LocalStates /\ cyc[k].at = "pick"
  BY CycleFacts DEF UploadOne
<1>3. p \in Photos /\ u \in Uploads \cup {None} /\ (u # None => Known(u)) /\ kind \in Kinds
  BY <1>1, <1>2, CycleFacts DEF LocalStates, Kinds
<1>4. kind = "status" => u # None
  OBVIOUS
<1>5. /\ Send(k, kind, u, None) /\ cyc' = [cyc EXCEPT ![k] = c]
      /\ Put(p, "creating", None) \/ rec' = rec
      /\ UNCHANGED server /\ reply' = reply /\ faults' = faults
  <2>1. Send(k, kind, u, None)
    BY <1>1
  <2>2. cyc' = [cyc EXCEPT ![k] = c]
    BY <1>1
  <2>3. Put(p, "creating", None) \/ rec' = rec
    BY <1>1
  <2>4. UNCHANGED server /\ reply' = reply /\ faults' = faults
    BY DEF UploadOne
  <2> QED
    BY <2>1, <2>2, <2>3, <2>4
<1>6. kind \in {"create", "status"}
  OBVIOUS
<1> HIDE DEF kind, u
<1>7. /\ c \in LocalStates /\ c.at = kind /\ c.photo = p /\ c.upload = u
      /\ c.list = cyc[k].list
  BY <1>2, <1>3 DEF LocalStates
<1>8. /\ Nobody(k) /\ reply' = [reply EXCEPT ![k] = None]
      /\ \A q \in Photos : c.list[q] # None => Known(c.list[q])
  BY <1>2, <1>5, <1>7, NobodyWorks, CycleFacts
<1>9. RecordsOK'
  <2>1. "creating" \in RecordStatus /\ None \in Uploads \cup {None}
    BY DEF RecordStatus
  <2> QED
    BY <1>3, <1>5, <2>1, Putting, NotPutting
<1> HIDE DEF c
<1>10. None \in Parts \cup {None}
  OBVIOUS
<1> QED
  BY <1>3, <1>4, <1>5, <1>6, <1>7, <1>8, <1>9, <1>10, SentInv

LEMMA CreatedInv ==
    ASSUME Inv, NEW k \in Cycles, OnCreated(k)
    PROVE  Inv'
<1> DEFINE u == reply[k].upload
           c == [cyc[k] EXCEPT !.at = "status", !.upload = u]
<1>1. /\ cyc[k].at = "create" /\ reply[k] # None /\ reply[k].ok
      /\ Put(cyc[k].photo, "creating", u)
      /\ Send(k, "status", u, None)
      /\ cyc' = [cyc EXCEPT ![k] = c] /\ reply' = [reply EXCEPT ![k] = None]
      /\ UNCHANGED server /\ faults' = faults
  <2>1. Send(k, "status", u, None) /\ Put(cyc[k].photo, "creating", u)
    BY DEF OnCreated
  <2>2. cyc' = [cyc EXCEPT ![k] = c]
    BY DEF OnCreated
  <2>3. /\ cyc[k].at = "create" /\ reply[k] # None /\ reply[k].ok /\ Consume(k)
        /\ UNCHANGED server /\ faults' = faults
    BY DEF OnCreated, Answered
  <2> QED
    BY <2>1, <2>2, <2>3 DEF Consume
<1>2. Known(u) /\ cyc[k].photo \in Photos
  <2>1. CycleOK(k)
    BY CycleFacts
  <2> QED
    BY <1>1, <2>1 DEF CycleOK, Kinds
<1>3. u \in Uploads \cup {None}
  BY <1>2 DEF Known
<1> HIDE DEF u
<1>4. /\ c \in LocalStates /\ c.at = "status" /\ c.photo = cyc[k].photo /\ c.upload = u
      /\ c.list = cyc[k].list
  <2>1. cyc[k] \in LocalStates
    BY CycleFacts
  <2> QED
    BY <1>3, <2>1 DEF LocalStates, Kinds
<1> HIDE DEF c
<1>5. Nobody(k) /\ \A q \in Photos : c.list[q] # None => Known(c.list[q])
  BY <1>1, <1>4, NobodyWorks, CycleFacts
<1>6. RecordsOK'
  BY <1>1, <1>2, <1>3, Putting DEF RecordStatus
<1>7. None \in Parts \cup {None} /\ "status" \in Kinds
  BY DEF Kinds
<1> QED
  BY <1>1, <1>2, <1>4, <1>5, <1>6, <1>7, SentInv

\* A cycle that knows these parts to be there.
LEMMA PartsInv ==
    ASSUME Inv, NEW k \in Cycles, NEW have, OnParts(k, have), reply[k] # None,
           Known(cyc[k].upload), cyc[k].photo \in Photos, have \subseteq ledger[cyc[k].upload]
    PROVE  Inv'
<1> DEFINE u == cyc[k].upload
           missing == Parts \ have
           kind == IF missing = {} THEN "complete" ELSE "part"
           n == IF missing = {} THEN None ELSE Min(missing) - 0
           status == IF missing = {} THEN "completing" ELSE "uploading"
           c == [cyc[k] EXCEPT !.at = kind, !.have = have]
<1>1. /\ Put(cyc[k].photo, status, u)
      /\ Send(k, kind, u, n)
      /\ cyc' = [cyc EXCEPT ![k] = c] /\ reply' = [reply EXCEPT ![k] = None]
      /\ UNCHANGED server /\ faults' = faults
  <2>1. Put(cyc[k].photo, status, u)
    BY DEF OnParts, SendNext
  <2>2. Send(k, kind, u, n)
    BY DEF OnParts, SendNext
  <2>3. cyc' = [cyc EXCEPT ![k] = c]
    BY DEF OnParts, SendNext
  <2>4. reply' = [reply EXCEPT ![k] = None] /\ UNCHANGED server /\ faults' = faults
    BY DEF OnParts, SendNext, Consume
  <2> QED
    BY <2>1, <2>2, <2>3, <2>4
<1>2. /\ u \in Uploads \cup {None} /\ u \in Uploads
      /\ ledger[u] \in SUBSET Parts /\ have \in SUBSET Parts
  BY Types DEF Known, Inv, ServerType
<1>3. /\ status \in RecordStatus /\ status # "completed"
      /\ kind \in Kinds /\ kind # "create" /\ kind # "status"
  BY DEF RecordStatus, Kinds
<1>4. /\ n \in Parts \cup {None}
      /\ kind = "part" => n \in Parts /\ n = Min(Parts \ have) /\ have # Parts
      /\ kind = "complete" => ledger[u] = Parts
  <2>1. missing # {} => Min(missing) \in Parts /\ Min(missing) - 0 = Min(missing)
    <3>1. missing # {} => Min(missing) \in Parts
      BY MinInSet
    <3> QED
      BY <3>1, PartsAssumption DEF Parts
  <2>2. missing = {} => ledger[u] = Parts
    BY <1>2
  <2> QED
    BY <2>1, <2>2
<1> HIDE DEF kind, n, status, u, missing
<1>5. /\ c \in LocalStates /\ c.at = kind /\ c.photo = cyc[k].photo /\ c.upload = u
      /\ c.list = cyc[k].list /\ c.have = have
  <2>1. cyc[k] \in LocalStates /\ u = cyc[k].upload
    BY CycleFacts DEF u
  <2> QED
    BY <1>2, <1>3, <2>1 DEF LocalStates
<1> HIDE DEF c
<1>6. Nobody(k) /\ \A q \in Photos : c.list[q] # None => Known(c.list[q])
  BY <1>5, NobodyWorks, CycleFacts
<1>7. RecordsOK'
  BY <1>1, <1>2, <1>3, Putting DEF u
<1> QED
  BY <1>1, <1>3, <1>4, <1>5, <1>6, <1>7, SentInv DEF u

LEMMA AnsweredInv ==
    ASSUME Inv, NEW k \in Cycles, OnStatus(k) \/ OnPart(k)
    PROVE  Inv'
<1>1. /\ cyc[k].at \in {"status", "part"} /\ reply[k] # None /\ reply[k].ok
      /\ CycleOK(k)
  BY CycleFacts DEF OnStatus, OnPart, Answered
<1>2. Known(cyc[k].upload) /\ cyc[k].photo \in Photos
  BY <1>1 DEF CycleOK, Kinds
<1>3. CASE OnStatus(k)
  <2>1. reply[k].parts \subseteq ledger[cyc[k].upload]
    BY <1>1, <1>3 DEF OnStatus, Answered, CycleOK
  <2> QED
    BY <1>1, <1>2, <1>3, <2>1, PartsInv DEF OnStatus
<1>4. CASE OnPart(k)
  <2>1. cyc[k].have \cup {Min(Parts \ cyc[k].have)} \subseteq ledger[cyc[k].upload]
    BY <1>1, <1>4 DEF OnPart, Answered, CycleOK
  <2> QED
    BY <1>1, <1>2, <1>4, <2>1, PartsInv DEF OnPart
<1> QED
  BY <1>3, <1>4

LEMMA FaultInv ==
    ASSUME Inv, NEW k \in Cycles, NetworkFails(k) \/ Reload(k)
    PROVE  Inv'
<1>1. /\ Orphan(k) /\ UNCHANGED server /\ rec' = rec /\ faults' = faults + 1
      /\ faults < MaxFaults /\ RecordsOK'
  BY NotPutting DEF NetworkFails, Reload, MayFail
<1>2. faults' \in 0 .. MaxFaults
  BY <1>1, CycleFacts, FaultsAssumption
<1>3. CASE NetworkFails(k)
  <2> DEFINE c == cyc[k]
  <2>1. /\ cyc' = [cyc EXCEPT ![k] = c] /\ reply' = [reply EXCEPT ![k] = Error]
        /\ cyc' = cyc
        /\ cyc[k].at \in Kinds
    BY <1>3, CycleFacts DEF NetworkFails, CycType
  <2>2. /\ reply'[k] = Error
        /\ \A j \in Cycles \ {k} : cyc'[j] = cyc[j] /\ reply'[j] = reply[j]
    BY <2>1, CycleFacts DEF ReplyType
  <2>3. RequestsOK'
    BY <1>1, <2>2, Orphaning
  <2>4. CycleOK(k)'
    <3>1. CycleOK(k) /\ ~ Error.ok
      BY CycleFacts DEF Error
    <3> HIDE DEF c
    <3> QED
      BY <1>1, <2>1, <2>2, <3>1 DEF CycleOK, Known, server
  <2>5. Error \in {None} \cup Answers /\ c \in LocalStates
        /\ \A p \in Photos : c.list[p] # None => Known(c.list[p])
    BY OkType, CycleFacts
  <2> HIDE DEF c
  <2> QED
    BY <1>1, <1>2, <2>1, <2>3, <2>4, <2>5, ClientInv
<1>4. CASE Reload(k)
  <2>1. /\ cyc' = [cyc EXCEPT ![k] = Idle] /\ reply' = [reply EXCEPT ![k] = None]
    BY <1>4, CycleFacts DEF Reload
  <2>2. /\ cyc'[k] = Idle /\ reply'[k] = None
        /\ \A j \in Cycles \ {k} : cyc'[j] = cyc[j] /\ reply'[j] = reply[j]
    BY <2>1, CycleFacts
  <2>3. RequestsOK'
    BY <1>1, <2>2, Orphaning
  <2>4. CycleOK(k)'
    BY <2>2, IdleType DEF CycleOK, Kinds
  <2>5. None \in {None} \cup Answers
    OBVIOUS
  <2> QED
    BY <1>1, <1>2, <2>1, <2>3, <2>4, <2>5, IdleType, ClientInv
<1> QED
  BY <1>3, <1>4

-----------------------------------------------------------------------------
(* The theorems *)

LEMMA InitInv == Init => Inv
<1> SUFFICES ASSUME Init PROVE Inv
  OBVIOUS
<1>1. ServerType /\ ReqType /\ ReplyType /\ faults \in 0 .. MaxFaults
  BY FaultsAssumption DEF Init, ServerType, ReqType, ReplyType
<1>2. RecType /\ CycType
  BY IdleType DEF Init, RecType, CycType, Records, RecordStatus
<1>3. \A k \in Cycles : cyc[k] = Idle /\ reply[k] = None
  BY DEF Init
<1>4. \A k \in Cycles : CycleOK(k)
  BY <1>3, IdleType DEF CycleOK, Kinds
<1>5. OnlyKnownUploads
  BY <1>3, IdleType DEF Init, OnlyKnownUploads
<1>6. \A h \in Handlers : req[h] = None
  BY DEF Init
<1>7. InsertsDiffer /\ \A h \in Handlers : RequestOK(h) /\ LinkOK(h)
  BY <1>6 DEF InsertsDiffer, RequestOK, LinkOK, At
<1>8. LedgerIsStored /\ CompletedIsWhole /\ \A p \in Photos : RecordOK(p)
  BY NoneAssumption DEF Init, LedgerIsStored, CompletedIsWhole, RecordOK
<1> QED
  BY <1>1, <1>2, <1>4, <1>5, <1>7, <1>8, Types DEF Inv

LEMMA StutterInv ==
    ASSUME Inv, UNCHANGED vars
    PROVE  Inv'
<1>1. TypeOK' /\ LedgerIsStored' /\ CompletedIsWhole'
  BY DEF vars, server, Inv, TypeOK, LedgerIsStored, CompletedIsWhole
<1>2. OnlyKnownUploads' /\ InsertsDiffer' /\ \A p \in Photos : RecordOK(p)'
  BY DEF vars, server, Inv, OnlyKnownUploads, InsertsDiffer, At, RecordOK, Known
<1>3. \A h \in Handlers : RequestOK(h)'
  BY DEF vars, server, Inv, RequestOK, Known
<1>4. \A h \in Handlers : LinkOK(h)'
  BY DEF vars, server, Inv, LinkOK
<1>5. \A k \in Cycles : CycleOK(k)'
  BY DEF vars, server, Inv, CycleOK, Known
<1> QED
  BY <1>1, <1>2, <1>3, <1>4, <1>5 DEF Inv

\* The invariant is inductive.
THEOREM Invariance == Spec => []Inv
<1>1. Inv /\ [Next]_vars => Inv'
  BY ServeInv, ListInv, UploadInv, EndInv, CreatedInv, AnsweredInv, CompletedInv, ErrorInv,
     MarkInv, FaultInv, StutterInv DEF Next, Run
<1> QED
  BY <1>1, InitInv, PTL DEF Spec

\* Every variable keeps its type.
THEOREM TypeCorrect == Spec => []TypeOK
<1>1. Inv => TypeOK
  BY DEF Inv
<1> QED
  BY <1>1, Invariance, PTL

\* The part ledger never claims what MinIO lacks.
THEOREM LedgerSafety == Spec => []LedgerIsStored
<1>1. Inv => LedgerIsStored
  BY DEF Inv
<1> QED
  BY <1>1, Invariance, PTL

\* A completed attachment has every part of the photo, although the server
\* does not count them.
THEOREM WholeObjects == Spec => []CompletedIsWhole
<1>1. Inv => CompletedIsWhole
  BY DEF Inv
<1> QED
  BY <1>1, Invariance, PTL

\* What the device calls uploaded is completed on the server.
THEOREM ClientHonesty == Spec => []ClientTruth
<1>1. Inv => ClientTruth
  BY DEF Inv, RecordOK, ClientTruth
<1> QED
  BY <1>1, Invariance, PTL
=============================================================================
