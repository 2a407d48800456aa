--------------------------- MODULE MCOfflineSync ---------------------------
(***************************************************************************)
(* Instances of OfflineSync for TLC.  Op ids are numbers; a scenario lists *)
(* the payloads that each device, and an API client, may mint.             *)
(***************************************************************************)
EXTENDS OfflineSync, Sequences, TLC

CONSTANTS i1, i2, u1, u2, d1, d2, k1, k2,
          title, status, blank, newTitle, draft, submitted, approved, rejected, otherTitle, null

MCEditable == {title, status}
MCValues   == {blank, newTitle, draft, submitted, approved, rejected, otherTitle, null}
MCInitial  == (title :> blank) @@ (status :> draft)

To(v, base) == [v |-> v, base |-> base]

Operate(type, i, changes, f, v) ==
    [type |-> type, insp |-> i, changes |-> changes, field |-> f, value |-> v]
Upsert(i, changes) == Operate("upsert", i, changes, title, None)
Delete(i)          == Operate("delete", i, << >>, title, None)
Resolve(i, f, v)   == Operate("resolve_conflict", i, << >>, f, v)

\* The edit of a status, and a creation with every field.
Edit(i, v, base) == Upsert(i, status :> To(v, base))
Create(i) == Upsert(i, (title :> To(newTitle, None)) @@ (status :> To(draft, None)))

OnlyI1 == i1 :> u1
Everyone == [d \in Devices |-> u1]

\* Two devices edit the status of an inspection, one of them to and fro, and
\* settle their conflicts.
PairPool == <<
    <<d1, Edit(i1, submitted, draft)>>,    <<d1, Edit(i1, submitted, approved)>>,
    <<d1, Edit(i1, draft, submitted)>>,    <<d1, Edit(i1, draft, approved)>>,
    <<d1, Resolve(i1, status, submitted)>>, <<d1, Resolve(i1, status, approved)>>,
    <<d1, Resolve(i1, status, draft)>>,
    <<d2, Edit(i1, approved, draft)>>,     <<d2, Edit(i1, approved, submitted)>>,
    <<d2, Resolve(i1, status, submitted)>>, <<d2, Resolve(i1, status, approved)>>,
    <<d2, Resolve(i1, status, draft)>> >>
PairOps  == [id \in OpIds |-> PairPool[id][2]]
PairHome == [id \in OpIds |-> PairPool[id][1]]
\* One device edits a chain and another field, settles and deletes; an API
\* client edits both fields.
SoloPool == <<
    <<d1, Edit(i1, submitted, draft)>>,  <<d1, Edit(i1, approved, submitted)>>,
    <<d1, Edit(i1, approved, draft)>>,   <<d1, Upsert(i1, title :> To(newTitle, blank))>>,
    <<d1, Resolve(i1, status, submitted)>>, <<d1, Resolve(i1, status, rejected)>>,
    <<d1, Delete(i1)>>,
    <<None, Upsert(i1, (title :> To(otherTitle, blank)) @@ (status :> To(rejected, draft)))>> >>
SoloOps  == [id \in OpIds |-> SoloPool[id][2]]
SoloHome == [id \in OpIds |-> SoloPool[id][1]]

\* A card made on the device: created, edited and deleted there, edited by
\* an API client.
CardPool == <<
    <<d1, Create(i2)>>,                     <<d1, Edit(i2, submitted, draft)>>,
    <<d1, Edit(i2, submitted, approved)>>,  <<d1, Delete(i2)>>,
    <<None, Edit(i2, approved, draft)>> >>
CardOps  == [id \in OpIds |-> CardPool[id][2]]
CardHome == [id \in OpIds |-> CardPool[id][1]]
OnlyI2   == i2 :> None

OneEach  == (k1 :> d1) @@ (k2 :> d2)
OneCycle == k1 :> d1
BothOnD1 == (k1 :> d1) @@ (k2 :> d1)

Bounds(ops, incidents) ==
    [b \in Bounded |-> CASE b = "ops" -> ops [] b = "incidents" -> incidents [] OTHER -> 1]
TwoOps   == Bounds(2, 1)
ThreeOps == Bounds(3, 1)
=============================================================================
