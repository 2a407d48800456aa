---------------------------- MODULE MCSyncServer ----------------------------
(***************************************************************************)
(* Instances of SyncServer for TLC.  Each scenario is a payload function   *)
(* for OpOf with the requests that deliver it; a cfg picks one.            *)
(***************************************************************************)
EXTENDS SyncServer, TLC

CONSTANTS i1, i2, u1, u2, o1, o2, o3, o4,
          title, status, ownerId, blank, newTitle, draft, submitted, approved, a, b

MCNames    == {title, status, ownerId}
MCEditable == {title, status}
MCValues   == {blank, newTitle, draft, submitted, approved, a, b}
MCInitial  == (title :> blank) @@ (status :> draft)

To(v, base) == [v |-> v, base |-> base]

Operate(type, i, changes, f, v) ==
    [type |-> type, insp |-> i, changes |-> changes, field |-> f, value |-> v]
Upsert(i, changes) == Operate("upsert", i, changes, title, None)
Delete(i)          == Operate("delete", i, << >>, title, None)
Resolve(i, f, v)   == Operate("resolve_conflict", i, << >>, f, v)

OneKeyEach == [id \in OpIds |-> id]

\* Requests are few, as any prefix of one is delivered if its handler is
\* abandoned, and any part of it takes effect if the rest fails.

\* Two devices create an inspection under one id, or the second edits the
\* title and the status of the first, from the same base; another op builds
\* on the first, and a human settles the conflict.
MergeOps ==
    (o1 :> Upsert(i1, (title :> To(a, blank)) @@ (status :> To(submitted, draft)))) @@
    (o2 :> Upsert(i1, (title :> To(b, blank)) @@ (status :> To(approved, draft)))) @@
    (o3 :> Resolve(i1, title, b)) @@
    (o4 :> Upsert(i1, title :> To(blank, a)))
MergeBatches == {<<o1, o4>>, <<o2, o3>>}
NobodyYet == i1 :> None

\* Two operations may share one advisory lock key.
SharedKey == [id \in OpIds |-> IF id = o4 THEN o1 ELSE id]

\* An inspection is created (with no title), submitted, edited and deleted by
\* its owner's devices in any order, and touched by another user.
LifeOps ==
    (o1 :> Upsert(i2, title :> To(blank, None))) @@
    (o2 :> Upsert(i2, status :> To(submitted, draft))) @@
    (o3 :> Delete(i2)) @@
    (o4 :> Operate("malformed", i2, << >>, title, None))
LifeBatches == {<<o1, o2>>, <<o4, o3>>}
Unassigned == i2 :> None

\* A status conflict, settled to "submitted" by a resolve_conflict, on an
\* inspection that may be deleted meanwhile.
ResolveOps ==
    (o1 :> Upsert(i1, status :> To(approved, draft))) @@
    (o2 :> Upsert(i1, status :> To(submitted, blank))) @@
    (o3 :> Resolve(i1, status, submitted)) @@
    (o4 :> Delete(i1))
ResolveBatches == {<<o1>>, <<o2, o3>>, <<o4>>}
OnlyI1 == i1 :> u1
=============================================================================
