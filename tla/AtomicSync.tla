----------------------------- MODULE AtomicSync -----------------------------
(***************************************************************************)
(* What POST /api/sync promises: every operation is decided once, in one   *)
(* step, against the state of its inspection at that step, and its outcome *)
(* enters the ledger with its effect.  No connections, locks or            *)
(* transactions: SyncServer is shown to implement this.                    *)
(***************************************************************************)
EXTENDS SyncRules

VARIABLES
    rows,     \* inspection -> its record, or None
    ledger,   \* op id -> its entry in processed_ops, or None
    waiting   \* inspections with an attachment that is not completed

vars == <<rows, ledger, waiting>>

Init ==
    /\ rows = SeedRows
    /\ ledger = [id \in OpIds |-> None]
    /\ waiting = {}

\* Operation id of user u takes effect against the inspection as it is.
Apply(u, id) ==
    LET i == OpOf[id].insp
        out == Outcome(u, id, rows[i], i \in waiting)
    IN  /\ ~ Malformed(id)
        /\ ledger[id] = None
        /\ out.status \in LedgeredStatus
        /\ rows' = [rows EXCEPT ![i] = out.row]
        /\ ledger' = [ledger EXCEPT ![id] = Entry(u, out)]
        /\ UNCHANGED waiting

\* An operation that found no inspection and creates none may be recorded
\* after another one created it: nothing locks a row that does not exist.
ApplyToNothing(u, id) ==
    LET out == Outcome(u, id, None, FALSE)
    IN  /\ ~ Malformed(id)
        /\ ledger[id] = None
        /\ out.status \in LedgeredStatus
        /\ out.row = None
        /\ ledger' = [ledger EXCEPT ![id] = Entry(u, out)]
        /\ UNCHANGED <<rows, waiting>>

OpenAttachment(i) ==
    /\ rows[i] # None
    /\ waiting' = waiting \cup {i}
    /\ UNCHANGED <<rows, ledger>>

CompleteAttachments(i) ==
    /\ i \in waiting
    /\ waiting' = waiting \ {i}
    /\ UNCHANGED <<rows, ledger>>

Next ==
    \/ \E u \in Users, id \in OpIds : Apply(u, id) \/ ApplyToNothing(u, id)
    \/ \E i \in Inspections : OpenAttachment(i) \/ CompleteAttachments(i)

Spec == Init /\ [][Next]_vars

\* Every variable has its type.
TypeOK ==
    /\ rows \in [Inspections -> Row \cup {None}]
    /\ ledger \in [OpIds -> Entries \cup {None}]
    /\ waiting \subseteq Inspections
=============================================================================
