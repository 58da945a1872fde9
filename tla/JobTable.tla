------------------------------ MODULE JobTable ------------------------------
(***************************************************************************)
(* The jobs table and the statements packages/db/src/queue.ts runs on it.  *)
(* Every statement is one SQL command, hence one atomic change of the      *)
(* table: an operator from the table before it to the table after it.      *)
(*                                                                         *)
(* Time is abstracted to the two comparisons the SQL makes: `due` stands   *)
(* for run_at <= now() and `expired` for locked_until < now().  The lease  *)
(* token is a fresh UUID in the code; since every lease also increments    *)
(* `attempts`, the attempt's number identifies a lease of a job equally    *)
(* well and is used as the token (0 is SQL null).                          *)
(***************************************************************************)
EXTENDS Naturals

CONSTANTS
    JobIds,       \* the identity column's values, in the order they are given
    Works,        \* what a job is for: its type, user and payload
    NoKey,        \* a job without a dedupe key
    MaxAttempts   \* maxAttempts of the jobs

ASSUME JobTableAssumption ==
    /\ JobIds \subseteq Nat
    /\ NoKey \notin Works
    /\ MaxAttempts \in Nat \ {0}

Keys == Works \cup {NoKey}

JobStatus == {"absent", "queued", "running", "done", "failed"}

Job == [status   : JobStatus,
        work     : Keys,
        key      : Keys,
        due      : BOOLEAN,
        expired  : BOOLEAN,
        token    : Nat,
        attempts : Nat]

\* A row that was never inserted.
NoJob == [status |-> "absent", work |-> NoKey, key |-> NoKey, due |-> FALSE,
          expired |-> FALSE, token |-> 0, attempts |-> 0]

QueuedJob(w, k, due) ==
    [NoJob EXCEPT !.status = "queued", !.work = w, !.key = k, !.due = due]

EmptyTable == [j \in JobIds |-> NoJob]

\* What a worker is given: the job and the token that proves the lease.
LeaseOf(tbl, j) == [job |-> j, token |-> tbl[j].token]

Lease == [job : JobIds, token : Nat]

-----------------------------------------------------------------------------
(* enqueue                                                                 *)

\* Mutant: the index covers running jobs too.
MutCollidingWhileRunning(tbl, k) ==
    {j \in JobIds : k # NoKey /\ tbl[j].status \in {"queued", "running"}
                   /\ tbl[j].key = k}

\* The rows the partial unique index lets an insert with this key collide
\* with: dedupe_key = k where status = 'queued'.
Colliding(tbl, k) ==
    {j \in JobIds : k # NoKey /\ tbl[j].status = "queued" /\ tbl[j].key = k}

\* The identity column numbers rows in the order they are inserted.
NextId(tbl, j) ==
    /\ tbl[j].status = "absent"
    /\ \A i \in JobIds : i < j => tbl[i].status # "absent"

Inserted(old, new, w, k, due) ==
    \E j \in JobIds : /\ NextId(old, j)
                      /\ new = [old EXCEPT ![j] = QueuedJob(w, k, due)]

\* onDuplicate: "ignore" (the default).
EnqueueIgnore(old, new, w, k, due) ==
    IF Colliding(old, k) = {}
    THEN Inserted(old, new, w, k, due)
    ELSE new = old

\* onDuplicate: "reschedule": the queued job takes this call's run time.
EnqueueReschedule(old, new, w, k, due) ==
    IF Colliding(old, k) = {}
    THEN Inserted(old, new, w, k, due)
    ELSE new = [j \in JobIds |-> IF j \in Colliding(old, k)
                                 THEN [old[j] EXCEPT !.due = due]
                                 ELSE old[j]]

-----------------------------------------------------------------------------
(* lease, complete, fail, extendLease                                      *)

\* Mutant: expired leases are not taken over.
MutLeasableQueuedOnly(tbl, j) == tbl[j].status = "queued" /\ tbl[j].due

Leasable(tbl, j) ==
    \/ tbl[j].status = "queued" /\ tbl[j].due
    \/ tbl[j].status = "running" /\ tbl[j].expired

Leased(tbl, j) ==
    [tbl EXCEPT ![j] = [@ EXCEPT !.status = "running", !.expired = FALSE,
                                 !.token = tbl[j].attempts + 1,
                                 !.attempts = tbl[j].attempts + 1]]

\* Mutant: the token is not compared.
MutHeldByStatus(tbl, l) == tbl[l.job].status = "running"

\* Matches the job only while this lease is still the current one.
Held(tbl, l) ==
    /\ tbl[l.job].status = "running"
    /\ tbl[l.job].token = l.token

\* Mutant: the token stays on the finished row.
MutEndedKeepsToken(tbl, j, status) ==
    [tbl EXCEPT ![j] = [@ EXCEPT !.status = status, !.expired = FALSE]]

Ended(tbl, j, status) ==
    [tbl EXCEPT ![j] = [@ EXCEPT !.status = status, !.expired = FALSE, !.token = 0]]

\* Mutant: complete is not guarded by the lease.
MutCompletedUnguarded(tbl, l) == Ended(tbl, l.job, "done")

Completed(tbl, l) ==
    IF Held(tbl, l) THEN Ended(tbl, l.job, "done") ELSE tbl

\* Mutant: one attempt too many.
MutExhaustedLate(l) == l.token > MaxAttempts

\* `attempts` as it was when the lease was given, which is its token.
Exhausted(l) == l.token >= MaxAttempts

\* Mutant: a retried job always keeps its key.
MutRetryKeyKept(tbl, j) == tbl[j].key

\* If a newer job with the same key is queued, it will do this work: the
\* retried job gives its key up rather than violate the unique index.
RetryKey(tbl, j) ==
    IF Colliding(tbl, tbl[j].key) \ {j} # {} THEN NoKey ELSE tbl[j].key

Requeued(tbl, j) ==
    [tbl EXCEPT ![j] = [@ EXCEPT !.status = "queued", !.expired = FALSE, !.token = 0,
                                 !.due = FALSE, !.key = RetryKey(tbl, j)]]

Failed(tbl, l) ==
    IF ~Held(tbl, l) THEN tbl
    ELSE IF Exhausted(l) THEN Ended(tbl, l.job, "failed")
    ELSE Requeued(tbl, l.job)

Extended(tbl, l) ==
    IF Held(tbl, l) THEN [tbl EXCEPT ![l.job] = [@ EXCEPT !.expired = FALSE]] ELSE tbl

-----------------------------------------------------------------------------
(* The clock                                                               *)

\* run_at of a queued job passes.
Passed(tbl, j) == [tbl EXCEPT ![j] = [@ EXCEPT !.due = TRUE]]

\* locked_until of a running job passes.
Lapsed(tbl, j) == [tbl EXCEPT ![j] = [@ EXCEPT !.expired = TRUE]]
=============================================================================
