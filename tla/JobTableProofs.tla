--------------------------- MODULE JobTableProofs ---------------------------
(***************************************************************************)
(* What each statement of the jobs table does to the table: it keeps its   *)
(* shape, changes the row it names and no other.  Proofs about modules     *)
(* that use the table cite these lemmas and leave its operators folded.    *)
(***************************************************************************)
EXTENDS JobTable, TLAPS, WellFoundedInduction

\* Rows other than j are the same in both tables.
SameBut(old, new, j) == \A i \in JobIds : i # j => new[i] = old[i]

Tables == [JobIds -> Job]

-----------------------------------------------------------------------------
\* No row is leased, waiting or done in the empty table (the schema's start).
LEMMA EmptyTableFacts ==
    /\ EmptyTable \in Tables
    /\ \A j \in JobIds : EmptyTable[j] = NoJob
  BY DEF EmptyTable, Tables, NoJob, Job, Keys, JobStatus

\* lease: the job runs under a fresh token, the number of the attempt.
LEMMA LeasedFacts ==
    ASSUME NEW tbl \in Tables, NEW j \in JobIds
    PROVE  /\ Leased(tbl, j) \in Tables
           /\ SameBut(tbl, Leased(tbl, j), j)
           /\ Leased(tbl, j)[j] =
                [tbl[j] EXCEPT !.status = "running", !.expired = FALSE,
                               !.token = tbl[j].attempts + 1,
                               !.attempts = tbl[j].attempts + 1]
  <1> DEFINE row == [tbl[j] EXCEPT !.status = "running", !.expired = FALSE,
                                   !.token = tbl[j].attempts + 1,
                                   !.attempts = tbl[j].attempts + 1]
  <1>1. tbl[j] \in Job /\ tbl[j].attempts + 1 \in Nat
    BY DEF Tables, Job
  <1>2. row \in Job
    BY <1>1 DEF Job, JobStatus
  <1>3. Leased(tbl, j) = [tbl EXCEPT ![j] = row]
    BY DEF Leased
  <1> HIDE DEF row
  <1>4. /\ Leased(tbl, j) \in Tables
        /\ SameBut(tbl, Leased(tbl, j), j)
        /\ Leased(tbl, j)[j] = row
    BY <1>2, <1>3 DEF Tables, SameBut
  <1> QED
    BY <1>4 DEF row

\* complete and the last fail: the job ends and its token with it.
LEMMA EndedFacts ==
    ASSUME NEW tbl \in Tables, NEW j \in JobIds, NEW status \in {"done", "failed"}
    PROVE  /\ Ended(tbl, j, status) \in Tables
           /\ SameBut(tbl, Ended(tbl, j, status), j)
           /\ Ended(tbl, j, status)[j] =
                [tbl[j] EXCEPT !.status = status, !.expired = FALSE, !.token = 0]
  BY DEF Ended, Tables, SameBut, Job, JobStatus

\* fail with attempts left: the job waits again, under its key or under none.
LEMMA RequeuedFacts ==
    ASSUME NEW tbl \in Tables, NEW j \in JobIds
    PROVE  /\ Requeued(tbl, j) \in Tables
           /\ SameBut(tbl, Requeued(tbl, j), j)
           /\ Requeued(tbl, j)[j] =
                [tbl[j] EXCEPT !.status = "queued", !.expired = FALSE, !.token = 0,
                               !.due = FALSE, !.key = RetryKey(tbl, j)]
           /\ RetryKey(tbl, j) \in {tbl[j].key, NoKey}
           /\ \A i \in JobIds \ {j} :
                 (tbl[i].status = "queued" /\ tbl[i].key = RetryKey(tbl, j))
                    => RetryKey(tbl, j) = NoKey
  <1>1. RetryKey(tbl, j) \in {tbl[j].key, NoKey}
    BY DEF RetryKey
  <1>2. RetryKey(tbl, j) \in Keys
    BY <1>1 DEF Tables, Job, Keys
  <1>3. ASSUME NEW i \in JobIds \ {j}, tbl[i].status = "queued",
               tbl[i].key = RetryKey(tbl, j), RetryKey(tbl, j) # NoKey
        PROVE  FALSE
    <2>1. RetryKey(tbl, j) = tbl[j].key
      BY <1>1, <1>3
    <2>2. i \in Colliding(tbl, tbl[j].key) \ {j}
      BY <1>3, <2>1 DEF Colliding
    <2> QED
      BY <1>3, <2>2 DEF RetryKey
  <1> QED
    BY <1>1, <1>2, <1>3 DEF Requeued, Tables, SameBut, Job, JobStatus

\* complete: nothing, unless the lease is still the current one.
LEMMA CompletedFacts ==
    ASSUME NEW tbl \in Tables, NEW l \in Lease
    PROVE  \/ ~Held(tbl, l) /\ Completed(tbl, l) = tbl
           \/ Held(tbl, l) /\ Completed(tbl, l) = Ended(tbl, l.job, "done")
  BY DEF Completed

\* fail: nothing, unless the lease is still the current one; then the end after
\* the last attempt, and another try before it.
LEMMA FailedFacts ==
    ASSUME NEW tbl \in Tables, NEW l \in Lease
    PROVE  \/ ~Held(tbl, l) /\ Failed(tbl, l) = tbl
           \/ /\ Held(tbl, l) /\ l.token >= MaxAttempts
              /\ Failed(tbl, l) = Ended(tbl, l.job, "failed")
           \/ /\ Held(tbl, l) /\ ~(l.token >= MaxAttempts)
              /\ Failed(tbl, l) = Requeued(tbl, l.job)
  BY DEF Failed, Exhausted

\* extendLease and the clock: a comparison of times on one row, nothing else.
LEMMA TimesFacts ==
    ASSUME NEW tbl \in Tables, NEW j \in JobIds
    PROVE  /\ Passed(tbl, j) \in Tables
           /\ SameBut(tbl, Passed(tbl, j), j)
           /\ Passed(tbl, j)[j] = [tbl[j] EXCEPT !.due = TRUE]
           /\ Lapsed(tbl, j) \in Tables
           /\ SameBut(tbl, Lapsed(tbl, j), j)
           /\ Lapsed(tbl, j)[j] = [tbl[j] EXCEPT !.expired = TRUE]
  BY DEF Passed, Lapsed, Tables, SameBut, Job

LEMMA ExtendedFacts ==
    ASSUME NEW tbl \in Tables, NEW l \in Lease
    PROVE  \/ ~Held(tbl, l) /\ Extended(tbl, l) = tbl
           \/ /\ Held(tbl, l)
              /\ Extended(tbl, l) \in Tables
              /\ SameBut(tbl, Extended(tbl, l), l.job)
              /\ Extended(tbl, l)[l.job] = [tbl[l.job] EXCEPT !.expired = FALSE]
  BY DEF Extended, Tables, SameBut, Job, Lease

\* enqueue: a row is inserted, a waiting one's time may change, or nothing does.
LEMMA EnqueueFacts ==
    ASSUME NEW tbl \in Tables, NEW new, NEW w \in Keys, NEW k \in Keys, NEW due \in BOOLEAN,
           EnqueueIgnore(tbl, new, w, k, due) \/ EnqueueReschedule(tbl, new, w, k, due)
    PROVE  new \in Tables
  <1>1. CASE Inserted(tbl, new, w, k, due)
    <2>1. QueuedJob(w, k, due) \in Job
      BY DEF QueuedJob, NoJob, Job, JobStatus, Keys
    <2> QED
      BY <1>1, <2>1 DEF Inserted, Tables
  <1>2. CASE ~Inserted(tbl, new, w, k, due)
    BY <1>2 DEF EnqueueIgnore, EnqueueReschedule, Colliding, Tables, Job
  <1> QED
    BY <1>1, <1>2

\* What enqueue leaves each row, and that the work waits under its key now.
LEMMA EnqueueRows ==
    ASSUME NEW tbl \in Tables, NEW new, NEW w \in Keys, NEW k \in Keys, NEW due \in BOOLEAN,
           EnqueueIgnore(tbl, new, w, k, due) \/ EnqueueReschedule(tbl, new, w, k, due)
    PROVE  /\ \A i \in JobIds :
                 \/ new[i] = tbl[i]
                 \/ tbl[i].status = "queued" /\ new[i] = [tbl[i] EXCEPT !.due = due]
                 \/ tbl[i].status = "absent" /\ new[i] = QueuedJob(w, k, due)
           /\ k # NoKey => \E i \in JobIds : new[i].status = "queued" /\ new[i].key = k
  <1>1. QueuedJob(w, k, due).status = "queued" /\ QueuedJob(w, k, due).key = k
    BY DEF QueuedJob, NoJob
  <1>2. CASE Inserted(tbl, new, w, k, due)
    BY <1>1, <1>2 DEF Inserted, NextId, Tables
  <1>3. CASE ~Inserted(tbl, new, w, k, due)
    <2>1. Colliding(tbl, k) # {}
      BY <1>3 DEF EnqueueIgnore, EnqueueReschedule
    <2>2. PICK j \in JobIds : k # NoKey /\ tbl[j].status = "queued" /\ tbl[j].key = k
      BY <2>1 DEF Colliding
    <2>3. \/ new = tbl
          \/ new = [i \in JobIds |-> IF i \in Colliding(tbl, k)
                                     THEN [tbl[i] EXCEPT !.due = due] ELSE tbl[i]]
      BY <2>1 DEF EnqueueIgnore, EnqueueReschedule
    <2>4. \A i \in Colliding(tbl, k) : tbl[i].status = "queued"
      BY DEF Colliding
    <2>5. tbl[j] \in Job
      BY DEF Tables
    <2>6. [tbl[j] EXCEPT !.due = due].status = "queued" /\ [tbl[j] EXCEPT !.due = due].key = k
      BY <2>2, <2>5 DEF Job
    <2> QED
      BY <2>2, <2>3, <2>4, <2>6
  <1> QED
    BY <1>2, <1>3

-----------------------------------------------------------------------------
(* The first row                                                           *)

Below == {ss \in Nat \X Nat : ss[1] < ss[2]}

\* The natural numbers are well-founded, in the form the least element needs.
LEMMA BelowWellFounded == IsWellFoundedOn(Below, Nat)
  BY NatLessThanWellFounded, Zenon DEF OpToRel, Below

\* The identity column gives a first number: enqueue's first row has one.
LEMMA LeastJob ==
    ASSUME JobIds # {}
    PROVE  \E j \in JobIds : \A i \in JobIds : j <= i
  <1>1. JobIds \subseteq Nat
    BY JobTableAssumption
  <1>2. PICK j \in JobIds : \A i \in JobIds : ~(<<i, j>> \in Below)
    BY <1>1, BelowWellFounded, WFMin
  <1>3. \A i \in JobIds : ~(i < j)
    BY <1>1, <1>2 DEF Below
  <1> QED
    BY <1>1, <1>3
=============================================================================
