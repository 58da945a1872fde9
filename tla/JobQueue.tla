------------------------------ MODULE JobQueue ------------------------------
(***************************************************************************)
(* The Postgres job queue and the workers that drain it                    *)
(* (packages/db/src/queue.ts, apps/agents/src/worker.ts).  A slot is one   *)
(* in-flight job of some worker process; workers crash, stall past their   *)
(* lease and lose the database, and the queue must neither lose work nor   *)
(* let two holders of one job both settle it.                              *)
(***************************************************************************)
EXTENDS JobTable

CONSTANTS
    Slots,      \* the workers' concurrency, all processes together
    Idle,       \* a slot with no job
    MaxFaults   \* bound: crashes, stalls and lost database calls in a run

ASSUME JobQueueAssumption ==
    /\ Idle \notin Lease
    /\ MaxFaults \in Nat

VARIABLES
    jobs,      \* the table
    slots,     \* Slots -> the lease being worked on, or Idle
    asked,     \* history: works enqueued since a job for them was last leased
    reclaims,  \* history: per job, leases taken over after the last one expired
    faults     \* history: faults so far

vars == <<jobs, slots, asked, reclaims, faults>>

Init ==
    /\ jobs = EmptyTable
    /\ slots = [s \in Slots |-> Idle]
    /\ asked = {}
    /\ reclaims = [j \in JobIds |-> 0]
    /\ faults = 0

Fault ==
    /\ faults < MaxFaults
    /\ faults' = faults + 1

\* Some slot works under the job's current lease.
Attended(j) == \E s \in Slots : slots[s] # Idle /\ slots[s].job = j
                                /\ Held(jobs, slots[s])

-----------------------------------------------------------------------------
(* Services adding jobs                                                    *)

EnqueueOrIgnore(w, k, due) ==
    /\ EnqueueIgnore(jobs, jobs', w, k, due)
    /\ asked' = asked \cup {w}
    /\ UNCHANGED <<slots, reclaims, faults>>

EnqueueOrReschedule(w, due) ==
    /\ EnqueueReschedule(jobs, jobs', w, w, due)
    /\ asked' = asked \cup {w}
    /\ UNCHANGED <<slots, reclaims, faults>>

-----------------------------------------------------------------------------
(* A worker's slot                                                         *)

TakeLease(s, j) ==
    /\ slots[s] = Idle
    /\ Leasable(jobs, j)
    /\ jobs' = Leased(jobs, j)
    /\ slots' = [slots EXCEPT ![s] = LeaseOf(jobs', j)]
    /\ asked' = asked \ {jobs[j].work}
    /\ reclaims' = [reclaims EXCEPT ![j] =
                        IF jobs[j].status = "running" THEN @ + 1 ELSE @]
    /\ UNCHANGED faults

\* The handler returned: complete, which reports a lost lease and no more.
HandlerReturns(s) ==
    /\ slots[s] # Idle
    /\ jobs' = Completed(jobs, slots[s])
    /\ slots' = [slots EXCEPT ![s] = Idle]
    /\ UNCHANGED <<asked, reclaims, faults>>

\* The handler threw, or complete did: fail.
HandlerThrows(s) ==
    /\ slots[s] # Idle
    /\ jobs' = Failed(jobs, slots[s])
    /\ slots' = [slots EXCEPT ![s] = Idle]
    /\ UNCHANGED <<asked, reclaims, faults>>

\* A handler with long work renews its lease.
ExtendLease(s) ==
    /\ slots[s] # Idle
    /\ jobs' = Extended(jobs, slots[s])
    /\ UNCHANGED <<slots, asked, reclaims, faults>>

\* The worker died, or the call that records the outcome failed: the slot is
\* empty again and the table does not know.
OutcomeLost(s) ==
    /\ slots[s] # Idle
    /\ Fault
    /\ slots' = [slots EXCEPT ![s] = Idle]
    /\ UNCHANGED <<jobs, asked, reclaims>>

-----------------------------------------------------------------------------
(* The clock                                                               *)

BecomesDue(j) ==
    /\ jobs[j].status = "queued" /\ ~jobs[j].due
    /\ jobs' = Passed(jobs, j)
    /\ UNCHANGED <<slots, asked, reclaims, faults>>

\* The lease of a job no one works on any more runs out.
LeaseRunsOut(j) ==
    /\ jobs[j].status = "running" /\ ~jobs[j].expired /\ ~Attended(j)
    /\ jobs' = Lapsed(jobs, j)
    /\ UNCHANGED <<slots, asked, reclaims, faults>>

\* A handler outlives its lease.
LeaseOutlived(j) ==
    /\ jobs[j].status = "running" /\ ~jobs[j].expired /\ Attended(j)
    /\ Fault
    /\ jobs' = Lapsed(jobs, j)
    /\ UNCHANGED <<slots, asked, reclaims>>

-----------------------------------------------------------------------------
Enqueues ==
    \/ \E w \in Works, k \in Keys, due \in BOOLEAN :
          k \in {w, NoKey} /\ EnqueueOrIgnore(w, k, due)
    \/ \E w \in Works, due \in BOOLEAN : EnqueueOrReschedule(w, due)

SlotStep(s) ==
    \/ \E j \in JobIds : TakeLease(s, j)
    \/ HandlerReturns(s)
    \/ HandlerThrows(s)
    \/ ExtendLease(s)
    \/ OutcomeLost(s)

ClockStep(j) == BecomesDue(j) \/ LeaseRunsOut(j) \/ LeaseOutlived(j)

Next ==
    \/ Enqueues
    \/ \E s \in Slots : SlotStep(s)
    \/ \E j \in JobIds : ClockStep(j)

Spec == Init /\ [][Next]_vars

\* A worker polls as long as it runs, a handler ends (every wait in it has a
\* timeout), and time passes.  Nobody has to enqueue, extend or fault.
Fairness ==
    /\ \A s \in Slots :
          /\ WF_vars(\E j \in JobIds : TakeLease(s, j))
          /\ WF_vars(HandlerReturns(s) \/ HandlerThrows(s))
    /\ \A j \in JobIds : WF_vars(BecomesDue(j)) /\ WF_vars(LeaseRunsOut(j))

FairSpec == Spec /\ Fairness

-----------------------------------------------------------------------------
(* Properties                                                              *)

\* The shape of the table and of the workers' slots; only a running job has a
\* token and a lease that can expire, as the schema's comments say.
TypeOK ==
    /\ jobs \in [JobIds -> Job]
    /\ slots \in [Slots -> Lease \cup {Idle}]
    /\ asked \subseteq Keys
    /\ reclaims \in [JobIds -> Nat]
    /\ faults \in Nat
    /\ \A j \in JobIds : /\ jobs[j].token # 0 <=> jobs[j].status = "running"
                         /\ jobs[j].expired => jobs[j].status = "running"

\* Work asked for is never absorbed by a job that already started: as long as
\* no lease for it began since, a queued job will still do it.  This is what
\* the dedupe index covering only queued jobs, and `fail` giving its key up
\* only to a queued sibling, are for (queue.ts).
NoLostWork ==
    \A w \in asked : \E j \in JobIds : jobs[j].status = "queued" /\ jobs[j].work = w

\* One job per key waits at a time, after any mix of enqueues and retries.
OneQueuedPerKey ==
    \A i, j \in JobIds :
        (/\ jobs[i].status = "queued" /\ jobs[j].status = "queued"
         /\ jobs[i].key = jobs[j].key /\ jobs[i].key # NoKey) => i = j

\* However many slots still run a job, at most one of them can settle it.
OneSettler ==
    \A s, t \in Slots :
        (/\ slots[s] # Idle /\ slots[t] # Idle /\ slots[s].job = slots[t].job
         /\ Held(jobs, slots[s]) /\ Held(jobs, slots[t])) => s = t

\* A job is given up only after maxAttempts leases, one that waits has some
\* left, and it is leased more often only when leases ran out: crashes, which
\* `fail` never sees, are the only attempts that are not counted against it.
AttemptsJustified ==
    \A j \in JobIds :
        /\ jobs[j].status = "queued" => jobs[j].attempts < MaxAttempts
        /\ jobs[j].status = "failed" => jobs[j].attempts >= MaxAttempts
        /\ jobs[j].attempts <= MaxAttempts + reclaims[j]

\* A worker whose lease was taken over changes nothing when it ends, and a
\* job that ended stays as it is.
StaleWorkersChangeNothing ==
    [][/\ \A s \in Slots :
            (slots[s] # Idle /\ slots'[s] = Idle /\ ~Held(jobs, slots[s])) => jobs' = jobs
       /\ \A j \in JobIds :
            jobs[j].status \in {"done", "failed"} => jobs'[j] = jobs[j]]_vars

\* A burst of reschedules (a debounce) ends: no queued job is put off forever.
BurstsEnd ==
    \A j \in JobIds :
        <>[][(jobs[j].status = "queued" /\ jobs[j].due) => jobs'[j].due]_vars

\* Every job that was queued ends, done or failed, whatever crashes and stalls
\* happen on the way (finitely many), unless a burst puts it off for ever.
EveryJobEnds ==
    BurstsEnd => \A j \in JobIds :
        jobs[j].status = "queued" ~> jobs[j].status \in {"done", "failed"}
=============================================================================
