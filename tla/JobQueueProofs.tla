--------------------------- MODULE JobQueueProofs ---------------------------
(***************************************************************************)
(* The job queue's safety, for any number of jobs, works and slots, any    *)
(* number of attempts and any number of faults.  The invariant that        *)
(* carries every proof says what the token is for: a lease of a job that   *)
(* some slot holds on to is one of the attempts the table has counted, no  *)
(* two slots have the same one, and the current one is the last.           *)
(***************************************************************************)
EXTENDS JobQueue, JobTableProofs

\* A running job's token is its last attempt, a slot's one it has counted.
TokensCount ==
    /\ \A j \in JobIds : jobs[j].status = "running" => jobs[j].token = jobs[j].attempts
    /\ \A s \in Slots : slots[s] # Idle =>
          /\ jobs[slots[s].job].status # "absent"
          /\ slots[s].token <= jobs[slots[s].job].attempts

\* Every lease is given to one slot.
LeasesDiffer ==
    \A s, t \in Slots :
        (/\ s # t /\ slots[s] # Idle /\ slots[t] # Idle
         /\ slots[s].job = slots[t].job) => slots[s].token # slots[t].token

\* A job's key names its work.
KeysNameWork ==
    \A j \in JobIds : jobs[j].key # NoKey => jobs[j].work = jobs[j].key

IInv ==
    /\ TypeOK
    /\ TokensCount
    /\ LeasesDiffer
    /\ KeysNameWork
    /\ OneQueuedPerKey
    /\ AttemptsJustified
    /\ NoLostWork

\* A slot keeps its lease or drops it.
SlotsKeepOrDrop ==
    /\ slots' \in [Slots -> Lease \cup {Idle}]
    /\ \A s \in Slots : slots'[s] \in {slots[s], Idle}

-----------------------------------------------------------------------------
(* What each kind of change of the table does to the invariant             *)

\* Only times change: due of a waiting job, expired of a running one.
LEMMA TimesPass ==
    ASSUME IInv, SlotsKeepOrDrop, jobs' \in Tables, asked' \subseteq Keys,
           faults' \in Nat, reclaims' = reclaims,
           \A w \in asked' : w \in asked \/ \E j \in JobIds :
                                jobs[j].status = "queued" /\ jobs[j].work = w,
           \A j \in JobIds :
               /\ jobs'[j].status = jobs[j].status /\ jobs'[j].work = jobs[j].work
               /\ jobs'[j].key = jobs[j].key /\ jobs'[j].token = jobs[j].token
               /\ jobs'[j].attempts = jobs[j].attempts
               /\ jobs'[j].expired => jobs[j].status = "running"
    PROVE  IInv'
  <1>1. TypeOK'
    BY DEF IInv, TypeOK, SlotsKeepOrDrop, Tables
  <1>2. TokensCount' /\ LeasesDiffer'
    BY DEF IInv, TypeOK, TokensCount, LeasesDiffer, SlotsKeepOrDrop, Lease
  <1>3. KeysNameWork' /\ OneQueuedPerKey' /\ AttemptsJustified'
    BY DEF IInv, KeysNameWork, OneQueuedPerKey, AttemptsJustified
  <1>4. NoLostWork'
    BY DEF IInv, NoLostWork
  <1> QED
    BY <1>1, <1>2, <1>3, <1>4 DEF IInv

\* A running job ends.
LEMMA JobEnds ==
    ASSUME IInv, SlotsKeepOrDrop, NEW j \in JobIds, NEW status \in {"done", "failed"},
           jobs[j].status = "running", jobs' = Ended(jobs, j, status),
           status = "failed" => jobs[j].attempts >= MaxAttempts,
           UNCHANGED <<asked, reclaims, faults>>
    PROVE  IInv'
  <1>1. jobs \in Tables
    BY DEF IInv, TypeOK, Tables
  <1>2. /\ jobs' \in Tables
        /\ SameBut(jobs, jobs', j)
        /\ jobs'[j] = [jobs[j] EXCEPT !.status = status, !.expired = FALSE, !.token = 0]
    BY ZenonT(60), <1>1, EndedFacts
  <1>3. /\ jobs'[j].status = status /\ ~jobs'[j].expired /\ jobs'[j].token = 0
        /\ jobs'[j].attempts = jobs[j].attempts
        /\ jobs'[j].work = jobs[j].work /\ jobs'[j].key = jobs[j].key
    BY <1>1, <1>2 DEF Tables, Job
  <1>4. TypeOK'
    <2>1. ASSUME NEW i \in JobIds
          PROVE  /\ jobs'[i].token # 0 <=> jobs'[i].status = "running"
                 /\ jobs'[i].expired => jobs'[i].status = "running"
      <3>1. CASE i = j
        BY <1>3, <3>1
      <3>2. CASE i # j
        BY <1>2, <3>2 DEF IInv, TypeOK, SameBut
      <3> QED
        BY <3>1, <3>2
    <2> QED
      BY <1>2, <2>1 DEF IInv, TypeOK, SlotsKeepOrDrop, Tables
  <1>5. TokensCount'
    <2>1. ASSUME NEW i \in JobIds
          PROVE  /\ jobs'[i].status = "running" => jobs'[i].token = jobs'[i].attempts
                 /\ jobs[i].status # "absent" => jobs'[i].status # "absent"
                 /\ jobs'[i].attempts = jobs[i].attempts
      BY <1>2, <1>3 DEF IInv, TokensCount, SameBut
    <2> QED
      BY <2>1 DEF IInv, TypeOK, TokensCount, SlotsKeepOrDrop, Lease
  <1>6. LeasesDiffer' /\ KeysNameWork' /\ OneQueuedPerKey'
    <2>1. LeasesDiffer'
      BY DEF IInv, LeasesDiffer, SlotsKeepOrDrop
    <2>2. ASSUME NEW i \in JobIds
          PROVE  /\ jobs'[i].status = "queued" => jobs[i].status = "queued"
                 /\ jobs'[i].key = jobs[i].key /\ jobs'[i].work = jobs[i].work
      BY <1>2, <1>3 DEF SameBut
    <2> QED
      BY <2>1, <2>2 DEF IInv, KeysNameWork, OneQueuedPerKey
  <1>7. AttemptsJustified'
    BY <1>2, <1>3 DEF IInv, AttemptsJustified, SameBut
  <1>8. NoLostWork'
    BY <1>2 DEF IInv, NoLostWork, SameBut
  <1> QED
    BY <1>4, <1>5, <1>6, <1>7, <1>8 DEF IInv

\* A running job with attempts left waits again.
LEMMA JobRetries ==
    ASSUME IInv, SlotsKeepOrDrop, NEW j \in JobIds,
           jobs[j].status = "running", ~(jobs[j].attempts >= MaxAttempts),
           jobs' = Requeued(jobs, j), UNCHANGED <<asked, reclaims, faults>>
    PROVE  IInv'
  <1>1. jobs \in Tables
    BY DEF IInv, TypeOK, Tables
  <1>2. /\ jobs' \in Tables
        /\ SameBut(jobs, jobs', j)
        /\ jobs'[j] = [jobs[j] EXCEPT !.status = "queued", !.expired = FALSE, !.token = 0,
                                      !.due = FALSE, !.key = RetryKey(jobs, j)]
        /\ RetryKey(jobs, j) \in {jobs[j].key, NoKey}
        /\ \A i \in JobIds \ {j} :
              (jobs[i].status = "queued" /\ jobs[i].key = RetryKey(jobs, j))
                 => RetryKey(jobs, j) = NoKey
    BY <1>1, RequeuedFacts
  <1>3. /\ jobs'[j].status = "queued" /\ ~jobs'[j].expired /\ jobs'[j].token = 0
        /\ jobs'[j].attempts = jobs[j].attempts /\ jobs'[j].work = jobs[j].work
        /\ jobs'[j].key = RetryKey(jobs, j)
    BY <1>1, <1>2 DEF Tables, Job
  <1>4. TypeOK'
    <2>1. ASSUME NEW i \in JobIds
          PROVE  /\ jobs'[i].token # 0 <=> jobs'[i].status = "running"
                 /\ jobs'[i].expired => jobs'[i].status = "running"
      <3>1. CASE i = j
        BY <1>3, <3>1
      <3>2. CASE i # j
        BY <1>2, <3>2 DEF IInv, TypeOK, SameBut
      <3> QED
        BY <3>1, <3>2
    <2> QED
      BY <1>2, <2>1 DEF IInv, TypeOK, SlotsKeepOrDrop, Tables
  <1>5. TokensCount'
    <2>1. ASSUME NEW i \in JobIds
          PROVE  /\ jobs'[i].status = "running" => jobs'[i].token = jobs'[i].attempts
                 /\ jobs[i].status # "absent" => jobs'[i].status # "absent"
                 /\ jobs'[i].attempts = jobs[i].attempts
      BY <1>2, <1>3 DEF IInv, TokensCount, SameBut
    <2> QED
      BY <2>1 DEF IInv, TypeOK, TokensCount, SlotsKeepOrDrop, Lease
  <1>6. LeasesDiffer'
    BY DEF IInv, LeasesDiffer, SlotsKeepOrDrop
  <1>7. KeysNameWork'
    <2>1. ASSUME NEW i \in JobIds, jobs'[i].key # NoKey
          PROVE  jobs'[i].work = jobs'[i].key
      <3>1. CASE i = j
        BY <1>2, <1>3, <2>1, <3>1 DEF IInv, KeysNameWork
      <3>2. CASE i # j
        BY <1>2, <2>1, <3>2 DEF IInv, KeysNameWork, SameBut
      <3> QED
        BY <3>1, <3>2
    <2> QED
      BY <2>1 DEF KeysNameWork
  <1>8. OneQueuedPerKey'
    <2>1. ASSUME NEW i \in JobIds, i # j, jobs'[i].status = "queued",
                 jobs'[i].key = jobs'[j].key
          PROVE  jobs'[j].key = NoKey
      BY <1>2, <1>3, <2>1 DEF SameBut
    <2>2. ASSUME NEW h \in JobIds, NEW i \in JobIds, h # j, i # j,
                 jobs'[h].status = "queued", jobs'[i].status = "queued",
                 jobs'[h].key = jobs'[i].key, jobs'[h].key # NoKey
          PROVE  h = i
      BY <1>2, <2>2 DEF IInv, OneQueuedPerKey, SameBut
    <2> QED
      BY <2>1, <2>2 DEF OneQueuedPerKey
  <1>9. AttemptsJustified'
    <2>1. jobs[j].attempts \in Nat /\ MaxAttempts \in Nat
      BY <1>1, JobTableAssumption DEF Tables, Job
    <2>2. jobs'[j].attempts < MaxAttempts
      BY <1>3, <2>1
    <2> QED
      BY <1>2, <1>3, <2>2 DEF IInv, AttemptsJustified, SameBut
  <1>10. NoLostWork'
    BY <1>2, <1>3 DEF IInv, NoLostWork, SameBut
  <1> QED
    BY <1>4, <1>5, <1>6, <1>7, <1>8, <1>9, <1>10 DEF IInv

\* A job is inserted, under its work's key or none; no job waits under the key.
LEMMA JobInserted ==
    ASSUME IInv, NEW w \in Works, NEW k \in {w, NoKey}, NEW due \in BOOLEAN,
           Colliding(jobs, k) = {}, Inserted(jobs, jobs', w, k, due),
           asked' = asked \cup {w}, UNCHANGED <<slots, reclaims, faults>>
    PROVE  IInv'
  <1>1. jobs \in Tables /\ w \in Keys /\ k \in Keys
    BY DEF IInv, TypeOK, Tables, Keys
  <1>2. PICK j \in JobIds : /\ jobs[j].status = "absent"
                            /\ jobs' = [jobs EXCEPT ![j] = QueuedJob(w, k, due)]
    BY DEF Inserted, NextId
  <1>3. /\ jobs' \in Tables
        /\ SameBut(jobs, jobs', j)
        /\ jobs'[j] = QueuedJob(w, k, due)
    <2>1. QueuedJob(w, k, due) \in Job
      BY <1>1 DEF QueuedJob, NoJob, Job, JobStatus, Keys
    <2> QED
      BY <1>1, <1>2, <2>1 DEF Tables, SameBut
  <1>4. /\ jobs'[j].status = "queued" /\ ~jobs'[j].expired /\ jobs'[j].token = 0
        /\ jobs'[j].attempts = 0 /\ jobs'[j].work = w /\ jobs'[j].key = k
    BY <1>3 DEF QueuedJob, NoJob
  <1>5. TypeOK'
    BY <1>1, <1>2, <1>3, <1>4 DEF IInv, TypeOK, Tables, SameBut
  <1>6. TokensCount'
    <2>1. \A s \in Slots : slots[s] # Idle => slots[s].job # j /\ slots[s].job \in JobIds
      BY <1>2 DEF IInv, TypeOK, TokensCount, Lease
    <2> QED
      BY <1>3, <1>4, <2>1 DEF IInv, TokensCount, SameBut
  <1>7. LeasesDiffer' /\ KeysNameWork'
    BY <1>3, <1>4 DEF IInv, LeasesDiffer, KeysNameWork, SameBut
  <1>8. OneQueuedPerKey'
    <2>1. \A i \in JobIds : (i # j /\ jobs[i].status = "queued" /\ jobs[i].key = k) => k = NoKey
      BY DEF Colliding
    <2> QED
      BY <1>3, <1>4, <2>1 DEF IInv, OneQueuedPerKey, SameBut
  <1>9. AttemptsJustified'
    <2>1. 0 < MaxAttempts /\ reclaims[j] \in Nat /\ 0 <= MaxAttempts + reclaims[j]
      BY JobTableAssumption DEF IInv, TypeOK
    <2> QED
      BY <1>3, <1>4, <2>1 DEF IInv, AttemptsJustified, SameBut
  <1>10. NoLostWork'
    <2>1. ASSUME NEW v \in asked'
          PROVE  \E i \in JobIds : jobs'[i].status = "queued" /\ jobs'[i].work = v
      <3>1. CASE v = w
        BY <1>4, <3>1
      <3>2. CASE v \in asked
        <4>1. PICK i \in JobIds : jobs[i].status = "queued" /\ jobs[i].work = v
          BY <3>2 DEF IInv, NoLostWork
        <4> QED
          BY <4>1, <1>2, <1>3 DEF SameBut
      <3> QED
        BY <2>1, <3>1, <3>2
    <2> QED
      BY <2>1 DEF NoLostWork
  <1> QED
    BY <1>5, <1>6, <1>7, <1>8, <1>9, <1>10 DEF IInv

\* A slot takes a job: its first lease, a retry, or one that ran out.
LEMMA JobLeased ==
    ASSUME IInv, NEW s \in Slots, NEW j \in JobIds, TakeLease(s, j)
    PROVE  IInv'
  <1>1. jobs \in Tables
    BY DEF IInv, TypeOK, Tables
  <1>2. /\ jobs' \in Tables
        /\ SameBut(jobs, jobs', j)
        /\ jobs'[j] = [jobs[j] EXCEPT !.status = "running", !.expired = FALSE,
                                      !.token = jobs[j].attempts + 1,
                                      !.attempts = jobs[j].attempts + 1]
    BY <1>1, LeasedFacts DEF TakeLease
  <1>3. /\ jobs'[j].status = "running" /\ ~jobs'[j].expired
        /\ jobs'[j].token = jobs[j].attempts + 1
        /\ jobs'[j].attempts = jobs[j].attempts + 1
        /\ jobs'[j].work = jobs[j].work /\ jobs'[j].key = jobs[j].key
    BY <1>1, <1>2 DEF Tables, Job
  <1>4. /\ jobs[j].attempts \in Nat
        /\ jobs[j].status \in {"queued", "running"}
    BY <1>1 DEF TakeLease, Leasable, Tables, Job
  <1>5. /\ slots' = [slots EXCEPT ![s] = LeaseOf(jobs', j)]
        /\ LeaseOf(jobs', j) \in Lease
        /\ LeaseOf(jobs', j).job = j
        /\ LeaseOf(jobs', j).token = jobs[j].attempts + 1
    BY <1>3, <1>4 DEF TakeLease, LeaseOf, Lease
  <1>6. TypeOK'
    <2>1. slots' \in [Slots -> Lease \cup {Idle}]
      BY <1>5 DEF IInv, TypeOK
    <2>2. reclaims' \in [JobIds -> Nat] /\ asked' \subseteq Keys /\ faults' \in Nat
      BY DEF TakeLease, IInv, TypeOK
    <2>3. ASSUME NEW i \in JobIds
          PROVE  /\ jobs'[i].token # 0 <=> jobs'[i].status = "running"
                 /\ jobs'[i].expired => jobs'[i].status = "running"
      <3>1. CASE i = j
        BY <1>3, <1>4, <3>1
      <3>2. CASE i # j
        BY <1>2, <3>2 DEF IInv, TypeOK, SameBut
      <3> QED
        BY <3>1, <3>2
    <2> QED
      BY <1>2, <2>1, <2>2, <2>3 DEF TypeOK, Tables
  <1>7. TokensCount'
    <2>1. ASSUME NEW i \in JobIds
          PROVE  /\ jobs'[i].status = "running" => jobs'[i].token = jobs'[i].attempts
                 /\ jobs[i].status # "absent" => jobs'[i].status # "absent"
                 /\ \A n \in Nat : n <= jobs[i].attempts => n <= jobs'[i].attempts
      <3>1. CASE i = j
        BY <1>3, <1>4, <3>1
      <3>2. CASE i # j
        BY <1>2, <3>2 DEF IInv, TokensCount, SameBut
      <3> QED
        BY <3>1, <3>2
    <2>2. ASSUME NEW t \in Slots, slots'[t] # Idle
          PROVE  /\ jobs'[slots'[t].job].status # "absent"
                 /\ slots'[t].token <= jobs'[slots'[t].job].attempts
      <3>1. CASE t = s
        BY <1>3, <1>4, <1>5, <3>1 DEF IInv, TypeOK
      <3>2. CASE t # s
        <4>1. slots'[t] = slots[t] /\ slots[t] \in Lease
          BY <1>5, <2>2, <3>2 DEF IInv, TypeOK
        <4>2. slots[t].job \in JobIds /\ slots[t].token \in Nat
          BY <4>1 DEF Lease
        <4> QED
          BY <2>1, <2>2, <4>1, <4>2 DEF IInv, TokensCount
      <3> QED
        BY <3>1, <3>2
    <2> QED
      BY <2>1, <2>2 DEF TokensCount
  <1>8. LeasesDiffer'
    <2>1. ASSUME NEW t \in Slots, t # s, slots[t] # Idle, slots[t].job = j
          PROVE  slots[t].token # jobs[j].attempts + 1
      <3>1. slots[t].token \in Nat /\ slots[t].token <= jobs[j].attempts
        BY <2>1 DEF IInv, TypeOK, TokensCount, Lease
      <3> QED
        BY <1>4, <3>1
    <2>2. \A t \in Slots : t # s => slots'[t] = slots[t]
      BY <1>5 DEF IInv, TypeOK
    <2>3. slots'[s] = LeaseOf(jobs', j)
      BY <1>5 DEF IInv, TypeOK
    <2> QED
      BY <1>5, <2>1, <2>2, <2>3 DEF IInv, LeasesDiffer
  <1>9. KeysNameWork' /\ OneQueuedPerKey'
    <2>1. ASSUME NEW i \in JobIds
          PROVE  /\ jobs'[i].status = "queued" => jobs[i].status = "queued"
                 /\ jobs'[i].key = jobs[i].key /\ jobs'[i].work = jobs[i].work
      <3>1. CASE i = j
        BY <1>3, <3>1
      <3>2. CASE i # j
        BY <1>2, <3>2 DEF SameBut
      <3> QED
        BY <3>1, <3>2
    <2> QED
      BY <2>1 DEF IInv, KeysNameWork, OneQueuedPerKey
  <1>10. AttemptsJustified'
    <2>1. /\ reclaims[j] \in Nat /\ MaxAttempts \in Nat
          /\ jobs[j].status = "running" => reclaims'[j] = reclaims[j] + 1
          /\ jobs[j].status # "running" => reclaims'[j] = reclaims[j]
          /\ \A i \in JobIds : i # j => reclaims'[i] = reclaims[i]
      BY JobTableAssumption DEF TakeLease, IInv, TypeOK
    <2>2. jobs[j].attempts + 1 <= MaxAttempts + reclaims'[j]
      <3>1. CASE jobs[j].status = "queued"
        BY <1>4, <2>1, <3>1 DEF IInv, AttemptsJustified
      <3>2. CASE jobs[j].status = "running"
        BY <1>4, <2>1, <3>2 DEF IInv, AttemptsJustified
      <3> QED
        BY <1>4, <3>1, <3>2
    <2> QED
      BY <1>2, <1>3, <2>1, <2>2 DEF IInv, AttemptsJustified, SameBut
  <1>11. NoLostWork'
    <2>1. ASSUME NEW w \in asked'
          PROVE  \E i \in JobIds : jobs'[i].status = "queued" /\ jobs'[i].work = w
      <3>1. w \in asked /\ w # jobs[j].work
        BY <2>1 DEF TakeLease
      <3>2. PICK i \in JobIds : jobs[i].status = "queued" /\ jobs[i].work = w
        BY <3>1 DEF IInv, NoLostWork
      <3> QED
        BY <1>2, <3>1, <3>2 DEF SameBut
    <2> QED
      BY <2>1 DEF NoLostWork
  <1> QED
    BY <1>6, <1>7, <1>8, <1>9, <1>10, <1>11 DEF IInv
-----------------------------------------------------------------------------
(* Every action                                                            *)

LEMMA InitInvariant == Init => IInv
  <1> SUFFICES ASSUME Init PROVE IInv
    OBVIOUS
  <1>1. /\ jobs \in Tables
        /\ \A j \in JobIds : jobs[j] = NoJob
    BY EmptyTableFacts DEF Init
  <1>2. TypeOK
    BY <1>1 DEF Init, TypeOK, NoJob, Tables
  <1>3. TokensCount /\ LeasesDiffer /\ KeysNameWork /\ OneQueuedPerKey /\ NoLostWork
    BY <1>1 DEF Init, NoJob, TokensCount, LeasesDiffer, KeysNameWork,
                OneQueuedPerKey, NoLostWork
  <1>4. AttemptsJustified
    <2>1. \A j \in JobIds : reclaims[j] = 0
      BY DEF Init
    <2>2. NoJob.status = "absent" /\ NoJob.attempts = 0
      BY DEF NoJob
    <2>3. \A j \in JobIds : jobs[j].status = "absent" /\ jobs[j].attempts = 0
      BY <1>1, <2>2
    <2>4. MaxAttempts \in Nat /\ 0 <= MaxAttempts + 0
      BY JobTableAssumption
    <2> QED
      BY <2>1, <2>3, <2>4 DEF AttemptsJustified
  <1> QED
    BY <1>2, <1>3, <1>4 DEF IInv

\* A handler that ended settles the job if its lease is still the current one.
LEMMA SettleInvariant ==
    ASSUME IInv, NEW s \in Slots, slots[s] # Idle,
           \/ jobs' = Completed(jobs, slots[s])
           \/ jobs' = Failed(jobs, slots[s]),
           slots' = [slots EXCEPT ![s] = Idle], UNCHANGED <<asked, reclaims, faults>>
    PROVE  IInv'
  <1>1. /\ jobs \in Tables /\ slots[s] \in Lease
        /\ slots[s].job \in JobIds /\ slots[s].token \in Nat
    BY DEF IInv, TypeOK, Tables, Lease
  <1>2. SlotsKeepOrDrop
    BY DEF IInv, TypeOK, SlotsKeepOrDrop
  <1>3. CASE jobs' = jobs
    BY <1>1, <1>2, <1>3, TimesPass DEF IInv, TypeOK
  <1>4. CASE Held(jobs, slots[s]) /\ jobs' # jobs
    <2>1. /\ jobs[slots[s].job].status = "running"
          /\ jobs[slots[s].job].attempts = slots[s].token
      BY <1>1, <1>4 DEF Held, IInv, TokensCount
    <2>2. CASE jobs' = Ended(jobs, slots[s].job, "done")
      BY <1>1, <1>2, <2>1, <2>2, JobEnds
    <2>3. CASE slots[s].token >= MaxAttempts /\ jobs' = Ended(jobs, slots[s].job, "failed")
      BY <1>1, <1>2, <2>1, <2>3, JobEnds
    <2>4. CASE ~(slots[s].token >= MaxAttempts) /\ jobs' = Requeued(jobs, slots[s].job)
      BY <1>1, <1>2, <2>1, <2>4, JobRetries
    <2> QED
      BY <1>1, <1>4, <2>2, <2>3, <2>4, CompletedFacts, FailedFacts
  <1> QED
    BY <1>1, <1>3, <1>4, CompletedFacts, FailedFacts

\* An enqueue that finds a job waiting under the key leaves its work as it is.
LEMMA EnqueueInvariant ==
    ASSUME IInv, NEW w \in Works, NEW k \in {w, NoKey}, NEW due \in BOOLEAN,
           \/ EnqueueIgnore(jobs, jobs', w, k, due)
           \/ EnqueueReschedule(jobs, jobs', w, k, due),
           asked' = asked \cup {w}, UNCHANGED <<slots, reclaims, faults>>
    PROVE  IInv'
  <1>1. /\ jobs \in Tables /\ SlotsKeepOrDrop /\ asked' \subseteq Keys
        /\ faults' \in Nat
    BY DEF IInv, TypeOK, Tables, SlotsKeepOrDrop, Keys
  <1>2. CASE Colliding(jobs, k) = {}
    <2>1. Inserted(jobs, jobs', w, k, due)
      BY <1>2 DEF EnqueueIgnore, EnqueueReschedule
    <2> QED
      BY <1>2, <2>1, JobInserted
  <1>3. CASE Colliding(jobs, k) # {}
    <2>1. PICK c \in JobIds : jobs[c].status = "queued" /\ jobs[c].work = w
      BY <1>3 DEF Colliding, IInv, KeysNameWork
    <2>2. ASSUME NEW j \in JobIds
          PROVE  \/ jobs'[j] = jobs[j]
                 \/ jobs[j].status = "queued" /\ jobs'[j] = [jobs[j] EXCEPT !.due = due]
      BY <1>1, <1>3 DEF EnqueueIgnore, EnqueueReschedule, Colliding, Tables
    <2>3. jobs' \in Tables
      BY <1>1, <1>3 DEF EnqueueIgnore, EnqueueReschedule, Colliding, Tables, Job
    <2>4. ASSUME NEW j \in JobIds
          PROVE  /\ jobs'[j].status = jobs[j].status /\ jobs'[j].work = jobs[j].work
                 /\ jobs'[j].key = jobs[j].key /\ jobs'[j].token = jobs[j].token
                 /\ jobs'[j].attempts = jobs[j].attempts
                 /\ jobs'[j].expired => jobs[j].status = "running"
      <3>1. jobs[j] \in Job /\ (jobs[j].expired => jobs[j].status = "running")
        BY DEF IInv, TypeOK
      <3> QED
        BY <2>2, <3>1 DEF Job
    <2>5. \A v \in asked' : v \in asked \/ \E j \in JobIds :
                                jobs[j].status = "queued" /\ jobs[j].work = v
      BY <2>1
    <2> QED
      BY <1>1, <2>3, <2>4, <2>5, TimesPass
  <1> QED
    BY <1>2, <1>3

\* The clock and extendLease change one comparison of one row's times.
LEMMA TimesInvariant ==
    ASSUME IInv, NEW j \in JobIds, jobs' \in Tables, SameBut(jobs, jobs', j),
           \/ jobs'[j] = [jobs[j] EXCEPT !.due = TRUE]
           \/ jobs'[j] = [jobs[j] EXCEPT !.expired = FALSE]
           \/ jobs[j].status = "running" /\ jobs'[j] = [jobs[j] EXCEPT !.expired = TRUE],
           faults' \in Nat, UNCHANGED <<slots, asked, reclaims>>
    PROVE  IInv'
  <1>1. SlotsKeepOrDrop /\ asked' \subseteq Keys /\ jobs \in Tables
    BY DEF IInv, TypeOK, SlotsKeepOrDrop, Tables
  <1>2. ASSUME NEW i \in JobIds
        PROVE  /\ jobs'[i].status = jobs[i].status /\ jobs'[i].work = jobs[i].work
               /\ jobs'[i].key = jobs[i].key /\ jobs'[i].token = jobs[i].token
               /\ jobs'[i].attempts = jobs[i].attempts
               /\ jobs'[i].expired => jobs[i].status = "running"
    <2>1. jobs[i] \in Job /\ (jobs[i].expired => jobs[i].status = "running")
      BY DEF IInv, TypeOK
    <2>2. CASE i = j
      BY <2>1, <2>2 DEF Job
    <2>3. CASE i # j
      BY <2>1, <2>3 DEF SameBut
    <2> QED
      BY <2>2, <2>3
  <1> QED
    BY <1>1, <1>2, TimesPass

LEMMA NextInvariant == IInv /\ [Next]_vars => IInv'
  <1> SUFFICES ASSUME IInv, [Next]_vars PROVE IInv'
    OBVIOUS
  <1>1. /\ jobs \in Tables /\ faults \in Nat /\ asked \subseteq Keys
        /\ \A s \in Slots : slots[s] # Idle => slots[s] \in Lease /\ slots[s].job \in JobIds
    BY DEF IInv, TypeOK, Tables, Lease
  <1>2. CASE Enqueues
    <2>1. CASE \E w \in Works, k \in Keys, due \in BOOLEAN :
                  k \in {w, NoKey} /\ EnqueueOrIgnore(w, k, due)
      BY <2>1, EnqueueInvariant DEF EnqueueOrIgnore
    <2>2. CASE \E w \in Works, due \in BOOLEAN : EnqueueOrReschedule(w, due)
      BY <2>2, EnqueueInvariant DEF EnqueueOrReschedule
    <2> QED
      BY <1>2, <2>1, <2>2 DEF Enqueues
  <1>3. ASSUME NEW s \in Slots, SlotStep(s)
        PROVE  IInv'
    <2>1. CASE \E j \in JobIds : TakeLease(s, j)
      BY <2>1, JobLeased
    <2>2. CASE HandlerReturns(s) \/ HandlerThrows(s)
      BY <2>2, SettleInvariant DEF HandlerReturns, HandlerThrows
    <2>3. CASE ExtendLease(s)
      <3>1. CASE jobs' = jobs
        BY <1>1, <2>3, <3>1, TimesPass DEF ExtendLease, SlotsKeepOrDrop, IInv, TypeOK
      <3>2. CASE jobs' # jobs
        <4>1. slots[s] \in Lease /\ slots[s].job \in JobIds
          BY <1>1, <2>3 DEF ExtendLease
        <4>2. jobs' = Extended(jobs, slots[s]) /\ faults' \in Nat
              /\ UNCHANGED <<slots, asked, reclaims>>
          BY <1>1, <2>3 DEF ExtendLease
        <4>3. PICK j \in JobIds : /\ jobs' \in Tables /\ SameBut(jobs, jobs', j)
                                  /\ jobs'[j] = [jobs[j] EXCEPT !.expired = FALSE]
          BY <1>1, <3>2, <4>1, <4>2, ExtendedFacts
        <4> QED
          BY <4>2, <4>3, TimesInvariant
      <3> QED
        BY <3>1, <3>2
    <2>4. CASE OutcomeLost(s)
      BY <1>1, <2>4, TimesPass DEF OutcomeLost, Fault, SlotsKeepOrDrop, IInv, TypeOK
    <2> QED
      BY <1>3, <2>1, <2>2, <2>3, <2>4 DEF SlotStep
  <1>4. ASSUME NEW j \in JobIds, ClockStep(j)
        PROVE  IInv'
    <2>1. CASE BecomesDue(j)
      BY <1>1, <2>1, TimesFacts, TimesInvariant DEF BecomesDue
    <2>2. CASE LeaseRunsOut(j)
      <3>1. /\ jobs[j].status = "running" /\ jobs' = Lapsed(jobs, j)
            /\ faults' \in Nat /\ UNCHANGED <<slots, asked, reclaims>>
        BY <1>1, <2>2 DEF LeaseRunsOut
      <3> QED
        BY <1>1, <3>1, TimesFacts, TimesInvariant
    <2>3. CASE LeaseOutlived(j)
      <3>1. /\ jobs[j].status = "running" /\ jobs' = Lapsed(jobs, j)
            /\ faults' \in Nat /\ UNCHANGED <<slots, asked, reclaims>>
        BY <1>1, <2>3 DEF LeaseOutlived, Fault
      <3> QED
        BY <1>1, <3>1, TimesFacts, TimesInvariant
    <2> QED
      BY <1>4, <2>1, <2>2, <2>3 DEF ClockStep
  <1>5. CASE UNCHANGED vars
    BY <1>1, <1>5, TimesPass DEF vars, SlotsKeepOrDrop, IInv, TypeOK
  <1> QED
    BY <1>2, <1>3, <1>4, <1>5 DEF Next

LEMMA Invariance == Spec => []IInv
  <1>1. IInv /\ [Next]_vars => IInv'
    BY NextInvariant
  <1> QED
    BY <1>1, InitInvariant, PTL DEF Spec

-----------------------------------------------------------------------------
(* What follows                                                            *)

\* The table and the slots keep their shape: only a running job has a token.
THEOREM TypeCorrect == Spec => []TypeOK
  <1>1. IInv => TypeOK
    BY DEF IInv
  <1> QED
    BY <1>1, Invariance, PTL

\* Whatever is enqueued, retried and given up, at most one job waits per key:
\* the unique index is never violated.
THEOREM OneWaits == Spec => []OneQueuedPerKey
  <1>1. IInv => OneQueuedPerKey
    BY DEF IInv
  <1> QED
    BY <1>1, Invariance, PTL

\* Work asked for has a job that waits to do it until one starts.
THEOREM WorkKept == Spec => []NoLostWork
  <1>1. IInv => NoLostWork
    BY DEF IInv
  <1> QED
    BY <1>1, Invariance, PTL

\* Attempts are used up one per lease, and given up only when used up.
THEOREM AttemptsCounted == Spec => []AttemptsJustified
  <1>1. IInv => AttemptsJustified
    BY DEF IInv
  <1> QED
    BY <1>1, Invariance, PTL

\* Of all the slots that run a job, only the last one given it can settle it:
\* two current leases of a job would be the same lease, and leases differ.
THEOREM OneSettles == Spec => []OneSettler
  <1>1. IInv => OneSettler
    <2> SUFFICES ASSUME IInv, NEW s \in Slots, NEW t \in Slots, s # t,
                        slots[s] # Idle, slots[t] # Idle, slots[s].job = slots[t].job,
                        Held(jobs, slots[s]), Held(jobs, slots[t])
                 PROVE  FALSE
      BY DEF OneSettler
    <2>1. slots[s].token = slots[t].token
      BY DEF Held
    <2> QED
      BY <2>1 DEF IInv, LeasesDiffer
  <1> QED
    BY <1>1, Invariance, PTL

\* A slot whose lease was taken over changes nothing when it ends, and no step
\* changes a job that ended.
THEOREM StaleWorkersHarmless == Spec => StaleWorkersChangeNothing
  <1> DEFINE
        Quiet == /\ \A s \in Slots : (slots[s] # Idle /\ slots'[s] = Idle
                                      /\ ~Held(jobs, slots[s])) => jobs' = jobs
                 /\ \A j \in JobIds : jobs[j].status \in {"done", "failed"}
                                      => jobs'[j] = jobs[j]
  <1>1. ASSUME IInv, [Next]_vars PROVE Quiet \/ UNCHANGED vars
    <2>1. /\ jobs \in Tables
          /\ slots \in [Slots -> Lease \cup {Idle}]
          /\ \A s \in Slots : slots[s] # Idle =>
                slots[s] \in Lease /\ slots[s].job \in JobIds
      BY <1>1 DEF IInv, TypeOK, Tables, Lease
    <2>2. CASE Enqueues
      <3>1. PICK w \in Works, k \in Keys, due \in BOOLEAN :
               /\ UNCHANGED slots
               /\ \/ EnqueueIgnore(jobs, jobs', w, k, due)
                  \/ EnqueueReschedule(jobs, jobs', w, k, due)
        BY <2>2 DEF Enqueues, EnqueueOrIgnore, EnqueueOrReschedule, Keys
      <3>2. \A j \in JobIds : jobs[j].status \in {"done", "failed"} => jobs'[j] = jobs[j]
        BY <2>1, <3>1 DEF EnqueueIgnore, EnqueueReschedule, Inserted, NextId,
                          Colliding, Tables
      <3> QED
        BY <3>1, <3>2
    <2>3. ASSUME NEW s \in Slots, SlotStep(s)
          PROVE  Quiet
      <3>1. CASE \E j \in JobIds : TakeLease(s, j)
        <4>1. PICK j \in JobIds : TakeLease(s, j)
          BY <3>1
        <4>2. /\ SameBut(jobs, jobs', j) /\ jobs[j].status \in {"queued", "running"}
              /\ jobs'[j].token \in Nat
          <5>1. jobs' = Leased(jobs, j) /\ jobs[j].status \in {"queued", "running"}
            BY <4>1 DEF TakeLease, Leasable
          <5>2. SameBut(jobs, jobs', j) /\ jobs' \in Tables
            BY <2>1, <5>1, LeasedFacts
          <5> QED
            BY <5>1, <5>2 DEF Tables, Job
        <4>3. LeaseOf(jobs', j) \in Lease /\ Idle \notin Lease
          BY <4>2, JobQueueAssumption DEF LeaseOf, Lease
        <4>4. slots' = [slots EXCEPT ![s] = LeaseOf(jobs', j)] /\ slots[s] = Idle
          BY <4>1 DEF TakeLease
        <4>5. \A t \in Slots : slots[t] # Idle => slots'[t] # Idle
          BY <2>1, <4>3, <4>4
        <4> QED
          BY <4>2, <4>5 DEF SameBut
      <3>2. CASE /\ slots[s] # Idle
                 /\ slots' = [slots EXCEPT ![s] = Idle]
                 /\ \/ jobs' = Completed(jobs, slots[s])
                    \/ jobs' = Failed(jobs, slots[s])
                    \/ jobs' = jobs
        <4>1. slots[s] \in Lease /\ slots[s].job \in JobIds
          BY <2>1, <3>2
        <4>2. ~Held(jobs, slots[s]) => jobs' = jobs
          BY <3>2, <4>1 DEF Completed, Failed
        <4>3. SameBut(jobs, jobs', slots[s].job)
          <5>1. CASE jobs' = jobs
            BY <5>1 DEF SameBut
          <5>2. CASE \/ jobs' = Ended(jobs, slots[s].job, "done")
                     \/ jobs' = Ended(jobs, slots[s].job, "failed")
            BY <2>1, <4>1, <5>2 DEF Ended, SameBut, Tables
          <5>3. CASE jobs' = Requeued(jobs, slots[s].job)
            BY <2>1, <4>1, <5>3, RequeuedFacts
          <5> QED
            BY <3>2, <5>1, <5>2, <5>3 DEF Completed, Failed
        <4>4. Held(jobs, slots[s]) => jobs[slots[s].job].status = "running"
          BY DEF Held
        <4>5. \A t \in Slots : t # s => slots'[t] = slots[t]
          BY <2>1, <3>2
        <4> QED
          BY <4>2, <4>3, <4>4, <4>5 DEF SameBut
      <3>3. CASE ExtendLease(s)
        <4>1. UNCHANGED slots /\ jobs' = Extended(jobs, slots[s])
              /\ slots[s] \in Lease /\ slots[s].job \in JobIds
          BY <2>1, <3>3 DEF ExtendLease
        <4>2. \A j \in JobIds : jobs[j].status \in {"done", "failed"} => jobs'[j] = jobs[j]
          BY <2>1, <4>1, ExtendedFacts DEF Held, SameBut
        <4> QED
          BY <4>1, <4>2
      <3> QED
        BY <2>3, <3>1, <3>2, <3>3 DEF SlotStep, HandlerReturns, HandlerThrows, OutcomeLost
    <2>4. ASSUME NEW j \in JobIds, ClockStep(j)
          PROVE  Quiet
      <3>1. UNCHANGED slots /\ SameBut(jobs, jobs', j)
            /\ jobs[j].status \in {"queued", "running"}
        BY ZenonT(30), <2>1, <2>4, TimesFacts DEF ClockStep, BecomesDue, LeaseRunsOut, LeaseOutlived
      <3> QED
        BY <3>1 DEF SameBut
    <2> QED
      BY <1>1, <2>2, <2>3, <2>4 DEF Next
  <1>2. IInv /\ [Next]_vars => [Quiet]_vars
    BY <1>1
  <1> QED
    BY <1>2, Invariance, PTL DEF Spec, StaleWorkersChangeNothing
=============================================================================
