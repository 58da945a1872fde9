--------------------------- MODULE FrontTurnProofs ---------------------------
(***************************************************************************)
(* The front-of-house turns' safety, for any number of slots, jobs, items  *)
(* and faults.  TurnInv is about the runs and what they took: the runs are *)
(* numbered in order and only the last can be running, so a turn that      *)
(* claims takes nothing from one under way, and what an item's run and an  *)
(* older item's say of their order is what AnsweredInOrder needs.  It also *)
(* counts: a run that did not complete took a fault and one that did holds *)
(* an item, so there is a run for every claim.  InputInv is about the      *)
(* jobs: a handler that kept its lease has its own job, which says that a  *)
(* turn is coming until the handler has looked at the input again.         *)
(***************************************************************************)
EXTENDS FrontTurn, JobTableProofs, FiniteSetTheorems

\* The run is under way in the slot.
WithRun == {"setup", "steer", "model", "deliver", "tools", "finish"}

\* Runs are given their numbers in order, and only the last one can be running.
RunsInOrder ==
    /\ \A q, r \in RunIds : (q < r /\ runs[r] # "none") => runs[q] # "none"
    /\ \A q, r \in RunIds : (runs[r] = "running" /\ runs[q] # "none") => q <= r

\* A slot's own run, where it has one, is the last run.
KnowsRun(slot, rs) ==
    /\ slot.pc \notin TurnPoints \/ slot.pc = "claim" => slot.run = 0
    /\ slot.pc \in WithRun => slot.run # 0 /\ rs[slot.run] = "running"
    /\ slot.pc = "failing" => slot.run # 0 /\ rs[slot.run] \in {"running", "completed"}
    /\ slot.pc = "release" => slot.run # 0 /\ rs[slot.run] = "failed"
    /\ slot.pc \in WithRun \cup {"failing", "release"} =>
          \A q \in RunIds : rs[q] # "none" => q <= slot.run

\* Items are stored in order, and only stored ones are taken, by runs there are.
ItemsStored ==
    /\ \A h, i \in Items : (h < i /\ items[i].stored) => items[h].stored
    /\ \A i \in Items : items[i].by # 0 => items[i].stored /\ runs[items[i].by] # "none"

\* AnsweredInOrder, and an older item was taken by no later run.
TakenInOrder ==
    \A h, i \in Items :
        (h < i /\ items[i].by # 0 /\ runs[items[i].by] # "failed") =>
            items[h].by # 0 /\ items[h].by <= items[i].by

\* A run that did not fail has its input.
HoldsInput ==
    \A r \in RunIds : runs[r] \in {"running", "completed"} => \E i \in Items : items[i].by = r

\* The runs a fault has spoiled: failed, or about to, or left running.
Spoiled ==
    {r \in RunIds : \/ runs[r] = "failed"
                    \/ \E s \in Slots : slots[s].run = r /\ slots[s].pc = "failing"
                    \/ /\ runs[r] = "running"
                       /\ \A s \in Slots : ~(slots[s].run = r /\ slots[s].pc \in WithRun)}

Budget == Cardinality(Spoiled) <= faults /\ faults <= MaxFaults

TurnInv == /\ TypeOK /\ RunsInOrder /\ ItemsStored /\ TakenInOrder /\ HoldsInput /\ Budget
           /\ \A s \in Slots : KnowsRun(slots[s], runs)

\* A job is for one kind of work, and its key, if it has one, names it.
JobsNamed ==
    \A j \in JobIds : /\ jobs[j].key \in {NoKey, jobs[j].work}
                      /\ jobs[j].status # "absent" => jobs[j].work \in Works

\* A slot works on a job of the kind its point is for.
WorksOn(slot, tbl) ==
    slot.pc # "idle" =>
      /\ tbl[slot.lease.job].status # "absent"
      /\ slot.pc \in TurnPoints \cup {"leased", "check", "followup"} =>
            tbl[slot.lease.job].work = Turn
      /\ slot.pc \in {"save", "release_item"} => tbl[slot.lease.job].work \in Files

\* Until a handler outlives its lease, every handler's lease is the current one.
Attending ==
    ~outlived => \A s \in Slots : ~At(s, "idle") =>
        /\ Held(jobs, slots[s].lease) /\ ~jobs[slots[s].lease.job].expired
        /\ \A t \in Slots \ {s} : ~At(t, "idle") => slots[t].lease.job # slots[s].lease.job

InputInv == /\ JobsNamed /\ Attending /\ NoInputLeftBehind
            /\ \A s \in Slots : WorksOn(slots[s], jobs)

-----------------------------------------------------------------------------
(* Constants                                                               *)

LEMMA RunIdsFacts ==
    /\ Cardinality(Items) \in Nat /\ MaxFaults \in Nat
    /\ RunIds \subseteq Nat \ {0} /\ 0 \notin RunIds
    /\ IsFiniteSet(RunIds)
    /\ Cardinality(RunIds) = Cardinality(Items) + MaxFaults
  <1>1. Cardinality(Items) \in Nat /\ MaxFaults \in Nat
    BY FS_CardinalityType, FrontAssumption
  <1>2. RunIds \subseteq Nat \ {0} /\ 0 \notin RunIds
    BY <1>1 DEF RunIds
  <1>3. IsFiniteSet(RunIds) /\ Cardinality(RunIds) = Cardinality(Items) + MaxFaults
    <2> DEFINE n == Cardinality(Items) + MaxFaults
    <2>1. n \in Nat /\ n \in Int /\ 1 \in Int
      BY <1>1
    <2> HIDE DEF n
    <2>2. IsFiniteSet(1 .. n) /\ Cardinality(1 .. n) = IF 1 > n THEN 0 ELSE n - 1 + 1
      BY <2>1, FS_Interval
    <2>3. IsFiniteSet(1 .. n) /\ Cardinality(1 .. n) = n
      BY <2>1, <2>2
    <2> QED
      BY <2>3 DEF RunIds, n
  <1> QED
    BY <1>1, <1>2, <1>3

LEMMA RestIsASlot == Rest \in Slot /\ Rest.pc = "idle" /\ Rest.run = 0
  <1>1. AnyJob \in JobIds /\ 0 \in 0 .. StepBudget
    BY FrontAssumption DEF AnyJob
  <1> QED
    BY <1>1 DEF Rest, Slot, Lease, Points, TurnPoints

-----------------------------------------------------------------------------
(* Runs                                                                    *)

\* Where only the last run can be running, one is.
LEMMA OneRunning ==
    ASSUME NEW rs,
           \A q, r \in RunIds : (rs[r] = "running" /\ rs[q] # "none") => q <= r
    PROVE  Cardinality({r \in RunIds : rs[r] = "running"}) <= 1
  <1> DEFINE R == {r \in RunIds : rs[r] = "running"}
  <1>1. Cardinality(R) <= 1
    <2>1. CASE R = {}
      BY <2>1, FS_EmptySet
    <2>2. CASE R # {}
      <3>1. PICK r : r \in R
        BY <2>2
      <3>2. \A q \in R : q = r
        BY <3>1, RunIdsFacts
      <3>3. R = {r}
        BY <3>1, <3>2
      <3>4. Cardinality({r}) = 1
        BY FS_Singleton
      <3> HIDE DEF R
      <3> QED
        BY <3>3, <3>4
    <2> QED
      BY <2>1, <2>2
  <1> QED
    BY <1>1

\* A slot outside the turn has no run to know.
LEMMA OutsideTurn ==
    ASSUME NEW slot, NEW rs, slot.pc \notin TurnPoints, slot.run = 0
    PROVE  KnowsRun(slot, rs)
  BY DEF KnowsRun, TurnPoints, WithRun

\* What the turn's slots know, one by one.
LEMMA InTurn ==
    ASSUME TurnInv, NEW s \in Slots
    PROVE  /\ slots[s] \in Slot
           /\ slots[s].pc \in TurnPoints <=> lock = s
           /\ KnowsRun(slots[s], runs)
           /\ slots[s].pc \notin TurnPoints => slots[s].run = 0
           /\ slots[s].pc \in TurnPoints =>
                 \A t \in Slots \ {s} : slots[t].pc \notin TurnPoints /\ slots[t].run = 0
  BY DEF TurnInv, TypeOK, KnowsRun

LEMMA TurnPointSets ==
    /\ WithRun \cup {"claim", "failing", "release", "unlock", "thrown"} = TurnPoints
    /\ TurnPoints \subseteq Points
    /\ {"idle", "leased", "check", "followup", "return", "fail", "save", "release_item"}
          \subseteq Points \ TurnPoints
  BY DEF WithRun, TurnPoints, Points

\* Faults pay for the runs they spoil.
LEMMA BudgetKept ==
    ASSUME TurnInv, faults' \in Nat, Spoiled' \subseteq RunIds,
           \/ Spoiled' \subseteq Spoiled /\ faults' = faults
           \/ \E x : Spoiled' \subseteq Spoiled \cup {x} /\ Fault
    PROVE  Budget'
  <1>1. IsFiniteSet(Spoiled) /\ Cardinality(Spoiled) \in Nat
    <2>1. Spoiled \in SUBSET RunIds
      BY DEF Spoiled
    <2> QED
      BY <2>1, RunIdsFacts, FS_Subset, FS_CardinalityType
  <1>2. faults \in Nat /\ Cardinality(Spoiled) <= faults /\ faults <= MaxFaults
    BY DEF TurnInv, TypeOK, Budget
  <1>3. CASE Spoiled' \subseteq Spoiled /\ faults' = faults
    <2>1. Cardinality(Spoiled') <= Cardinality(Spoiled) /\ Cardinality(Spoiled') \in Nat
      BY <1>1, <1>3, FS_Subset, FS_CardinalityType
    <2> QED
      BY <1>1, <1>2, <1>3, <2>1 DEF Budget
  <1>4. ASSUME NEW x, Spoiled' \subseteq Spoiled \cup {x}, Fault
        PROVE  Budget'
    <2>1. IsFiniteSet(Spoiled \cup {x}) /\ Cardinality(Spoiled \cup {x}) \in Nat
          /\ Cardinality(Spoiled \cup {x}) <= Cardinality(Spoiled) + 1
      <3>1. IsFiniteSet(Spoiled \cup {x})
        BY <1>1, FS_AddElement
      <3>2. Cardinality(Spoiled \cup {x}) =
               IF x \in Spoiled THEN Cardinality(Spoiled) ELSE Cardinality(Spoiled) + 1
        BY <1>1, FS_AddElement
      <3> QED
        BY <1>1, <3>1, <3>2, FS_CardinalityType
    <2>2. Cardinality(Spoiled') <= Cardinality(Spoiled \cup {x}) /\ Cardinality(Spoiled') \in Nat
      BY <1>4, <2>1, FS_Subset, FS_CardinalityType
    <2>3. faults' = faults + 1 /\ faults < MaxFaults
      BY <1>4 DEF Fault
    <2> QED
      BY <1>1, <1>2, <2>1, <2>2, <2>3, RunIdsFacts DEF Budget
  <1> QED
    BY <1>3, <1>4

\* A turn that finds input has a run to answer it with: at most as many runs were
\* spoiled as there were faults, and every other one is done and holds an item.
LEMMA NewRunFacts ==
    ASSUME TurnInv, NEW s \in Slots, At(s, "claim"), NEW c \in Items,
           items[c].by = 0 \/ runs[items[c].by] = "running"
    PROVE  /\ NewRun \in RunIds /\ runs[NewRun] = "none"
           /\ \A q \in RunIds : runs[q] # "none" <=> q < NewRun
  <1> DEFINE Free == {r \in RunIds : runs[r] = "none"}
             Done == {r \in RunIds : runs[r] = "completed"}
  <1>1. Free # {}
    <2> SUFFICES ASSUME Free = {} PROVE FALSE
      OBVIOUS
    <2>1. RunIds = Done \cup Spoiled
      <3>1. \A t \in Slots : slots[t].pc \notin WithRun
        <4>1. slots[s].pc \notin WithRun /\ slots[s].pc \in TurnPoints
          BY DEF At, WithRun, TurnPoints
        <4>2. \A t \in Slots \ {s} : slots[t].pc \notin TurnPoints
          BY <4>1, InTurn
        <4> QED
          BY <4>1, <4>2, TurnPointSets
      <3>2. \A r \in RunIds : runs[r] \in {"running", "completed", "failed"}
        BY DEF TurnInv, TypeOK
      <3> QED
        BY <3>1, <3>2 DEF Spoiled
    <2>2. IsFiniteSet(Done) /\ Cardinality(Done) <= Cardinality(Items) - 1
      <3> DEFINE f == [r \in Done |-> CHOOSE i \in Items : items[i].by = r]
      <3>1. \A r \in Done : f[r] \in Items /\ items[f[r]].by = r
        <4> TAKE r \in Done
        <4>1. \E i \in Items : items[i].by = r
          BY DEF TurnInv, HoldsInput
        <4> QED
          BY <4>1
      <3>2. \A r \in Done : f[r] \in Items \ {c}
        BY <3>1, RunIdsFacts
      <3> HIDE DEF f
      <3>3. f \in [Done -> Items \ {c}] /\ \A q, r \in Done : f[q] = f[r] => q = r
        BY ZenonT(30), <3>1, <3>2 DEF f
      <3>4. f \in Injection(Done, Items \ {c})
        BY <3>3 DEF Injection, IsInjective
      <3>5. IsFiniteSet(Items \ {c}) /\ Cardinality(Items \ {c}) = Cardinality(Items) - 1
        BY FS_RemoveElement, FrontAssumption
      <3> QED
        BY <3>4, <3>5, FS_Injection
    <2>3. /\ IsFiniteSet(Spoiled) /\ Cardinality(Spoiled) \in Nat
          /\ Cardinality(Spoiled) <= MaxFaults
      <3>1. Spoiled \in SUBSET RunIds
        BY DEF Spoiled
      <3>2. IsFiniteSet(Spoiled) /\ Cardinality(Spoiled) \in Nat
        BY <3>1, RunIdsFacts, FS_Subset, FS_CardinalityType
      <3> QED
        BY <3>2, RunIdsFacts DEF TurnInv, TypeOK, Budget
    <2>4. Cardinality(Done \cup Spoiled) <= Cardinality(Done) + Cardinality(Spoiled)
      <3>1. IsFiniteSet(Done \cap Spoiled) /\ Cardinality(Done \cap Spoiled) \in Nat
        BY <2>2, FS_Intersection, FS_CardinalityType
      <3>2. Cardinality(Done) \in Nat /\ Cardinality(Spoiled) \in Nat
        BY <2>2, <2>3, FS_CardinalityType
      <3>3. Cardinality(Done \cup Spoiled) =
               Cardinality(Done) + Cardinality(Spoiled) - Cardinality(Done \cap Spoiled)
        BY <2>2, <2>3, FS_Union
      <3> HIDE DEF Done
      <3> QED
        BY <3>1, <3>2, <3>3
    <2>5. Cardinality(Done) \in Nat
      BY <2>2, FS_CardinalityType
    <2> HIDE DEF Done
    <2> QED
      BY <2>1, <2>2, <2>3, <2>4, <2>5, RunIdsFacts
  <1>2. PICK n \in Free : \A q \in Free : ~(<<q, n>> \in Below)
    <2>1. Free \subseteq Nat
      BY RunIdsFacts
    <2> QED
      BY <1>1, <2>1, BelowWellFounded, WFMin
  <1>3. \A q \in RunIds : q < n => runs[q] # "none"
    BY <1>2, RunIdsFacts DEF Below
  <1>4. NewRun \in RunIds /\ runs[NewRun] = "none"
        /\ \A q \in RunIds : q < NewRun => runs[q] # "none"
    BY <1>2, <1>3 DEF NewRun
  <1>5. \A q \in RunIds : runs[q] # "none" => q < NewRun
    BY <1>4, RunIdsFacts DEF TurnInv, RunsInOrder
  <1> QED
    BY <1>4, <1>5

-----------------------------------------------------------------------------
(* Steps that leave the runs and what they took alone                      *)

\* Where the lock goes with the slot that moves.
LockMoves(s, new) ==
    \/ lock' = lock /\ (new.pc \in TurnPoints <=> slots[s].pc \in TurnPoints)
    \/ lock = None /\ lock' = s /\ new.pc \in TurnPoints
    \/ lock' = (IF lock = s THEN None ELSE lock) /\ new.pc \notin TurnPoints

\* The types of the state, for a step that moves one slot.
LEMMA TypesMove ==
    ASSUME TypeOK, NEW s \in Slots, NEW new \in Slot, slots' = [slots EXCEPT ![s] = new],
           LockMoves(s, new),
           jobs' \in Tables, outlived' \in BOOLEAN, faults' \in Nat,
           items' \in [Items -> Item],
           runs' \in [RunIds -> {"none", "running", "completed", "failed"}],
           RunsInOrder'
    PROVE  TypeOK'
  <1>1. \A t \in Slots : slots'[t] = IF t = s THEN new ELSE slots[t]
    BY DEF TypeOK
  <1>2. \A t \in Slots : slots[t].pc \in TurnPoints <=> lock = t
    BY DEF TypeOK
  <1>3. None \notin Slots
    BY FrontAssumption
  <1>4. \A t \in Slots : slots'[t].pc \in TurnPoints <=> lock' = t
    BY <1>1, <1>2, <1>3 DEF LockMoves
  <1>5. lock' \in Slots \cup {None}
    BY DEF TypeOK, LockMoves
  <1>6. Cardinality(Running') <= 1
    BY OneRunning DEF RunsInOrder, Running
  <1>7. slots' \in [Slots -> Slot]
    BY DEF TypeOK
  <1> QED
    BY <1>4, <1>5, <1>6, <1>7 DEF TypeOK, Tables

\* What only the runs and the items say.
LEMMA OrderKept ==
    ASSUME TurnInv, runs' = runs,
           \A i \in Items : items'[i].by = items[i].by /\ items'[i].stored = items[i].stored
    PROVE  RunsInOrder' /\ ItemsStored' /\ TakenInOrder' /\ HoldsInput'
  BY DEF TurnInv, RunsInOrder, ItemsStored, TakenInOrder, HoldsInput

LEMMA TurnMoves ==
    ASSUME TurnInv, NEW s \in Slots, NEW new \in Slot, slots' = [slots EXCEPT ![s] = new],
           KnowsRun(new, runs), LockMoves(s, new),
           jobs' \in Tables, outlived' \in BOOLEAN, faults' \in Nat, runs' = runs,
           items' \in [Items -> Item],
           \A i \in Items : items'[i].by = items[i].by /\ items'[i].stored = items[i].stored,
           new.pc = "failing" => new.run = slots[s].run,
           \/ Fault
           \/ /\ faults' = faults
              /\ slots[s].pc \in WithRun => new.pc \in WithRun /\ new.run = slots[s].run
              /\ new.pc = "failing" => slots[s].pc = "failing"
    PROVE  TurnInv'
  <1>1. RunsInOrder' /\ ItemsStored' /\ TakenInOrder' /\ HoldsInput'
    BY OrderKept
  <1>2. TypeOK'
    BY <1>1, TypesMove DEF TurnInv, TypeOK
  <1>3. \A t \in Slots : slots'[t] = IF t = s THEN new ELSE slots[t]
    BY DEF TurnInv, TypeOK
  <1>4. \A t \in Slots : KnowsRun(slots'[t], runs')
    BY <1>3 DEF TurnInv
  <1>5. Budget'
    <2>1. Spoiled' \subseteq RunIds
      BY DEF Spoiled
    <2>2. CASE Fault
      <3>1. Spoiled' \subseteq Spoiled \cup {slots[s].run}
        BY <1>3 DEF Spoiled
      <3> QED
        BY <2>1, <2>2, <3>1, BudgetKept
    <2>3. CASE ~Fault
      <3>1. Spoiled' \subseteq Spoiled
        BY <1>3, <2>3 DEF Spoiled
      <3> QED
        BY <2>1, <2>3, <3>1, BudgetKept
    <2> QED
      BY <2>2, <2>3
  <1> QED
    BY <1>1, <1>2, <1>4, <1>5 DEF TurnInv

\* A slot as it is, at another point.
LEMMA SlotAt ==
    ASSUME NEW slot \in Slot, NEW p \in Points
    PROVE  /\ [slot EXCEPT !.pc = p] \in Slot
           /\ [slot EXCEPT !.pc = p].pc = p
           /\ [slot EXCEPT !.pc = p].run = slot.run
           /\ [slot EXCEPT !.pc = p].lease = slot.lease
  BY DEF Slot

LEMMA GoFacts ==
    ASSUME TypeOK, NEW s \in Slots, NEW p, Go(s, p)
    PROVE  slots' = [slots EXCEPT ![s] = [slots[s] EXCEPT !.pc = p]]
  BY DEF Go, TypeOK

\* Outside the turn, a slot goes from point to point, or to the turn's start.
LEMMA OutsideMoves ==
    ASSUME TurnInv, NEW s \in Slots, slots[s].pc \notin TurnPoints,
           NEW p \in (Points \ TurnPoints) \cup {"claim"}, Go(s, p),
           \/ lock' = lock /\ p # "claim"
           \/ lock = None /\ lock' = s /\ p = "claim",
           jobs' \in Tables, outlived' = outlived, runs' = runs, faults' = faults \/ Fault,
           items' \in [Items -> Item],
           \A i \in Items : items'[i].by = items[i].by /\ items'[i].stored = items[i].stored
    PROVE  TurnInv'
  <1> DEFINE new == [slots[s] EXCEPT !.pc = p]
  <1>1. slots[s].run = 0 /\ slots[s] \in Slot
    BY InTurn
  <1>2. new \in Slot /\ new.pc = p /\ new.run = 0
    BY <1>1, SlotAt, TurnPointSets
  <1>3. slots' = [slots EXCEPT ![s] = new]
    BY GoFacts DEF TurnInv
  <1> HIDE DEF new
  <1>4. KnowsRun(new, runs) /\ new.pc # "failing" /\ slots[s].pc \notin WithRun
    BY <1>2, TurnPointSets DEF KnowsRun, WithRun
  <1>5. faults' \in Nat /\ outlived' \in BOOLEAN
    BY DEF Fault, TurnInv, TypeOK
  <1>6. LockMoves(s, new)
    BY <1>2, TurnPointSets DEF LockMoves
  <1> QED
    BY <1>2, <1>3, <1>4, <1>5, <1>6, TurnMoves

\* A slot leaves what it was doing, the turn included.
LEMMA LeavesTurn ==
    ASSUME TurnInv, NEW s \in Slots, NEW new \in Slot, slots' = [slots EXCEPT ![s] = new],
           new.pc \notin TurnPoints, new.run = 0,
           slots[s].pc \notin WithRun \/ Fault, faults' = faults \/ Fault,
           LockMoves(s, new),
           jobs' \in Tables, outlived' = outlived, UNCHANGED <<runs, items>>
    PROVE  TurnInv'
  <1>1. KnowsRun(new, runs) /\ new.pc # "failing"
    BY OutsideTurn DEF TurnPoints
  <1>2. faults' \in Nat /\ outlived' \in BOOLEAN
    BY DEF Fault, TurnInv, TypeOK
  <1>3. items' \in [Items -> Item]
    BY DEF TurnInv, TypeOK
  <1> QED
    BY <1>1, <1>2, <1>3, TurnMoves

-----------------------------------------------------------------------------
(* Input, the worker and the handlers                                      *)

\* What a turn's job is queued as.
LEMMA TurnKeys == Turn \in Keys /\ Turn # NoKey /\ Files \subseteq Keys
  BY FrontAssumption, JobTableAssumption DEF Keys

\* What arriving does to the items, and what releasing one does.
LEMMA ArriveItems ==
    ASSUME TypeOK, NEW i \in Items, Arrive(i)
    PROVE  /\ items' \in [Items -> Item]
           /\ ~items[i].stored /\ \A h \in Items : h < i => items[h].stored
           /\ \A h \in Items : h # i => items'[h] = items[h]
           /\ items'[i].by = items[i].by /\ items'[i].stored
           /\ items'[i].pending <=> i \in Files
  <1>1. PICK held \in BOOLEAN :
           /\ held <=> i \in Files
           /\ items' = [items EXCEPT ![i] = [items[i] EXCEPT !.stored = TRUE, !.pending = held]]
    <2>1. (i \in Files) \in BOOLEAN
      OBVIOUS
    <2>2. items' = [items EXCEPT ![i] = [items[i] EXCEPT !.stored = TRUE,
                                                         !.pending = (i \in Files)]]
      BY DEF Arrive, TypeOK
    <2> QED
      BY <2>1, <2>2
  <1> DEFINE new == [items[i] EXCEPT !.stored = TRUE, !.pending = held]
  <1>2. items \in [Items -> Item] /\ items[i] \in Item
    BY DEF TypeOK
  <1>3. new \in Item /\ new.by = items[i].by /\ new.stored /\ (new.pending <=> held)
    BY <1>2 DEF Item
  <1>4. items' = [items EXCEPT ![i] = new]
    BY <1>1
  <1> HIDE DEF new
  <1>5. ~items[i].stored /\ \A h \in Items : h < i => items[h].stored
    BY DEF Arrive, NextItem
  <1> QED
    BY <1>1, <1>2, <1>3, <1>4, <1>5

LEMMA ReleaseItemItems ==
    ASSUME TypeOK, NEW s \in Slots, ReleaseItem(s)
    PROVE  /\ items' \in [Items -> Item]
           /\ \A h \in Items : /\ items'[h].by = items[h].by
                               /\ items'[h].stored = items[h].stored
  <1>1. \A h \in Items : items'[h] = items[h] \/ items'[h] = [items[h] EXCEPT !.pending = FALSE]
    BY DEF ReleaseItem, TypeOK
  <1>2. \A h \in Items : LET x == [items[h] EXCEPT !.pending = FALSE]
                         IN  x \in Item /\ x.by = items[h].by /\ x.stored = items[h].stored
    BY DEF TypeOK, Item
  <1>3. \A h \in Items : /\ items'[h] \in Item
                         /\ items'[h].by = items[h].by /\ items'[h].stored = items[h].stored
    BY <1>1, <1>2 DEF TypeOK
  <1>4. DOMAIN items' = Items /\ items' = [h \in Items |-> items'[h]]
    BY DEF ReleaseItem, TypeOK
  <1> QED
    BY <1>3, <1>4

LEMMA ArriveInvariant ==
    ASSUME TurnInv, NEW i \in Items, Arrive(i)
    PROVE  TurnInv'
  <1>1. items[i] \in Item /\ ~items[i].stored /\ \A h \in Items : h < i => items[h].stored
    BY ArriveItems DEF TurnInv, TypeOK
  <1>2. /\ items' \in [Items -> Item]
        /\ \A h \in Items : items'[h].by = items[h].by
        /\ \A h \in Items : items'[h].stored <=> items[h].stored \/ h = i
    BY ArriveItems DEF TurnInv
  <1>3. UNCHANGED <<lock, runs, slots, outlived, faults>>
    BY DEF Arrive
  <1>4. jobs' \in Tables
    <2>1. jobs \in Tables /\ i \in Files => i \in Keys
      BY TurnKeys DEF TurnInv, TypeOK, Tables
    <2> QED
      BY <2>1, TurnKeys, EnqueueFacts DEF Arrive, TurnInv, TypeOK, Tables
  <1>5. TypeOK'
    BY <1>2, <1>3, <1>4 DEF TurnInv, TypeOK, Running, Tables
  <1>6. ItemsStored'
    <2>1. \A h, k \in Items : (h < k /\ items'[k].stored) => items'[h].stored
      BY <1>1, <1>2 DEF TurnInv, ItemsStored
    <2>2. \A k \in Items : items'[k].by # 0 => items'[k].stored /\ runs'[items'[k].by] # "none"
      BY <1>2, <1>3 DEF TurnInv, ItemsStored
    <2> QED
      BY <2>1, <2>2 DEF ItemsStored
  <1>7. RunsInOrder' /\ TakenInOrder' /\ HoldsInput'
    BY <1>2, <1>3 DEF TurnInv, RunsInOrder, TakenInOrder, HoldsInput
  <1>8. Budget' /\ \A s \in Slots : KnowsRun(slots'[s], runs')
    BY <1>3 DEF TurnInv, Budget, Spoiled
  <1> QED
    BY <1>5, <1>6, <1>7, <1>8 DEF TurnInv

\* A slot's job is a row of the table, and settling it leaves a table.
LEMMA SettledTables ==
    ASSUME TypeOK, NEW s \in Slots
    PROVE  /\ jobs \in Tables
           /\ Completed(jobs, slots[s].lease) \in Tables
           /\ Failed(jobs, slots[s].lease) \in Tables
  <1>1. jobs \in Tables /\ slots[s].lease \in Lease /\ slots[s].lease.job \in JobIds
    BY DEF TypeOK, Tables, Slot, Lease
  <1>2. /\ Ended(jobs, slots[s].lease.job, "done") \in Tables
        /\ Ended(jobs, slots[s].lease.job, "failed") \in Tables
        /\ Requeued(jobs, slots[s].lease.job) \in Tables
    BY <1>1, EndedFacts, RequeuedFacts
  <1> QED
    BY <1>1, <1>2, CompletedFacts, FailedFacts

LEMMA TakeLeaseInvariant ==
    ASSUME TurnInv, NEW s \in Slots, NEW j \in JobIds, TakeLease(s, j)
    PROVE  TurnInv'
  <1>1. jobs' \in Tables
    BY LeasedFacts DEF TakeLease, TurnInv, TypeOK, Tables
  <1>2. jobs'[j].token \in Nat /\ slots[s].pc \notin TurnPoints /\ slots[s].pc = "idle"
    BY <1>1 DEF Tables, Job, TakeLease, At, TurnPoints
  <1>3. slots[s] \in Slot /\ slots[s].run = 0
    BY <1>2, InTurn
  <1> DEFINE new == [slots[s] EXCEPT !.lease = LeaseOf(jobs', j),
                                     !.pc = IF jobs[j].work = Turn THEN "leased" ELSE "save"]
  <1>4. slots' = [slots EXCEPT ![s] = new]
    BY DEF TakeLease, TurnInv, TypeOK
  <1>5. LeaseOf(jobs', j) \in Lease
    BY <1>2 DEF LeaseOf, Lease
  <1>6. new \in Slot /\ new.pc \in {"leased", "save"} /\ new.run = 0
    BY <1>3, <1>5 DEF Slot, Points
  <1> HIDE DEF new
  <1>7. new.pc \notin TurnPoints /\ slots[s].pc \notin WithRun
    BY <1>2, <1>6, TurnPointSets
  <1>8. LockMoves(s, new)
    BY <1>2, <1>7 DEF LockMoves, TakeLease
  <1> QED
    BY <1>1, <1>4, <1>6, <1>7, <1>8, LeavesTurn DEF TakeLease

\* The handler's answer to the queue, and its end when the worker dies.
LEMMA SettleInvariant ==
    ASSUME TurnInv, NEW s \in Slots, Return(s) \/ FailJob(s) \/ Crash(s)
    PROVE  TurnInv'
  <1>1. jobs' \in Tables
    BY SettledTables DEF Return, FailJob, Crash, TurnInv
  <1>2. slots' = [slots EXCEPT ![s] = Rest] /\ UNCHANGED <<runs, items, outlived>>
    BY DEF Return, FailJob, Crash
  <1>3. Rest.pc \notin TurnPoints /\ Rest.run = 0 /\ Rest \in Slot
    BY RestIsASlot DEF TurnPoints
  <1>4. CASE Crash(s)
    <2>1. LockMoves(s, Rest) /\ Fault
      BY <1>3, <1>4 DEF Crash, LockMoves
    <2> QED
      BY <1>1, <1>2, <1>3, <2>1, LeavesTurn
  <1>5. CASE Return(s) \/ FailJob(s)
    <2>1. slots[s].pc \notin TurnPoints /\ slots[s].pc \notin WithRun
      BY <1>5, TurnPointSets DEF Return, FailJob, At
    <2>2. LockMoves(s, Rest) /\ faults' = faults
      BY <1>3, <1>5, <2>1 DEF Return, FailJob, LockMoves
    <2> QED
      BY <1>1, <1>2, <1>3, <2>1, <2>2, LeavesTurn
  <1> QED
    BY <1>4, <1>5

\* The save_attachment handler, the look at the lock and the look at the input.
LEMMA HandlerInvariant ==
    ASSUME TurnInv, NEW s \in Slots,
           \/ Save(s) \/ SaveFails(s) \/ ReleaseItem(s) \/ TryLock(s) \/ CheckInput(s)
           \/ FollowUp(s)
    PROVE  TurnInv'
  <1>1. slots[s].pc \notin TurnPoints
    BY TurnPointSets DEF Save, SaveFails, ReleaseItem, TryLock, CheckInput, FollowUp, At
  <1>2. runs' = runs /\ outlived' = outlived /\ (faults' = faults \/ Fault)
    BY DEF Save, SaveFails, ReleaseItem, TryLock, CheckInput, FollowUp
  <1>3. jobs' \in Tables
    <2>1. jobs \in Tables
      BY DEF TurnInv, TypeOK, Tables
    <2>2. CASE UNCHANGED jobs
      BY <2>1, <2>2
    <2>3. CASE \/ EnqueueIgnore(jobs, jobs', Turn, Turn, TRUE)
               \/ EnqueueReschedule(jobs, jobs', Turn, Turn, FALSE)
      BY <2>1, <2>3, TurnKeys, EnqueueFacts
    <2> QED
      BY <2>2, <2>3 DEF Save, SaveFails, ReleaseItem, TryLock, CheckInput, FollowUp
  <1>4. /\ items' \in [Items -> Item]
        /\ \A i \in Items : items'[i].by = items[i].by /\ items'[i].stored = items[i].stored
    <2>1. CASE UNCHANGED items
      BY <2>1 DEF TurnInv, TypeOK
    <2>2. CASE ReleaseItem(s)
      BY <2>2, ReleaseItemItems DEF TurnInv
    <2> QED
      BY <2>1, <2>2 DEF Save, SaveFails, TryLock, CheckInput, FollowUp
  <1>5. PICK p \in (Points \ TurnPoints) \cup {"claim"} :
           /\ Go(s, p)
           /\ \/ lock' = lock /\ p # "claim"
              \/ lock = None /\ lock' = s /\ p = "claim"
    <2>1. CASE TryLock(s)
      BY <2>1, TurnPointSets DEF TryLock
    <2>2. CASE Save(s) \/ SaveFails(s) \/ ReleaseItem(s) \/ CheckInput(s) \/ FollowUp(s)
      BY <2>2, TurnPointSets DEF Save, SaveFails, ReleaseItem, CheckInput, FollowUp
    <2> QED
      BY <2>1, <2>2
  <1> QED
    BY <1>1, <1>2, <1>3, <1>4, <1>5, OutsideMoves

LEMMA UnlockInvariant ==
    ASSUME TurnInv, NEW s \in Slots, Unlock(s)
    PROVE  TurnInv'
  <1>1. slots[s].pc \in {"unlock", "thrown"} /\ slots[s].pc \in TurnPoints
        /\ slots[s].pc \notin WithRun
    BY DEF Unlock, TurnPoints, WithRun
  <1>2. lock = s /\ slots[s] \in Slot
    BY <1>1, InTurn
  <1>3. PICK p \in {"fail", "check"} :
           slots' = [slots EXCEPT ![s] = [Rest EXCEPT !.pc = p, !.lease = slots[s].lease]]
    BY DEF Unlock, LeaveTurn
  <1> DEFINE new == [Rest EXCEPT !.pc = p, !.lease = slots[s].lease]
  <1>4. new \in Slot /\ new.pc = p /\ new.run = 0
    BY <1>2, RestIsASlot DEF Slot, Points
  <1>5. slots' = [slots EXCEPT ![s] = new]
    BY <1>3
  <1> HIDE DEF new
  <1>6. new.pc \notin TurnPoints
    BY <1>4, TurnPointSets
  <1>7. LockMoves(s, new)
    BY <1>2, <1>6 DEF LockMoves, Unlock
  <1>8. jobs' \in Tables
    BY DEF Unlock, TurnInv, TypeOK, Tables
  <1> QED
    BY <1>1, <1>4, <1>5, <1>6, <1>7, <1>8, LeavesTurn DEF Unlock

\* The clock, and a handler that outlives its lease.
LEMMA ClockInvariant ==
    ASSUME TurnInv, NEW j \in JobIds, BecomesDue(j) \/ LeaseRunsOut(j) \/ LeaseOutlived(j)
    PROVE  TurnInv'
  <1>1. jobs' \in Tables
    <2>1. jobs \in Tables
      BY DEF TurnInv, TypeOK, Tables
    <2> QED
      <3>1. jobs' = Passed(jobs, j) \/ jobs' = Lapsed(jobs, j)
        BY DEF BecomesDue, LeaseRunsOut, LeaseOutlived
      <3> QED
        BY <2>1, <3>1, TimesFacts
  <1>2. /\ UNCHANGED <<lock, items, runs, slots>> /\ outlived' \in BOOLEAN
        /\ faults' = faults \/ Fault
    BY DEF BecomesDue, LeaseRunsOut, LeaseOutlived, TurnInv, TypeOK
  <1>3. faults' \in Nat
    BY <1>2 DEF Fault, TurnInv, TypeOK
  <1>4. TypeOK'
    BY <1>1, <1>2, <1>3 DEF TurnInv, TypeOK, Running, Tables
  <1>5. RunsInOrder' /\ ItemsStored' /\ TakenInOrder' /\ HoldsInput'
    BY <1>2, OrderKept
  <1>6. Budget'
    <2>1. Spoiled' = Spoiled /\ Spoiled \subseteq RunIds
      BY <1>2 DEF Spoiled
    <2> QED
      BY <1>2, <1>3, <2>1, BudgetKept
  <1> QED
    BY <1>2, <1>4, <1>5, <1>6 DEF TurnInv

-----------------------------------------------------------------------------
(* The turn                                                                *)

\* A step of the turn that leaves the runs and the input as they are.
LEMMA StepInvariant ==
    ASSUME TurnInv, NEW s \in Slots,
           SetUp(s) \/ CallModel(s) \/ DeliverReply(s) \/ EndStep(s)
    PROVE  TurnInv'
  <1>1. slots[s].pc \in WithRun /\ slots[s] \in Slot /\ KnowsRun(slots[s], runs)
    BY InTurn DEF SetUp, CallModel, DeliverReply, EndStep, At, WithRun
  <1>2. PICK new \in Slot :
           /\ slots' = [slots EXCEPT ![s] = new]
           /\ new.pc \in WithRun /\ new.run = slots[s].run
    <2>1. CASE SetUp(s) \/ DeliverReply(s) \/ EndStep(s)
      <3>1. PICK p \in WithRun : Go(s, p)
        <4>1. CASE SetUp(s) \/ DeliverReply(s)
          BY <4>1 DEF SetUp, DeliverReply, WithRun
        <4>2. CASE EndStep(s)
          <5>1. PICK more \in BOOLEAN :
                   Go(s, IF more /\ slots[s].steps < StepBudget THEN "steer" ELSE "finish")
            BY <4>2 DEF EndStep
          <5>2. "steer" \in WithRun /\ "finish" \in WithRun
            BY DEF WithRun
          <5>3. Go(s, "steer") \/ Go(s, "finish")
            BY <5>1
          <5> QED
            BY <5>2, <5>3
        <4> QED
          BY <2>1, <4>1, <4>2
      <3> DEFINE new == [slots[s] EXCEPT !.pc = p]
      <3>2. new \in Slot /\ new.pc = p /\ new.run = slots[s].run
        BY <1>1, TurnPointSets, SlotAt
      <3>3. slots' = [slots EXCEPT ![s] = new]
        BY <3>1, GoFacts DEF TurnInv
      <3> QED
        BY <3>2, <3>3
    <2>2. CASE CallModel(s)
      <3>1. PICK text \in BOOLEAN, n \in (slots[s].steps + 1) .. StepBudget :
               LET drop == text /\ Interrupting # {}
               IN  slots' = [slots EXCEPT ![s].steps = n, ![s].drop = drop,
                               ![s].pc = IF text /\ ~drop THEN "deliver" ELSE "tools"]
        BY <2>2 DEF CallModel
      <3>2. (text /\ Interrupting # {}) \in BOOLEAN
        OBVIOUS
      <3>3. PICK drop \in BOOLEAN, p \in {"deliver", "tools"} :
               slots' = [slots EXCEPT ![s] = [slots[s] EXCEPT !.steps = n, !.drop = drop, !.pc = p]]
        BY <3>1, <3>2 DEF TurnInv, TypeOK
      <3> DEFINE new == [slots[s] EXCEPT !.steps = n, !.drop = drop, !.pc = p]
      <3>4. n \in 0 .. StepBudget
        BY <1>1, FrontAssumption DEF Slot
      <3>5. new \in Slot /\ new.pc \in WithRun /\ new.run = slots[s].run
        BY <1>1, <3>4 DEF Slot, Points, TurnPoints, WithRun
      <3> QED
        BY <3>3, <3>5
    <2> QED
      BY <2>1, <2>2
  <1>3. KnowsRun(new, runs)
    BY <1>1, <1>2, TurnPointSets DEF KnowsRun, WithRun, TurnPoints
  <1>4. LockMoves(s, new) /\ new.pc # "failing"
    BY <1>1, <1>2, TurnPointSets DEF LockMoves, WithRun, SetUp, CallModel, DeliverReply, EndStep
  <1>5. /\ UNCHANGED <<jobs, items, runs, outlived, faults>>
        /\ jobs \in Tables /\ items \in [Items -> Item] /\ outlived \in BOOLEAN /\ faults \in Nat
    BY DEF SetUp, CallModel, DeliverReply, EndStep, TurnInv, TypeOK, Tables
  <1> QED
    BY <1>1, <1>2, <1>3, <1>4, <1>5, TurnMoves

\* A failing call moves the slot to where its error goes.
LEMMA CallFailsInvariant ==
    ASSUME TurnInv, NEW s \in Slots, CallFails(s)
    PROVE  TurnInv'
  <1>1. UNCHANGED <<jobs, lock, items, runs, outlived>> /\ Fault
        /\ slots[s] \in Slot /\ KnowsRun(slots[s], runs)
    BY InTurn DEF CallFails
  <1>2. jobs \in Tables /\ items \in [Items -> Item] /\ outlived \in BOOLEAN /\ faults' \in Nat
    BY <1>1 DEF TurnInv, TypeOK, Tables, Fault
  <1>3. CASE slots[s].pc \notin TurnPoints
    <2>1. Go(s, "fail") /\ "fail" \in Points \ TurnPoints /\ "fail" # "claim"
      BY <1>3, TurnPointSets DEF CallFails, TurnPoints
    <2> QED
      BY <1>1, <1>2, <1>3, <2>1, OutsideMoves
  <1>4. CASE slots[s].pc \in TurnPoints
    <2>1. \/ slots[s].pc \in WithRun /\ Go(s, "failing")
          \/ Go(s, "thrown")
      BY <1>4 DEF CallFails, WithRun, TurnPoints
    <2>2. PICK p \in {"failing", "thrown"} : Go(s, p) /\ (p = "failing" => slots[s].pc \in WithRun)
      BY <2>1
    <2> DEFINE new == [slots[s] EXCEPT !.pc = p]
    <2>3. p \in Points /\ p \in TurnPoints /\ p \notin WithRun
          /\ p # "claim" /\ p # "release"
      BY DEF Points, TurnPoints, WithRun
    <2>4. new \in Slot /\ new.pc = p /\ new.run = slots[s].run
      BY <1>1, <2>3, SlotAt
    <2>5. slots' = [slots EXCEPT ![s] = new]
      BY <2>2, GoFacts DEF TurnInv
    <2> HIDE DEF new
    <2>6. KnowsRun(new, runs)
      BY <1>1, <2>2, <2>3, <2>4 DEF KnowsRun
    <2>7. LockMoves(s, new)
      BY <1>1, <1>4, <2>3, <2>4 DEF LockMoves
    <2> QED
      BY <1>1, <1>2, <2>4, <2>5, <2>6, <2>7, TurnMoves
  <1> QED
    BY <1>3, <1>4

\* finishRun, in the turn and in its catch: the slot's run, which is the last,
\* ends, or its end is lost.
LEMMA RunEndsInvariant ==
    ASSUME TurnInv, NEW s \in Slots, FinishRun(s) \/ FinishFails(s) \/ Failing(s)
    PROVE  TurnInv'
  <1> DEFINE r == slots[s].run
  <1>1. /\ slots[s].pc \in {"finish", "failing"} /\ slots[s].pc \in TurnPoints
        /\ UNCHANGED <<jobs, lock, items, outlived>>
    BY DEF FinishRun, FinishFails, Failing, At, TurnPoints
  <1>2. slots[s] \in Slot /\ r \in RunIds /\ runs[r] \in {"running", "completed"}
        /\ \A q \in RunIds : runs[q] # "none" => q <= r
    <2>1. KnowsRun(slots[s], runs) /\ slots[s] \in Slot
      BY InTurn
    <2> QED
      BY <1>1, <2>1 DEF KnowsRun, Slot, WithRun
  <1>3. PICK st \in {"running", "completed", "failed"}, p \in {"unlock", "failing", "release"} :
           /\ runs' = [runs EXCEPT ![r] = st] /\ Go(s, p)
           /\ \/ p = "unlock" /\ st = "completed" /\ faults' = faults
              \/ p = "failing" /\ st \in {"running", "completed"} /\ Fault /\ runs[r] = "running"
              \/ p = "release" /\ st = "failed" /\ faults' = faults /\ slots[s].pc = "failing"
    <2>1. At(s, "finish") => runs[r] = "running"
      BY InTurn DEF KnowsRun, At, WithRun
    <2> HIDE DEF r
    <2>2. CASE FinishRun(s)
      BY <2>2 DEF FinishRun, r
    <2>3. CASE FinishFails(s)
      BY <2>1, <2>3 DEF FinishFails, r
    <2>4. CASE Failing(s)
      BY <2>4 DEF Failing, At, r
    <2> QED
      BY <2>2, <2>3, <2>4
  <1> DEFINE new == [slots[s] EXCEPT !.pc = p]
  <1>4. new \in Slot /\ new.pc = p /\ new.run = r
    BY <1>2, SlotAt DEF Points, TurnPoints
  <1>5. slots' = [slots EXCEPT ![s] = new]
    BY <1>3, GoFacts DEF TurnInv
  <1> HIDE DEF new, r
  <1>6. \A q \in RunIds : runs'[q] = IF q = r THEN st ELSE runs[q]
    BY <1>2, <1>3 DEF TurnInv, TypeOK
  <1>7. \A t \in Slots : slots'[t] = IF t = s THEN new ELSE slots[t]
    BY <1>5 DEF TurnInv, TypeOK
  <1>8. /\ \A q \in RunIds : runs'[q] = "none" <=> runs[q] = "none"
        /\ \A q \in RunIds : runs'[q] = "running" => runs[q] = "running" \/ q = r
        /\ \A q \in RunIds : runs[q] = "failed" => runs'[q] = "failed"
        /\ \A q \in RunIds : runs'[q] \in {"running", "completed"} =>
                                runs[q] \in {"running", "completed"}
    BY <1>2, <1>6
  <1>9. RunsInOrder'
    BY <1>2, <1>8 DEF TurnInv, RunsInOrder
  <1>10. ItemsStored' /\ TakenInOrder' /\ HoldsInput'
    <2>1. \A i \in Items : items[i].by \in RunIds \cup {0}
      BY DEF TurnInv, TypeOK, Item
    <2>2. ItemsStored'
      BY <1>1, <1>8, <2>1 DEF TurnInv, ItemsStored
    <2>3. TakenInOrder'
      BY <1>1, <1>8, <2>1 DEF TurnInv, TakenInOrder
    <2>4. HoldsInput'
      BY <1>1, <1>8 DEF TurnInv, HoldsInput
    <2> QED
      BY <2>2, <2>3, <2>4
  <1>11. TypeOK'
    <2>1. runs' \in [RunIds -> {"none", "running", "completed", "failed"}]
      BY <1>3 DEF TurnInv, TypeOK
    <2>2. LockMoves(s, new)
      BY <1>1, <1>3, <1>4 DEF LockMoves, TurnPoints
    <2>3. jobs' \in Tables /\ outlived' \in BOOLEAN /\ faults' \in Nat /\ items' \in [Items -> Item]
      BY <1>1, <1>3 DEF TurnInv, TypeOK, Tables, Fault
    <2> QED
      BY <1>4, <1>5, <1>9, <2>1, <2>2, <2>3, TypesMove DEF TurnInv
  <1>12. \A t \in Slots : KnowsRun(slots'[t], runs')
    <2>1. r # 0 /\ runs'[r] = st /\ \A q \in RunIds : runs'[q] # "none" => q <= r
      BY <1>2, <1>6, <1>8, RunIdsFacts
    <2>2. KnowsRun(new, runs')
      BY <1>3, <1>4, <2>1 DEF KnowsRun, TurnPoints, WithRun
    <2>3. \A t \in Slots \ {s} : KnowsRun(slots[t], runs')
      BY <1>1, InTurn, OutsideTurn
    <2> QED
      BY <1>7, <2>2, <2>3
  <1>13. Budget'
    <2>1. \A t \in Slots \ {s} : slots[t].pc # "failing" /\ slots[t].run = 0
      BY <1>1, InTurn DEF TurnPoints
    <2>2. ASSUME NEW q \in RunIds, q # r, q \in Spoiled' PROVE q \in Spoiled
      <3>1. runs'[q] = runs[q] /\ slots'[s].run = r /\ slots[s].run = r
        BY <1>4, <1>6, <1>7, <2>2 DEF r
      <3>2. q # 0
        BY RunIdsFacts
      <3> QED
        BY <1>7, <2>1, <2>2, <3>1, <3>2 DEF Spoiled
    <2>3. p = "unlock" => r \notin Spoiled'
      <3>1. ASSUME p = "unlock" PROVE r \notin Spoiled'
        <4>1. runs'[r] = "completed" /\ \A t \in Slots : slots'[t].pc # "failing"
          BY <1>2, <1>3, <1>4, <1>6, <1>7, <2>1, <3>1
        <4> QED
          BY <4>1 DEF Spoiled
      <3> QED
        BY <3>1
    <2>4. p = "release" => r \in Spoiled
      BY <1>2, <1>3 DEF Spoiled, r
    <2>5. Spoiled' \subseteq RunIds /\ Spoiled' \subseteq Spoiled \cup {r}
      BY <2>2 DEF Spoiled
    <2>6. faults' \in Nat
      BY <1>3 DEF TurnInv, TypeOK, Fault
    <2>7. \/ Spoiled' \subseteq Spoiled /\ faults' = faults
          \/ Spoiled' \subseteq Spoiled \cup {r} /\ Fault
      BY <1>3, <2>3, <2>4, <2>5
    <2> QED
      BY <2>5, <2>6, <2>7, BudgetKept
  <1> QED
    BY <1>9, <1>10, <1>11, <1>12, <1>13 DEF TurnInv

\* Taking what can be taken keeps the order: an older item that waits is taken
\* with the younger one, and no run is later than the one that takes.
LEMMA ConsumedFacts ==
    ASSUME NEW its \in [Items -> Item], NEW rs, NEW r \in RunIds,
           \A h, i \in Items : (h < i /\ its[i].stored) => its[h].stored,
           \A i \in Items : its[i].by # 0 =>
              its[i].stored /\ rs[its[i].by] # "none" /\ its[i].by <= r,
           \A h, i \in Items : (h < i /\ its[i].by # 0 /\ rs[its[i].by] # "failed") =>
              its[h].by # 0 /\ its[h].by <= its[i].by
    PROVE  LET new == Consumed(its, r)
           IN  /\ new \in [Items -> Item]
               /\ \A i \in Items : /\ new[i].stored = its[i].stored
                                   /\ new[i].by \in {its[i].by, r}
                                   /\ its[i].by # 0 => new[i].by = its[i].by
                                   /\ new[i].by # 0 => its[i].stored
                                   /\ i \in Claimable(its) => new[i].by = r
               /\ \A h, i \in Items : (h < i /\ new[i].by # 0 /\ rs[new[i].by] # "failed") =>
                     new[h].by # 0 /\ new[h].by <= new[i].by
  <1> DEFINE new == Consumed(its, r)
  <1>1. \A i \in Items : its[i] \in Item /\ r # 0 /\ r \in Nat /\ its[i].by \in Nat
    <2>1. \A i \in Items : its[i] \in Item /\ its[i].by \in RunIds \cup {0}
      BY DEF Item
    <2>2. RunIds \cup {0} \subseteq Nat /\ r # 0
      BY RunIdsFacts
    <2> QED
      BY <2>1, <2>2
  <1>2. \A i \in Items : /\ i \in Claimable(its) => new[i] = [its[i] EXCEPT !.by = r]
                         /\ i \notin Claimable(its) => new[i] = its[i]
    BY DEF Consumed
  <1>3. new = [i \in Items |-> new[i]]
    BY DEF Consumed
  <1>4. \A i \in Items : /\ new[i] \in Item /\ new[i].stored = its[i].stored
                         /\ i \in Claimable(its) => new[i].by = r
                         /\ i \notin Claimable(its) => new[i].by = its[i].by
    <2> HIDE DEF new
    <2>1. \A i \in Items : LET x == [its[i] EXCEPT !.by = r]
                           IN  x \in Item /\ x.stored = its[i].stored /\ x.by = r
      BY <1>1 DEF Item
    <2> QED
      BY <1>1, <1>2, <2>1
  <1>5. \A i \in Claimable(its) : its[i].stored /\ its[i].by = 0
    BY DEF Claimable, Waiting
  <1> HIDE DEF new
  <1>6. new \in [Items -> Item]
    BY <1>3, <1>4
  <1>7. ASSUME NEW h \in Items, NEW i \in Items, h < i, new[i].by # 0, rs[new[i].by] # "failed"
        PROVE  new[h].by # 0 /\ new[h].by <= new[i].by
    <2>1. CASE i \in Claimable(its)
      <3>1. CASE its[h].by # 0
        BY <1>1, <1>4, <1>5, <2>1, <3>1
      <3>2. CASE its[h].by = 0
        <4>1. \A g \in Waiting(its) : its[g].pending => i < g
          BY <2>1 DEF Claimable
        <4>2. \A g \in Waiting(its) : g \in Nat
          BY FrontAssumption DEF Waiting
        <4>3. \A g \in Waiting(its) : its[g].pending => h < g
          BY <1>7, <4>1, <4>2, FrontAssumption
        <4>4. h \in Claimable(its)
          BY <1>5, <1>7, <2>1, <3>2, <4>3 DEF Claimable, Waiting
        <4> QED
          BY <1>1, <1>4, <2>1, <4>4
      <3> QED
        BY <3>1, <3>2
    <2>2. CASE i \notin Claimable(its)
      BY <1>4, <1>5, <1>7, <2>2
    <2> QED
      BY <2>1, <2>2
  <1> QED
    BY <1>4, <1>5, <1>6, <1>7 DEF new

LEMMA SteerInInvariant ==
    ASSUME TurnInv, NEW s \in Slots, SteerIn(s)
    PROVE  TurnInv'
  <1> DEFINE r == slots[s].run
             new == [slots[s] EXCEPT !.pc = "model"]
  <1>1. slots[s].pc = "steer" /\ items' = Consumed(items, r) /\ Go(s, "model")
        /\ UNCHANGED <<jobs, lock, runs, outlived, faults>>
    BY DEF SteerIn, At
  <1>2. slots[s] \in Slot /\ r \in RunIds /\ runs[r] = "running"
        /\ \A q \in RunIds : runs[q] # "none" => q <= r
    <2>1. KnowsRun(slots[s], runs) /\ slots[s] \in Slot
      BY InTurn
    <2> QED
      BY <1>1, <2>1 DEF KnowsRun, Slot, WithRun
  <1>3. slots' = [slots EXCEPT ![s] = new] /\ new \in Slot /\ new.pc = "model" /\ new.run = r
    BY ZenonT(30), <1>1, <1>2, SlotAt, GoFacts DEF TurnInv, Points, TurnPoints
  <1> HIDE DEF new, r
  <1>4. \A i \in Items : items[i] \in Item /\ items[i].by \in RunIds \cup {0}
    BY DEF TurnInv, TypeOK, Item
  <1>5. /\ items' \in [Items -> Item]
        /\ \A i \in Items : /\ items'[i].stored = items[i].stored
                            /\ items'[i].by \in {items[i].by, r}
                            /\ items[i].by # 0 => items'[i].by = items[i].by
                            /\ items'[i].by # 0 => items[i].stored
        /\ TakenInOrder'
    <2>1. items \in [Items -> Item]
      BY DEF TurnInv, TypeOK
    <2>2. \A h, i \in Items : (h < i /\ items[i].stored) => items[h].stored
      BY DEF TurnInv, ItemsStored
    <2>3. \A i \in Items : items[i].by # 0 =>
             items[i].stored /\ runs[items[i].by] # "none" /\ items[i].by <= r
      BY <1>2, <1>4 DEF TurnInv, ItemsStored
    <2>4. \A h, i \in Items : (h < i /\ items[i].by # 0 /\ runs[items[i].by] # "failed") =>
             items[h].by # 0 /\ items[h].by <= items[i].by
      BY DEF TurnInv, TakenInOrder
    <2> DEFINE c == Consumed(items, r)
    <2>5. /\ c \in [Items -> Item]
          /\ \A i \in Items : /\ c[i].stored = items[i].stored
                              /\ c[i].by \in {items[i].by, r}
                              /\ items[i].by # 0 => c[i].by = items[i].by
                              /\ c[i].by # 0 => items[i].stored
          /\ \A h, i \in Items : (h < i /\ c[i].by # 0 /\ runs[c[i].by] # "failed") =>
                c[h].by # 0 /\ c[h].by <= c[i].by
      BY <1>2, <2>1, <2>2, <2>3, <2>4, ConsumedFacts
    <2>6. items' = c /\ runs' = runs
      BY <1>1
    <2> HIDE DEF c
    <2>7. TakenInOrder'
      BY <2>5, <2>6 DEF TakenInOrder
    <2>8. items' \in [Items -> Item]
      BY <2>5, <2>6
    <2>9. \A i \in Items : /\ items'[i].stored = items[i].stored
                           /\ items'[i].by \in {items[i].by, r}
                           /\ items[i].by # 0 => items'[i].by = items[i].by
                           /\ items'[i].by # 0 => items[i].stored
      BY <2>5, <2>6
    <2> QED
      BY <2>7, <2>8, <2>9
  <1>6. RunsInOrder' /\ ItemsStored' /\ HoldsInput'
    <2>1. RunsInOrder' /\ ItemsStored'
      BY <1>1, <1>2, <1>5 DEF TurnInv, RunsInOrder, ItemsStored
    <2>2. \A q \in RunIds : q # 0
      BY RunIdsFacts
    <2>3. HoldsInput'
      BY <1>1, <1>5, <2>2 DEF TurnInv, HoldsInput
    <2> QED
      BY <2>1, <2>3
  <1>7. TypeOK'
    <2>1. LockMoves(s, new)
      BY <1>1, <1>3 DEF LockMoves, TurnPoints
    <2> QED
      BY <1>1, <1>3, <1>5, <1>6, <2>1, TypesMove DEF TurnInv, TypeOK, Tables
  <1>8. \A t \in Slots : slots'[t] = IF t = s THEN new ELSE slots[t]
    BY <1>3 DEF TurnInv, TypeOK
  <1>9. \A t \in Slots : KnowsRun(slots'[t], runs')
    <2>1. KnowsRun(new, runs)
      BY <1>2, <1>3, RunIdsFacts DEF KnowsRun, TurnPoints, WithRun
    <2> QED
      BY <1>1, <1>8, <2>1 DEF TurnInv
  <1>10. Budget'
    <2>1. Spoiled' \subseteq Spoiled /\ Spoiled' \subseteq RunIds
      BY <1>1, <1>3, <1>8 DEF Spoiled, WithRun, r
    <2> QED
      BY <1>1, <2>1, BudgetKept DEF TurnInv, TypeOK
  <1> QED
    BY <1>5, <1>6, <1>7, <1>9, <1>10 DEF TurnInv

\* The catch gives back what its run, the last, took: no older item than one a
\* run took that did not fail.
LEMMA ReleaseInputInvariant ==
    ASSUME TurnInv, NEW s \in Slots, ReleaseInput(s)
    PROVE  TurnInv'
  <1> DEFINE r == slots[s].run
             new == [slots[s] EXCEPT !.pc = "thrown"]
  <1>1. slots[s].pc = "release" /\ items' = Released({r}) /\ Go(s, "thrown")
        /\ UNCHANGED <<jobs, lock, runs, outlived, faults>>
    BY DEF ReleaseInput, At
  <1>2. slots[s] \in Slot /\ r \in RunIds /\ runs[r] = "failed"
        /\ \A q \in RunIds : runs[q] # "none" => q <= r
    <2>1. KnowsRun(slots[s], runs) /\ slots[s] \in Slot
      BY InTurn
    <2> QED
      BY <1>1, <2>1 DEF KnowsRun, Slot, WithRun
  <1>3. slots' = [slots EXCEPT ![s] = new] /\ new \in Slot /\ new.pc = "thrown" /\ new.run = r
    BY ZenonT(30), <1>1, <1>2, SlotAt, GoFacts DEF TurnInv, Points, TurnPoints
  <1> HIDE DEF new, r
  <1>4. \A i \in Items : items[i] \in Item /\ items[i].by \in RunIds \cup {0}
    BY DEF TurnInv, TypeOK, Item
  <1>5. /\ items' \in [Items -> Item]
        /\ \A i \in Items : /\ items'[i].stored = items[i].stored
                            /\ items[i].by = r => items'[i].by = 0
                            /\ items[i].by # r => items'[i].by = items[i].by
    <2>1. \A i \in Items : items'[i] = IF items[i].by = r THEN [items[i] EXCEPT !.by = 0]
                                                          ELSE items[i]
      BY <1>1 DEF Released
    <2>2. items' = [i \in Items |-> items'[i]]
      BY <1>1 DEF Released
    <2>3. \A i \in Items : items'[i] \in Item
      BY <1>4, <2>1 DEF Item
    <2> QED
      BY <1>4, <2>1, <2>2, <2>3 DEF Item
  <1>6. RunsInOrder' /\ ItemsStored' /\ HoldsInput' /\ TakenInOrder'
    <2>1. RunsInOrder' /\ ItemsStored'
      BY <1>1, <1>2, <1>5 DEF TurnInv, RunsInOrder, ItemsStored
    <2>2. HoldsInput'
      BY ZenonT(30), <1>1, <1>2, <1>5 DEF TurnInv, HoldsInput
    <2>3. ASSUME NEW h \in Items, NEW i \in Items, h < i, items'[i].by # 0,
                 runs'[items'[i].by] # "failed"
          PROVE  items'[h].by # 0 /\ items'[h].by <= items'[i].by
      <3>1. items'[i].by = items[i].by /\ items[i].by # r /\ items[i].by \in RunIds
        BY <1>4, <1>5, <2>3
      <3>2. items[i].by <= r
        BY <1>2, <1>4, <3>1, <2>3 DEF TurnInv, ItemsStored
      <3>3. items[h].by # 0 /\ items[h].by <= items[i].by /\ items[h].by \in RunIds
        BY <1>1, <1>4, <2>3, <3>1 DEF TurnInv, TakenInOrder
      <3>4. items[h].by # r
        <4>1. r \in Nat /\ items[h].by \in Nat /\ items[i].by \in Nat
          BY <1>2, <3>1, <3>3, RunIdsFacts
        <4>2. ~(r <= items[i].by)
          BY <3>1, <3>2, <4>1
        <4> QED
          BY <3>3, <4>1, <4>2
      <3> QED
        BY <1>5, <3>1, <3>3, <3>4
    <2> QED
      BY <2>1, <2>2, <2>3 DEF TakenInOrder
  <1>7. TypeOK'
    <2>1. LockMoves(s, new)
      BY <1>1, <1>3 DEF LockMoves, TurnPoints
    <2> QED
      BY <1>1, <1>3, <1>5, <1>6, <2>1, TypesMove DEF TurnInv, TypeOK, Tables
  <1>8. \A t \in Slots : slots'[t] = IF t = s THEN new ELSE slots[t]
    BY <1>3 DEF TurnInv, TypeOK
  <1>9. \A t \in Slots : KnowsRun(slots'[t], runs')
    <2>1. KnowsRun(new, runs)
      BY <1>3 DEF KnowsRun, TurnPoints, WithRun
    <2> QED
      BY <1>1, <1>8, <2>1 DEF TurnInv
  <1>10. Budget'
    <2>1. Spoiled' \subseteq Spoiled /\ Spoiled' \subseteq RunIds
      BY <1>1, <1>3, <1>8 DEF Spoiled, WithRun, r
    <2> QED
      BY <1>1, <2>1, BudgetKept DEF TurnInv, TypeOK
  <1> QED
    BY <1>6, <1>7, <1>9, <1>10 DEF TurnInv

\* What the transaction's first half leaves: the running runs, each the last one,
\* are failed, and no item is theirs any more.
LEMMA AbandonedFacts ==
    ASSUME TurnInv, NEW s \in Slots, At(s, "claim"), NEW back, NEW dead,
           back = Released(Abandoned),
           dead = [r \in RunIds |-> IF r \in Abandoned THEN "failed" ELSE runs[r]]
    PROVE  /\ back \in [Items -> Item]
           /\ dead \in [RunIds -> {"none", "completed", "failed"}]
           /\ \A r \in RunIds : dead[r] = IF runs[r] = "running" THEN "failed" ELSE runs[r]
           /\ \A i \in Items :
                 /\ back[i].stored = items[i].stored
                 /\ back[i].by = 0 \/ back[i].by = items[i].by
                 /\ back[i].by # 0 => runs[items[i].by] # "running"
                 /\ (items[i].by # 0 /\ runs[items[i].by] # "running") => back[i].by = items[i].by
           /\ \A h, i \in Items : (h < i /\ back[i].stored) => back[h].stored
           /\ \A i \in Items : back[i].by # 0 =>
                 back[i].by \in RunIds /\ back[i].stored /\ dead[back[i].by] # "none"
           /\ \A h, i \in Items : (h < i /\ back[i].by # 0 /\ dead[back[i].by] # "failed") =>
                 back[h].by # 0 /\ back[h].by <= back[i].by
           /\ \A r \in RunIds : dead[r] = "completed" => \E i \in Items : back[i].by = r
           /\ \A r \in RunIds : dead[r] = "failed" => r \in Spoiled
  <1>1. \A r \in RunIds : r \in Abandoned <=> runs[r] = "running"
    BY DEF Abandoned, Running
  <1>2. \A i \in Items : items[i] \in Item /\ items[i].by \in RunIds \cup {0}
    BY DEF TurnInv, TypeOK, Item
  <1>3. Abandoned \subseteq RunIds /\ 0 \notin RunIds /\ RunIds \subseteq Nat
    BY RunIdsFacts DEF Abandoned, Running
  <1>4. /\ back \in [Items -> Item]
        /\ \A i \in Items : /\ back[i].stored = items[i].stored
                            /\ items[i].by \in Abandoned => back[i].by = 0
                            /\ items[i].by \notin Abandoned => back[i].by = items[i].by
    <2>1. \A i \in Items : back[i] = IF items[i].by \in Abandoned THEN [items[i] EXCEPT !.by = 0]
                                                                  ELSE items[i]
      BY DEF Released
    <2>2. back = [i \in Items |-> back[i]]
      BY DEF Released
    <2>3. \A i \in Items : LET x == [items[i] EXCEPT !.by = 0]
                           IN  x \in Item /\ x.by = 0 /\ x.stored = items[i].stored
      BY <1>2 DEF Item
    <2>4. \A i \in Items : back[i] \in Item
      BY <1>2, <2>1, <2>3
    <2> QED
      BY <2>1, <2>2, <2>3, <2>4
  <1>5. /\ dead \in [RunIds -> {"none", "completed", "failed"}]
        /\ \A r \in RunIds : dead[r] = IF runs[r] = "running" THEN "failed" ELSE runs[r]
    BY <1>1 DEF TurnInv, TypeOK
  <1>6. \A i \in Items :
           /\ back[i].stored = items[i].stored
           /\ back[i].by = 0 \/ back[i].by = items[i].by
           /\ back[i].by # 0 => runs[items[i].by] # "running"
           /\ (items[i].by # 0 /\ runs[items[i].by] # "running") => back[i].by = items[i].by
    BY <1>1, <1>2, <1>3, <1>4
  <1>7. \A h, i \in Items : (h < i /\ back[i].stored) => back[h].stored
    BY <1>6 DEF TurnInv, ItemsStored
  <1>8. \A i \in Items : back[i].by # 0 =>
           back[i].by \in RunIds /\ back[i].stored /\ dead[back[i].by] # "none"
    BY <1>2, <1>5, <1>6 DEF TurnInv, ItemsStored
  <1>9. ASSUME NEW h \in Items, NEW i \in Items, h < i, back[i].by # 0,
               dead[back[i].by] # "failed"
        PROVE  back[h].by # 0 /\ back[h].by <= back[i].by
    <2>1. /\ back[i].by = items[i].by /\ items[i].by \in RunIds
          /\ runs[items[i].by] # "running" /\ runs[items[i].by] # "failed"
          /\ runs[items[i].by] # "none"
      BY <1>5, <1>6, <1>8, <1>9
    <2>2. items[h].by # 0 /\ items[h].by <= items[i].by /\ items[h].by \in RunIds
      BY <1>2, <1>9, <2>1 DEF TurnInv, TakenInOrder
    <2>3. runs[items[h].by] # "running"
      <3>1. runs[items[h].by] = "running" => items[i].by <= items[h].by
        BY <2>1, <2>2 DEF TurnInv, RunsInOrder
      <3> QED
        BY <1>3, <2>1, <2>2, <3>1
    <2> QED
      BY <1>6, <2>1, <2>2, <2>3
  <1>10. \A r \in RunIds : dead[r] = "completed" => \E i \in Items : back[i].by = r
    <2>1. \A r \in RunIds : dead[r] = "completed" => runs[r] = "completed" /\ r # 0
      BY <1>3, <1>5
    <2>2. \A r \in RunIds : runs[r] = "completed" => \E i \in Items : items[i].by = r
      BY DEF TurnInv, HoldsInput
    <2> QED
      BY <1>6, <2>1, <2>2
  <1>11. \A r \in RunIds : dead[r] = "failed" => r \in Spoiled
    <2>1. \A t \in Slots : slots[t].pc \notin WithRun
      BY InTurn DEF At, WithRun, TurnPoints
    <2> QED
      BY <1>5, <2>1 DEF Spoiled
  <1> QED
    BY <1>4, <1>5, <1>6, <1>7, <1>8, <1>9, <1>10, <1>11

\* One transaction: dead runs fail and give back what they took, and the new run,
\* for which a number is left, takes what there is.
LEMMA ClaimInvariant ==
    ASSUME TurnInv, NEW s \in Slots, Claim(s)
    PROVE  TurnInv'
  <1> DEFINE back == Released(Abandoned)
             dead == [r \in RunIds |-> IF r \in Abandoned THEN "failed" ELSE runs[r]]
  <1>1. /\ back \in [Items -> Item]
        /\ dead \in [RunIds -> {"none", "completed", "failed"}]
        /\ \A r \in RunIds : dead[r] = IF runs[r] = "running" THEN "failed" ELSE runs[r]
        /\ \A i \in Items :
              /\ back[i].stored = items[i].stored
              /\ back[i].by = 0 \/ back[i].by = items[i].by
              /\ back[i].by # 0 => runs[items[i].by] # "running"
              /\ (items[i].by # 0 /\ runs[items[i].by] # "running") => back[i].by = items[i].by
        /\ \A h, i \in Items : (h < i /\ back[i].stored) => back[h].stored
        /\ \A i \in Items : back[i].by # 0 =>
              back[i].by \in RunIds /\ back[i].stored /\ dead[back[i].by] # "none"
        /\ \A h, i \in Items : (h < i /\ back[i].by # 0 /\ dead[back[i].by] # "failed") =>
              back[h].by # 0 /\ back[h].by <= back[i].by
        /\ \A r \in RunIds : dead[r] = "completed" => \E i \in Items : back[i].by = r
        /\ \A r \in RunIds : dead[r] = "failed" => r \in Spoiled
    BY AbandonedFacts DEF Claim
  <1>2. /\ slots[s].pc = "claim" /\ lock = s /\ slots[s] \in Slot /\ slots[s].run = 0
        /\ \A t \in Slots \ {s} : slots[t].pc \notin TurnPoints /\ slots[t].run = 0
        /\ UNCHANGED <<jobs, lock, outlived, faults>>
    BY InTurn DEF Claim, At, TurnPoints, KnowsRun
  <1>3. \/ Claimable(back) = {} /\ items' = back /\ runs' = dead /\ Go(s, "unlock")
        \/ /\ Claimable(back) # {} /\ items' = Consumed(back, NewRun)
           /\ runs' = [dead EXCEPT ![NewRun] = "running"]
           /\ slots' = [slots EXCEPT ![s].pc = "setup", ![s].run = NewRun]
    BY DEF Claim
  <1> HIDE DEF back, dead
  <1>4. CASE Claimable(back) = {} /\ items' = back /\ runs' = dead /\ Go(s, "unlock")
    <2> DEFINE new == [slots[s] EXCEPT !.pc = "unlock"]
    <2>1. slots' = [slots EXCEPT ![s] = new] /\ new \in Slot /\ new.pc = "unlock" /\ new.run = 0
      <3>1. slots' = [slots EXCEPT ![s] = new]
        BY <1>4, GoFacts DEF TurnInv
      <3>2. "unlock" \in Points
        BY DEF Points, TurnPoints
      <3>3. new \in Slot /\ new.pc = "unlock" /\ new.run = 0
        BY <1>2, <3>2, SlotAt
      <3> QED
        BY <3>1, <3>3
    <2> HIDE DEF new
    <2>2. \A t \in Slots : slots'[t] = IF t = s THEN new ELSE slots[t]
      BY <2>1 DEF TurnInv, TypeOK
    <2>3. RunsInOrder'
      BY <1>1, <1>4 DEF TurnInv, RunsInOrder
    <2>4. ItemsStored' /\ TakenInOrder' /\ HoldsInput'
      <3>1. ItemsStored'
        BY <1>1, <1>4 DEF ItemsStored
      <3>2. TakenInOrder'
        BY <1>1, <1>4 DEF TakenInOrder
      <3>3. HoldsInput'
        BY <1>1, <1>4 DEF HoldsInput
      <3> QED
        BY <3>1, <3>2, <3>3
    <2>5. TypeOK'
      <3>1. LockMoves(s, new)
        BY <1>2, <2>1 DEF LockMoves, TurnPoints
      <3>2. runs' \in [RunIds -> {"none", "running", "completed", "failed"}]
        BY <1>1, <1>4
      <3>3. items' \in [Items -> Item]
        BY <1>1, <1>4
      <3>4. jobs' \in Tables /\ outlived' \in BOOLEAN /\ faults' \in Nat /\ TypeOK
        BY <1>2 DEF TurnInv, TypeOK, Tables
      <3> QED
        BY <2>1, <2>3, <3>1, <3>2, <3>3, <3>4, TypesMove
    <2>6. \A t \in Slots : KnowsRun(slots'[t], runs')
      <3>1. KnowsRun(new, runs')
        BY <2>1 DEF KnowsRun, TurnPoints, WithRun
      <3> QED
        BY <1>2, <2>2, <3>1, OutsideTurn
    <2>7. Budget'
      <3>1. \A t \in Slots : slots'[t].pc # "failing"
        BY <1>2, <2>1, <2>2 DEF TurnPoints
      <3>2. \A r \in RunIds : runs'[r] # "running"
        BY <1>1, <1>4
      <3>3. Spoiled' \subseteq Spoiled /\ Spoiled' \subseteq RunIds
        BY <1>1, <1>4, <3>1, <3>2 DEF Spoiled
      <3> QED
        BY <1>2, <3>3, BudgetKept DEF TurnInv, TypeOK
    <2> QED
      BY <2>3, <2>4, <2>5, <2>6, <2>7 DEF TurnInv
  <1>5. CASE /\ Claimable(back) # {} /\ items' = Consumed(back, NewRun)
             /\ runs' = [dead EXCEPT ![NewRun] = "running"]
             /\ slots' = [slots EXCEPT ![s].pc = "setup", ![s].run = NewRun]
    <2> DEFINE n == NewRun
               new == [slots[s] EXCEPT !.pc = "setup", !.run = n]
    <2>1. PICK c \in Items : c \in Claimable(back) /\ back[c].by = 0
      BY <1>5 DEF Claimable, Waiting
    <2>2. items[c].by = 0 \/ runs[items[c].by] = "running"
      BY <1>1, <2>1
    <2>3. n \in RunIds /\ runs[n] = "none" /\ \A q \in RunIds : runs[q] # "none" <=> q < n
      BY <1>2, <2>2, NewRunFacts DEF At
    <2>4. slots' = [slots EXCEPT ![s] = new] /\ new \in Slot /\ new.pc = "setup" /\ new.run = n
      BY <1>2, <1>5, <2>3 DEF TurnInv, TypeOK, Slot, Points, TurnPoints
    <2> HIDE DEF new, n
    <2>5. n \in Nat /\ n # 0 /\ RunIds \subseteq Nat
      BY <2>3, RunIdsFacts
    <2>6. \A t \in Slots : slots'[t] = IF t = s THEN new ELSE slots[t]
      BY <2>4 DEF TurnInv, TypeOK
    <2>7. /\ runs' \in [RunIds -> {"none", "running", "completed", "failed"}]
          /\ \A r \in RunIds : runs'[r] = IF r = n THEN "running" ELSE dead[r]
          /\ \A r \in RunIds : runs'[r] # "none" <=> r <= n
          /\ \A r \in RunIds : runs'[r] = "running" <=> r = n
      <3>1. runs' = [dead EXCEPT ![n] = "running"]
        BY <1>5 DEF n
      <3>2. /\ runs' \in [RunIds -> {"none", "running", "completed", "failed"}]
            /\ \A r \in RunIds : runs'[r] = IF r = n THEN "running" ELSE dead[r]
        BY <1>1, <2>3, <3>1
      <3>3. \A r \in RunIds : dead[r] # "running" /\ (dead[r] = "none" <=> runs[r] = "none")
        BY <1>1
      <3> QED
        BY <2>3, <2>5, <3>2, <3>3
    <2>8. RunsInOrder'
      BY <2>5, <2>7 DEF RunsInOrder
    <2>9. /\ items' \in [Items -> Item]
          /\ \A i \in Items : /\ items'[i].stored = back[i].stored
                              /\ items'[i].by \in {back[i].by, n}
                              /\ back[i].by # 0 => items'[i].by = back[i].by
                              /\ items'[i].by # 0 => back[i].stored
                              /\ i \in Claimable(back) => items'[i].by = n
          /\ TakenInOrder'
      <3>1. \A i \in Items : back[i].by # 0 =>
               back[i].stored /\ runs'[back[i].by] # "none" /\ back[i].by <= n
        <4>1. \A i \in Items : back[i].by # 0 => back[i].by \in RunIds /\ runs[back[i].by] # "none"
          BY <1>1
        <4> QED
          BY <1>1, <2>3, <2>5, <2>7, <4>1
      <3>2. \A h, i \in Items : (h < i /\ back[i].by # 0 /\ runs'[back[i].by] # "failed") =>
               back[h].by # 0 /\ back[h].by <= back[i].by
        <4>1. \A i \in Items : back[i].by # 0 => back[i].by \in RunIds /\ back[i].by # n
          BY <1>1, <2>3
        <4> QED
          BY <1>1, <2>7, <4>1
      <3>3. \A h, i \in Items : (h < i /\ back[i].stored) => back[h].stored
        BY <1>1
      <3> DEFINE c2 == Consumed(back, n)
      <3>4. /\ c2 \in [Items -> Item]
            /\ \A i \in Items : /\ c2[i].stored = back[i].stored
                                /\ c2[i].by \in {back[i].by, n}
                                /\ back[i].by # 0 => c2[i].by = back[i].by
                                /\ c2[i].by # 0 => back[i].stored
                                /\ i \in Claimable(back) => c2[i].by = n
            /\ \A h, i \in Items : (h < i /\ c2[i].by # 0 /\ runs'[c2[i].by] # "failed") =>
                  c2[h].by # 0 /\ c2[h].by <= c2[i].by
        <4>1. PICK rs : rs = runs'
          OBVIOUS
        <4>2. /\ \A i \in Items : back[i].by # 0 =>
                    back[i].stored /\ rs[back[i].by] # "none" /\ back[i].by <= n
              /\ \A h, i \in Items : (h < i /\ back[i].by # 0 /\ rs[back[i].by] # "failed") =>
                    back[h].by # 0 /\ back[h].by <= back[i].by
          BY <3>1, <3>2, <4>1
        <4>3. back \in [Items -> Item]
          BY <1>1
        <4>4. /\ c2 \in [Items -> Item]
              /\ \A i \in Items : /\ c2[i].stored = back[i].stored
                                  /\ c2[i].by \in {back[i].by, n}
                                  /\ back[i].by # 0 => c2[i].by = back[i].by
                                  /\ c2[i].by # 0 => back[i].stored
                                  /\ i \in Claimable(back) => c2[i].by = n
              /\ \A h, i \in Items : (h < i /\ c2[i].by # 0 /\ rs[c2[i].by] # "failed") =>
                    c2[h].by # 0 /\ c2[h].by <= c2[i].by
          BY <2>3, <3>3, <4>2, <4>3, ConsumedFacts
        <4> QED
          BY <4>1, <4>4
      <3>5. items' = c2
        BY <1>5 DEF n
      <3> HIDE DEF c2
      <3>6. TakenInOrder'
        BY <3>4, <3>5 DEF TakenInOrder
      <3> QED
        BY <3>4, <3>5, <3>6
    <2>10. ItemsStored' /\ HoldsInput'
      <3>1. ItemsStored'
        <4>1. \A h, i \in Items : (h < i /\ items'[i].stored) => items'[h].stored
          BY <1>1, <2>9
        <4>2. \A i \in Items : items'[i].by # 0 =>
                 items'[i].stored /\ runs'[items'[i].by] # "none"
          <5>1. \A i \in Items : back[i].by # 0 => back[i].by \in RunIds /\ runs[back[i].by] # "none"
            BY <1>1
          <5>2. \A r \in RunIds : runs[r] # "none" => runs'[r] # "none"
            BY <2>3, <2>5, <2>7
          <5> QED
            BY <2>3, <2>7, <2>9, <5>1, <5>2
        <4> QED
          BY <4>1, <4>2 DEF ItemsStored
      <3>2. HoldsInput'
        <4>1. ASSUME NEW r \in RunIds, runs'[r] \in {"running", "completed"}
              PROVE  \E i \in Items : items'[i].by = r
          <5>1. CASE r = n
            BY <2>1, <2>9, <5>1
          <5>2. CASE r # n
            <6>1. dead[r] = "completed" /\ r # 0
              BY <2>7, <4>1, <5>2, RunIdsFacts
            <6> QED
              BY <1>1, <2>9, <6>1
          <5> QED
            BY <5>1, <5>2
        <4> QED
          BY <4>1 DEF HoldsInput
      <3> QED
        BY <3>1, <3>2
    <2>11. TypeOK'
      <3>1. LockMoves(s, new)
        BY <1>2, <2>4 DEF LockMoves, TurnPoints
      <3> QED
        BY <1>2, <2>4, <2>7, <2>8, <2>9, <3>1, TypesMove DEF TurnInv, TypeOK, Tables
    <2>12. \A t \in Slots : KnowsRun(slots'[t], runs')
      <3>1. KnowsRun(new, runs')
        BY <2>3, <2>4, <2>5, <2>7 DEF KnowsRun, TurnPoints, WithRun
      <3> QED
        BY <1>2, <2>6, <3>1, OutsideTurn
    <2>13. Budget'
      <3>1. \A t \in Slots : slots'[t].pc # "failing"
        BY <1>2, <2>4, <2>6 DEF TurnPoints
      <3>2. slots'[s].run = n /\ slots'[s].pc \in WithRun
        BY <2>4, <2>6 DEF WithRun
      <3>3. ASSUME NEW r \in Spoiled' PROVE r \in RunIds /\ dead[r] = "failed"
        BY <2>7, <3>1, <3>2 DEF Spoiled
      <3>4. Spoiled' \subseteq Spoiled /\ Spoiled' \subseteq RunIds
        BY <1>1, <3>3
      <3> QED
        BY <1>2, <3>4, BudgetKept DEF TurnInv, TypeOK
    <2> QED
      BY <2>8, <2>9, <2>10, <2>11, <2>12, <2>13 DEF TurnInv
  <1> QED
    BY <1>3, <1>4, <1>5

-----------------------------------------------------------------------------
LEMMA TurnInvInit == Init => TurnInv
  <1> SUFFICES ASSUME Init PROVE TurnInv
    OBVIOUS
  <1>1. /\ \A s \in Slots : slots[s] = Rest
        /\ \A r \in RunIds : runs[r] = "none"
        /\ \A i \in Items : items[i] = [stored |-> FALSE, pending |-> FALSE, by |-> 0]
    BY DEF Init
  <1>2. RunsInOrder
    BY <1>1 DEF RunsInOrder
  <1>3. TypeOK
    <2>1. jobs \in [JobIds -> Job]
      BY EmptyTableFacts DEF Init, Tables
    <2>2. slots \in [Slots -> Slot] /\ \A s \in Slots : slots[s].pc \notin TurnPoints
      BY RestIsASlot DEF Init, TurnPoints
    <2>3. items \in [Items -> Item]
      BY DEF Init, Item
    <2>4. \A s \in Slots : lock # s
      BY FrontAssumption DEF Init
    <2>5. Cardinality(Running) <= 1
      BY <1>2, OneRunning DEF RunsInOrder, Running
    <2> QED
      BY <2>1, <2>2, <2>3, <2>4, <2>5 DEF Init, TypeOK
  <1>4. ItemsStored /\ TakenInOrder /\ HoldsInput
    BY <1>1 DEF ItemsStored, TakenInOrder, HoldsInput
  <1>5. Budget
    <2>1. Spoiled = {}
      BY <1>1, RestIsASlot DEF Spoiled
    <2>2. Cardinality({}) = 0
      BY FS_EmptySet
    <2> QED
      BY <2>1, <2>2, FrontAssumption DEF Init, Budget
  <1>6. \A s \in Slots : KnowsRun(slots[s], runs)
    BY <1>1, RestIsASlot, OutsideTurn DEF TurnPoints
  <1> QED
    BY <1>2, <1>3, <1>4, <1>5, <1>6 DEF TurnInv

LEMMA TurnInvNext == TurnInv /\ [Next]_vars => TurnInv'
  <1> SUFFICES ASSUME TurnInv, [Next]_vars PROVE TurnInv'
    OBVIOUS
  <1>1. ASSUME NEW i \in Items, Arrive(i) PROVE TurnInv'
    BY <1>1, ArriveInvariant
  <1>2. ASSUME NEW s \in Slots, NEW j \in JobIds, TakeLease(s, j) PROVE TurnInv'
    BY <1>2, TakeLeaseInvariant
  <1>3. ASSUME NEW s \in Slots, TurnOf(s) PROVE TurnInv'
    BY <1>3, StepInvariant, RunEndsInvariant, SteerInInvariant, ReleaseInputInvariant,
       ClaimInvariant DEF TurnOf
  <1>4. ASSUME NEW s \in Slots, HandlerOf(s) PROVE TurnInv'
    BY <1>4, HandlerInvariant, UnlockInvariant, SettleInvariant DEF HandlerOf
  <1>5. ASSUME NEW s \in Slots, SlotFault(s) PROVE TurnInv'
    BY <1>5, SettleInvariant, CallFailsInvariant, RunEndsInvariant, HandlerInvariant
       DEF SlotFault
  <1>6. ASSUME NEW j \in JobIds, BecomesDue(j) \/ LeaseRunsOut(j) \/ LeaseOutlived(j)
        PROVE  TurnInv'
    BY <1>6, ClockInvariant
  <1>7. CASE UNCHANGED vars
    BY <1>7 DEF vars, TurnInv, TypeOK, Running, RunsInOrder, ItemsStored, TakenInOrder,
       HoldsInput, Budget, Spoiled
  <1> QED
    BY <1>1, <1>2, <1>3, <1>4, <1>5, <1>6, <1>7 DEF Next

LEMMA TurnInvariance == Spec => []TurnInv
  BY TurnInvInit, TurnInvNext, PTL DEF Spec

\* The state keeps its shape: whoever is in a turn holds the user's lock
\* (lock.ts), and at most one run of the user's is running (recoverAbandonedRuns).
THEOREM TypeCorrect == Spec => []TypeOK
  <1>1. TurnInv => TypeOK
    BY DEF TurnInv
  <1> QED
    BY <1>1, TurnInvariance, PTL

\* What a turn took, unless the turn failed, leaves no older item waiting, with
\* any number of turns, crashes and held files (claimableInput, run-log.ts).
THEOREM InputInOrder == Spec => []AnsweredInOrder
  <1>1. TurnInv => AnsweredInOrder
    BY DEF TurnInv, TakenInOrder, AnsweredInOrder
  <1> QED
    BY <1>1, TurnInvariance, PTL

\* What a claim takes away was a running run's, which it fails: no slot's.
LEMMA ClaimTakes ==
    ASSUME TurnInv, NEW s \in Slots, Claim(s), NEW i \in Items,
           items[i].by # 0, items'[i].by # items[i].by
    PROVE  runs[items[i].by] = "running" /\ runs'[items[i].by] = "failed"
  <1> DEFINE back == Released(Abandoned)
             dead == [r \in RunIds |-> IF r \in Abandoned THEN "failed" ELSE runs[r]]
  <1>1. /\ (items[i].by # 0 /\ runs[items[i].by] # "running") => back[i].by = items[i].by
        /\ dead \in [RunIds -> {"none", "completed", "failed"}]
        /\ \A r \in RunIds : dead[r] = IF runs[r] = "running" THEN "failed" ELSE runs[r]
    <2>1. At(s, "claim")
      BY DEF Claim
    <2>2. back = Released(Abandoned)
          /\ dead = [r \in RunIds |-> IF r \in Abandoned THEN "failed" ELSE runs[r]]
      OBVIOUS
    <2> HIDE DEF back, dead
    <2> QED
      BY <2>1, <2>2, AbandonedFacts
  <1>2. items[i].by \in RunIds
    BY DEF TurnInv, TypeOK, Item
  <1>3. \A k \in Items : Consumed(back, NewRun)[k] = IF k \in Claimable(back)
                              THEN [back[k] EXCEPT !.by = NewRun] ELSE back[k]
    BY DEF Consumed
  <1>4. \A k \in Claimable(back) : back[k].by = 0
    BY DEF Claimable, Waiting
  <1>5. \/ items' = back /\ runs' = dead
        \/ /\ Claimable(back) # {} /\ items' = Consumed(back, NewRun)
           /\ runs' = [dead EXCEPT ![NewRun] = "running"]
    BY DEF Claim
  <1> HIDE DEF back, dead
  <1>6. runs[items[i].by] = "running"
    BY <1>1, <1>3, <1>4, <1>5
  <1>7. runs'[items[i].by] = dead[items[i].by]
    <2>1. Claimable(back) # {} => runs[NewRun] = "none" /\ NewRun \in RunIds
      BY <1>2, <1>6, NewRunFacts DEF Claim
    <2> QED
      BY <1>1, <1>2, <1>5, <1>6, <2>1
  <1> QED
    BY <1>1, <1>2, <1>6, <1>7

\* Input leaves a run only when that run failed, and a turn still under way gives
\* its own back itself: no other turn takes it for dead (recoverAbandonedRuns,
\* releaseInput).
THEOREM InputStaysWithItsTurn == Spec => TurnsKeepTheirInput
  <1> DEFINE Keeps(i) == LET r == items[i].by IN
                (r # 0 /\ items'[i].by # r) =>
                    /\ runs[r] # "completed" /\ runs'[r] = "failed"
                    /\ \A s \in Slots : slots[s].run = r => At(s, "release")
  <1>1. ASSUME TurnInv, [Next]_vars, NEW i \in Items PROVE Keeps(i)
    <2>1. CASE items'[i].by = items[i].by
      BY <2>1
    <2>2. CASE \E s \in Slots : SteerIn(s)
      <3>1. PICK s \in Slots : SteerIn(s)
        BY <2>2
      <3>2. items'[i] = IF i \in Claimable(items) THEN [items[i] EXCEPT !.by = slots[s].run]
                                                  ELSE items[i]
        BY <3>1 DEF SteerIn, Consumed
      <3>3. i \in Claimable(items) => items[i].by = 0
        BY DEF Claimable, Waiting
      <3> QED
        BY <3>2, <3>3
    <2>3. CASE \E s \in Slots : ReleaseInput(s)
      <3>1. PICK s \in Slots : ReleaseInput(s)
        BY <2>3
      <3>2. /\ items'[i] = IF items[i].by = slots[s].run THEN [items[i] EXCEPT !.by = 0]
                                                         ELSE items[i]
            /\ runs' = runs /\ slots[s].pc = "release"
        BY <3>1 DEF ReleaseInput, Released, At
      <3>3. runs[slots[s].run] = "failed"
            /\ \A t \in Slots \ {s} : slots[t].run = 0
        BY <1>1, <3>2, InTurn DEF TurnPoints, KnowsRun
      <3> QED
        BY <3>2, <3>3 DEF At
    <2>4. CASE \E s \in Slots : Claim(s)
      <3>1. PICK s \in Slots : Claim(s)
        BY <2>4
      <3>2. \A t \in Slots : slots[t].run = 0
        BY <1>1, <3>1, InTurn DEF Claim, At, TurnPoints, KnowsRun
      <3> QED
        BY <1>1, <3>1, <3>2, ClaimTakes
    <2>5. CASE \/ \E k \in Items : Arrive(k)
               \/ \E s \in Slots : ReleaseItem(s)
               \/ UNCHANGED items
      <3>1. items'[i].by = items[i].by
        BY <1>1, <2>5, ArriveItems, ReleaseItemItems DEF TurnInv
      <3> QED
        BY <3>1
    <2>6. \/ \E s \in Slots : SteerIn(s) \/ ReleaseInput(s) \/ Claim(s)
          \/ \E k \in Items : Arrive(k)
          \/ \E s \in Slots : ReleaseItem(s)
          \/ UNCHANGED items
      BY <1>1 DEF Next, vars, TakeLease, TurnOf, HandlerOf, SlotFault, SetUp, CallModel,
         DeliverReply, EndStep, FinishRun, Failing, TryLock, Unlock, CheckInput, FollowUp,
         Save, Return, FailJob, Crash, CallFails, FinishFails, SaveFails, BecomesDue,
         LeaseRunsOut, LeaseOutlived
    <2> QED
      BY <2>2, <2>3, <2>4, <2>5, <2>6
  <1>2. TurnInv /\ [Next]_vars => [\A i \in Items : Keeps(i)]_vars
    BY <1>1
  <1> QED
    BY <1>2, TurnInvariance, PTL DEF Spec, TurnsKeepTheirInput

-----------------------------------------------------------------------------
(* What the steps do to the jobs and to the slots' work                    *)

\* A row stays, moves on under its work, or is inserted with its key.
RowMoves(old, new) ==
    \/ new = old
    \/ /\ old.status \in {"queued", "running"} /\ new.status # "absent"
       /\ new.work = old.work /\ new.key \in {old.key, NoKey}
    \/ /\ old.status = "absent"
       /\ \E w \in Works, due \in BOOLEAN : new = QueuedJob(w, w, due)

LEMMA EnqueueMoves ==
    ASSUME NEW tbl \in Tables, NEW new, NEW w \in Works, NEW due \in BOOLEAN,
           EnqueueIgnore(tbl, new, w, w, due) \/ EnqueueReschedule(tbl, new, w, w, due)
    PROVE  /\ \A j \in JobIds : RowMoves(tbl[j], new[j])
           /\ \A j \in JobIds : tbl[j].status = "running" => new[j] = tbl[j]
           /\ \A j \in JobIds : tbl[j].status = "queued" => new[j].status = "queued"
           /\ \E j \in JobIds : new[j].status = "queued" /\ new[j].key = w
  <1>1. w \in Keys /\ w # NoKey
    BY JobTableAssumption DEF Keys
  <1>2. \A i \in JobIds :
           \/ new[i] = tbl[i]
           \/ tbl[i].status = "queued" /\ new[i] = [tbl[i] EXCEPT !.due = due]
           \/ tbl[i].status = "absent" /\ new[i] = QueuedJob(w, w, due)
    BY <1>1, EnqueueRows
  <1>3. \E i \in JobIds : new[i].status = "queued" /\ new[i].key = w
    BY <1>1, EnqueueRows
  <1>4. \A i \in JobIds : LET x == [tbl[i] EXCEPT !.due = due]
                         IN  x.status = tbl[i].status /\ x.work = tbl[i].work
                             /\ x.key = tbl[i].key
    BY DEF Tables, Job
  <1>5. \A j \in JobIds : RowMoves(tbl[j], new[j])
    BY <1>2, <1>4 DEF RowMoves
  <1> QED
    BY <1>2, <1>3, <1>4, <1>5

\* A lease: the job's next token, and no other row.
LEMMA TakeLeaseRows ==
    ASSUME TypeOK, NEW s \in Slots, NEW j \in JobIds, TakeLease(s, j)
    PROVE  /\ \A i \in JobIds \ {j} : jobs'[i] = jobs[i]
           /\ jobs'[j].status = "running" /\ jobs'[j].work = jobs[j].work
           /\ jobs'[j].key = jobs[j].key /\ jobs'[j].expired = FALSE
           /\ \A i \in JobIds : RowMoves(jobs[i], jobs'[i])
  <1>1. jobs \in Tables /\ jobs[j] \in Job /\ jobs[j].attempts + 1 \in Nat
    BY DEF TypeOK, Tables, Job
  <1>2. /\ SameBut(jobs, jobs', j)
        /\ jobs'[j] = [jobs[j] EXCEPT !.status = "running", !.expired = FALSE,
                               !.token = jobs[j].attempts + 1,
                               !.attempts = jobs[j].attempts + 1]
    BY <1>1, LeasedFacts DEF TakeLease
  <1>3. jobs'[j].status = "running" /\ jobs'[j].work = jobs[j].work
        /\ jobs'[j].key = jobs[j].key /\ jobs'[j].expired = FALSE
    BY <1>1, <1>2 DEF Job
  <1>4. jobs[j].status \in {"queued", "running"}
    BY DEF TakeLease, Leasable
  <1>5. RowMoves(jobs[j], jobs'[j])
    BY <1>3, <1>4 DEF RowMoves
  <1>6. \A i \in JobIds \ {j} : jobs'[i] = jobs[i]
    BY <1>2 DEF SameBut
  <1>7. \A i \in JobIds \ {j} : RowMoves(jobs[i], jobs'[i])
    BY <1>6 DEF RowMoves
  <1> QED
    BY <1>3, <1>5, <1>6, <1>7

\* The answer to the queue settles the slot's own job, if the lease is current.
LEMMA SettleRows ==
    ASSUME TypeOK, NEW s \in Slots, Return(s) \/ FailJob(s)
    PROVE  LET l == slots[s].lease
           IN  /\ l \in Lease /\ l.job \in JobIds
               /\ \A i \in JobIds \ {l.job} : jobs'[i] = jobs[i]
               /\ ~Held(jobs, l) => jobs' = jobs
               /\ Held(jobs, l) =>
                     /\ jobs'[l.job].work = jobs[l.job].work
                     /\ jobs'[l.job].key \in {jobs[l.job].key, NoKey}
                     /\ Return(s) => jobs'[l.job].status = "done"
                     /\ FailJob(s) => jobs'[l.job].status \in {"queued", "failed"}
               /\ \A i \in JobIds : RowMoves(jobs[i], jobs'[i])
  <1> DEFINE l == slots[s].lease
  <1>1. jobs \in Tables /\ l \in Lease /\ l.job \in JobIds /\ jobs[l.job] \in Job
    BY DEF TypeOK, Tables, Slot, Lease
  <1>2. jobs' = Completed(jobs, l) \/ jobs' = Failed(jobs, l)
    BY DEF Return, FailJob
  <1>3. /\ Return(s) => jobs' = Completed(jobs, l)
        /\ FailJob(s) => jobs' = Failed(jobs, l)
    BY DEF Return, FailJob
  <1>4. Return(s) => ~FailJob(s)
    BY DEF Return, FailJob, At
  <1> HIDE DEF l
  <1>5. CASE ~Held(jobs, l)
    <2>1. jobs' = jobs
      BY <1>1, <1>2, <1>5, CompletedFacts, FailedFacts
    <2> QED
      BY <1>1, <1>5, <2>1 DEF RowMoves, l
  <1>6. CASE Held(jobs, l)
    <2>1. \/ jobs' = Ended(jobs, l.job, "done") /\ Return(s)
          \/ jobs' = Ended(jobs, l.job, "failed") /\ FailJob(s)
          \/ jobs' = Requeued(jobs, l.job) /\ FailJob(s)
      BY <1>1, <1>3, <1>6, CompletedFacts, FailedFacts
    <2>2. /\ SameBut(jobs, jobs', l.job)
          /\ jobs'[l.job].work = jobs[l.job].work
          /\ jobs'[l.job].key \in {jobs[l.job].key, NoKey}
          /\ Return(s) => jobs'[l.job].status = "done"
          /\ FailJob(s) => jobs'[l.job].status \in {"queued", "failed"}
          /\ jobs'[l.job].status # "absent"
      <3>1. CASE jobs' = Ended(jobs, l.job, "done") /\ Return(s)
        <4>1. /\ SameBut(jobs, jobs', l.job)
              /\ jobs'[l.job] = [jobs[l.job] EXCEPT !.status = "done", !.expired = FALSE,
                                                  !.token = 0]
          BY <1>1, <3>1, EndedFacts
        <4> QED
          BY <1>1, <1>4, <3>1, <4>1 DEF Job
      <3>2. CASE jobs' = Ended(jobs, l.job, "failed") /\ FailJob(s)
        <4>1. /\ SameBut(jobs, jobs', l.job)
              /\ jobs'[l.job] = [jobs[l.job] EXCEPT !.status = "failed", !.expired = FALSE,
                                                  !.token = 0]
          BY <1>1, <3>2, EndedFacts
        <4> QED
          BY <1>1, <1>4, <3>2, <4>1 DEF Job
      <3>3. CASE jobs' = Requeued(jobs, l.job) /\ FailJob(s)
        <4>1. /\ SameBut(jobs, jobs', l.job) /\ RetryKey(jobs, l.job) \in {jobs[l.job].key, NoKey}
              /\ jobs'[l.job] = [jobs[l.job] EXCEPT !.status = "queued", !.expired = FALSE,
                                    !.token = 0, !.due = FALSE, !.key = RetryKey(jobs, l.job)]
          BY <1>1, <3>3, RequeuedFacts
        <4> QED
          BY <1>1, <1>4, <3>3, <4>1 DEF Job
      <3> QED
        BY <2>1, <3>1, <3>2, <3>3
    <2>3. jobs[l.job].status = "running"
      BY <1>6 DEF Held
    <2>4. \A i \in JobIds \ {l.job} : jobs'[i] = jobs[i]
      BY <2>2 DEF SameBut
    <2>5. \A i \in JobIds : RowMoves(jobs[i], jobs'[i])
      BY <2>2, <2>3, <2>4 DEF RowMoves
    <2> QED
      BY <1>1, <1>6, <2>2, <2>4, <2>5 DEF l
  <1> QED
    BY <1>5, <1>6

\* The clock changes a comparison of times on one row.
LEMMA ClockRows ==
    ASSUME TypeOK, NEW j \in JobIds, BecomesDue(j) \/ LeaseRunsOut(j) \/ LeaseOutlived(j)
    PROVE  /\ \A i \in JobIds \ {j} : jobs'[i] = jobs[i]
           /\ jobs'[j].status = jobs[j].status /\ jobs'[j].work = jobs[j].work
           /\ jobs'[j].token = jobs[j].token
           /\ \A i \in JobIds : RowMoves(jobs[i], jobs'[i])
  <1>1. jobs \in Tables /\ jobs[j] \in Job /\ jobs[j].status \in {"queued", "running"}
    BY DEF TypeOK, Tables, BecomesDue, LeaseRunsOut, LeaseOutlived
  <1>2. jobs' = Passed(jobs, j) \/ jobs' = Lapsed(jobs, j)
    BY DEF BecomesDue, LeaseRunsOut, LeaseOutlived
  <1>3. /\ SameBut(jobs, jobs', j) /\ jobs'[j].status = jobs[j].status
        /\ jobs'[j].work = jobs[j].work /\ jobs'[j].key = jobs[j].key
        /\ jobs'[j].token = jobs[j].token
    <2>1. SameBut(jobs, jobs', j) /\ (\/ jobs'[j] = [jobs[j] EXCEPT !.due = TRUE]
                                     \/ jobs'[j] = [jobs[j] EXCEPT !.expired = TRUE])
      BY <1>1, <1>2, TimesFacts
    <2> QED
      BY <1>1, <2>1 DEF Job
  <1>4. \A i \in JobIds \ {j} : jobs'[i] = jobs[i]
    BY <1>3 DEF SameBut
  <1>5. \A i \in JobIds : RowMoves(jobs[i], jobs'[i])
    BY <1>1, <1>3, <1>4 DEF RowMoves
  <1> QED
    BY <1>3, <1>4, <1>5

LEMMA RowsMove ==
    ASSUME TypeOK, Next
    PROVE  \A j \in JobIds : RowMoves(jobs[j], jobs'[j])
  <1>1. jobs \in Tables /\ Turn \in Works /\ Files \subseteq Works
    BY FrontAssumption DEF TypeOK, Tables
  <1>2. CASE UNCHANGED jobs
    BY <1>2 DEF RowMoves
  <1>3. CASE \/ \E i \in Files, due \in BOOLEAN : EnqueueIgnore(jobs, jobs', i, i, due)
             \/ \E due \in BOOLEAN : \/ EnqueueIgnore(jobs, jobs', Turn, Turn, due)
                                     \/ EnqueueReschedule(jobs, jobs', Turn, Turn, due)
    BY <1>1, <1>3, EnqueueMoves
  <1>4. CASE \E s \in Slots, j \in JobIds : TakeLease(s, j)
    BY <1>4, TakeLeaseRows
  <1>5. CASE \E s \in Slots : Return(s) \/ FailJob(s)
    BY <1>5, SettleRows
  <1>6. CASE \E j \in JobIds : BecomesDue(j) \/ LeaseRunsOut(j) \/ LeaseOutlived(j)
    BY <1>6, ClockRows
  <1>7. ASSUME NEW s \in Slots, TurnOf(s) \/ HandlerOf(s) \/ SlotFault(s),
               ~Return(s), ~FailJob(s)
        PROVE  \/ UNCHANGED jobs
               \/ EnqueueIgnore(jobs, jobs', Turn, Turn, TRUE)
               \/ EnqueueReschedule(jobs, jobs', Turn, Turn, FALSE)
    BY <1>7 DEF TurnOf, HandlerOf, SlotFault, SetUp, CallModel, DeliverReply, EndStep,
       FinishRun, Failing, TryLock, Unlock, CheckInput, FollowUp, Save, Crash, CallFails,
       FinishFails, SaveFails, Claim, SteerIn, ReleaseInput, ReleaseItem
  <1>8. ASSUME NEW i \in Items, Arrive(i)
        PROVE  \/ i \in Files /\ EnqueueIgnore(jobs, jobs', i, i, TRUE)
               \/ EnqueueReschedule(jobs, jobs', Turn, Turn, FALSE)
    BY <1>8 DEF Arrive
  <1> QED
    BY <1>2, <1>3, <1>4, <1>5, <1>6, <1>7, <1>8 DEF Next

\* Jobs keep their work and their key, or give the key up.
LEMMA NamesKept ==
    ASSUME TypeOK, JobsNamed, Next
    PROVE  /\ JobsNamed'
           /\ \A j \in JobIds : jobs[j].status # "absent" =>
                 jobs'[j].status # "absent" /\ jobs'[j].work = jobs[j].work
  <1>1. \A j \in JobIds : RowMoves(jobs[j], jobs'[j])
    BY RowsMove
  <1>2. \A w \in Works, due \in BOOLEAN : LET row == QueuedJob(w, w, due)
                                         IN  row.work = w /\ row.key = w
    BY DEF QueuedJob, NoJob
  <1> QED
    BY <1>1, <1>2 DEF JobsNamed, RowMoves

\* The points of a front_turn job's handler, and of a save_attachment job's.
TurnWork == TurnPoints \cup {"leased", "check", "followup"}
FileWork == {"save", "release_item"}

\* A slot goes on with its job, or lets it go.
StaysOn(s) ==
    \/ slots'[s].pc = "idle"
    \/ /\ slots[s].pc # "idle" /\ slots'[s].lease = slots[s].lease
       /\ slots'[s].pc \in TurnWork => slots[s].pc \in TurnWork
       /\ slots'[s].pc \in FileWork => slots[s].pc \in FileWork

LEMMA GoStaysOn ==
    ASSUME TypeOK, NEW s \in Slots, NEW p, Go(s, p), slots[s].pc # "idle",
           \/ p \in TurnWork /\ slots[s].pc \in TurnWork
           \/ p \in FileWork /\ slots[s].pc \in FileWork
           \/ p \notin TurnWork \cup FileWork
    PROVE  StaysOn(s) /\ \A t \in Slots \ {s} : slots'[t] = slots[t]
  <1>1. slots'[s] = [slots[s] EXCEPT !.pc = p] /\ slots[s] \in Slot
        /\ \A t \in Slots \ {s} : slots'[t] = slots[t]
    BY DEF Go, TypeOK
  <1>2. slots'[s].pc = p /\ slots'[s].lease = slots[s].lease
    BY <1>1 DEF Slot
  <1>3. TurnWork \cap FileWork = {}
    BY DEF TurnWork, FileWork, TurnPoints
  <1> QED
    BY <1>1, <1>2, <1>3 DEF StaysOn

LEMMA SlotStaysOn ==
    ASSUME TypeOK, NEW s \in Slots, TurnOf(s) \/ HandlerOf(s) \/ SlotFault(s)
    PROVE  StaysOn(s) /\ \A t \in Slots \ {s} : slots'[t] = slots[t]
  <1>1. /\ slots \in [Slots -> Slot] /\ slots[s] \in Slot
        /\ Rest.pc = "idle" /\ Rest \in Slot
    BY RestIsASlot DEF TypeOK
  <1>2. CASE slots' = [slots EXCEPT ![s] = Rest]
    BY <1>1, <1>2 DEF StaysOn
  <1>3. CASE /\ slots[s].pc \in TurnPoints
             /\ \E p \in TurnPoints : Go(s, p)
    <2>1. slots[s].pc \in TurnWork /\ slots[s].pc # "idle" /\ TurnPoints \subseteq TurnWork
      BY <1>3 DEF TurnPoints, TurnWork
    <2> QED
      BY <1>3, <2>1, GoStaysOn
  <1>4. CASE Claim(s) \/ CallModel(s)
    <2>1. slots[s].pc \in TurnWork /\ slots[s].pc # "idle"
      BY <1>4 DEF Claim, CallModel, At, TurnPoints, TurnWork
    <2>2. CASE Go(s, "unlock")
      BY <2>1, <2>2, GoStaysOn DEF TurnPoints, TurnWork
    <2>3. CASE slots' = [slots EXCEPT ![s].pc = "setup", ![s].run = NewRun]
      <3>1. slots'[s] = [slots[s] EXCEPT !.pc = "setup", !.run = NewRun]
            /\ \A t \in Slots \ {s} : slots'[t] = slots[t]
        BY <1>1, <2>3
      <3> QED
        BY <1>1, <2>1, <3>1 DEF StaysOn, Slot, TurnWork, FileWork, TurnPoints
    <2>4. CASE CallModel(s)
      <3>1. PICK text \in BOOLEAN, n \in (slots[s].steps + 1) .. StepBudget :
               LET drop == text /\ Interrupting # {}
               IN  slots' = [slots EXCEPT ![s].steps = n, ![s].drop = drop,
                               ![s].pc = IF text /\ ~drop THEN "deliver" ELSE "tools"]
        BY <2>4 DEF CallModel
      <3>2. (text /\ Interrupting # {}) \in BOOLEAN
        OBVIOUS
      <3>3. PICK drop \in BOOLEAN, p \in {"deliver", "tools"} :
               slots' = [slots EXCEPT ![s] = [slots[s] EXCEPT !.steps = n, !.drop = drop, !.pc = p]]
        BY <1>1, <3>1, <3>2
      <3>4. slots'[s] = [slots[s] EXCEPT !.steps = n, !.drop = drop, !.pc = p]
            /\ \A t \in Slots \ {s} : slots'[t] = slots[t]
        BY <1>1, <3>3
      <3>5. slots'[s].pc = p /\ slots'[s].lease = slots[s].lease
        BY <1>1, <3>4 DEF Slot
      <3> QED
        BY <2>1, <3>4, <3>5 DEF StaysOn, TurnWork, FileWork, TurnPoints
    <2> QED
      BY <1>4, <2>2, <2>3, <2>4 DEF Claim
  <1>5. CASE Unlock(s)
    <2>1. slots[s].pc \in TurnWork /\ slots[s].pc # "idle"
      BY <1>5 DEF Unlock, TurnPoints, TurnWork
    <2>2. PICK p \in {"fail", "check"} :
             slots' = [slots EXCEPT ![s] = [Rest EXCEPT !.pc = p, !.lease = slots[s].lease]]
      BY <1>5 DEF Unlock, LeaveTurn
    <2>3. slots'[s] = [Rest EXCEPT !.pc = p, !.lease = slots[s].lease]
          /\ \A t \in Slots \ {s} : slots'[t] = slots[t]
      BY <1>1, <2>2
    <2>4. slots'[s].pc = p /\ slots'[s].lease = slots[s].lease
      BY <1>1, <2>3 DEF Slot
    <2> QED
      BY <2>1, <2>3, <2>4 DEF StaysOn, TurnWork, FileWork, TurnPoints
  <1>6. CASE \/ Save(s) \/ SaveFails(s) \/ ReleaseItem(s) \/ TryLock(s) \/ CheckInput(s)
             \/ FollowUp(s)
    <2>1. PICK p : /\ Go(s, p) /\ slots[s].pc # "idle"
                   /\ \/ p \in TurnWork /\ slots[s].pc \in TurnWork
                      \/ p \in FileWork /\ slots[s].pc \in FileWork
                      \/ p \notin TurnWork \cup FileWork
      <3>1. CASE TryLock(s)
        BY <3>1 DEF TryLock, At, TurnWork, FileWork, TurnPoints
      <3>2. CASE CheckInput(s) \/ FollowUp(s)
        <4>1. slots[s].pc \in {"check", "followup"} /\ (Go(s, "followup") \/ Go(s, "return"))
          BY <3>2 DEF CheckInput, FollowUp, At
        <4>2. "check" \in TurnWork /\ "followup" \in TurnWork
              /\ "return" \notin TurnWork \cup FileWork
          BY DEF TurnWork, FileWork, TurnPoints
        <4> QED
          BY <4>1, <4>2
      <3>3. CASE Save(s) \/ SaveFails(s) \/ ReleaseItem(s)
        <4>1. /\ slots[s].pc \in FileWork /\ slots[s].pc # "idle"
              /\ Go(s, "release_item") \/ Go(s, "return") \/ Go(s, "fail")
          BY <3>3 DEF Save, SaveFails, ReleaseItem, At, FileWork
        <4>2. "release_item" \in FileWork /\ "return" \notin TurnWork \cup FileWork
              /\ "fail" \notin TurnWork \cup FileWork
          BY DEF TurnWork, FileWork, TurnPoints
        <4> QED
          BY <4>1, <4>2
      <3> QED
        BY <1>6, <3>1, <3>2, <3>3
    <2> QED
      BY <2>1, GoStaysOn
  <1>7. CASE CallFails(s)
    <2>1. \/ slots[s].pc \in TurnPoints /\ \E p \in TurnPoints : Go(s, p)
          \/ slots[s].pc # "idle" /\ Go(s, "fail")
      BY <1>7 DEF CallFails, TurnPoints
    <2>2. "fail" \notin TurnWork \cup FileWork
      BY DEF TurnPoints, TurnWork, FileWork
    <2> QED
      BY <1>3, <2>1, <2>2, GoStaysOn
  <1>8. CASE \/ SetUp(s) \/ SteerIn(s) \/ DeliverReply(s) \/ EndStep(s) \/ FinishRun(s)
             \/ Failing(s) \/ ReleaseInput(s) \/ FinishFails(s)
    <2>1. slots[s].pc \in TurnPoints /\ \E p \in TurnPoints : Go(s, p)
      <3>1. CASE EndStep(s)
        BY <3>1 DEF EndStep, At, TurnPoints
      <3>2. CASE ~EndStep(s)
        BY <1>8, <3>2 DEF SetUp, SteerIn, DeliverReply, FinishRun, Failing, ReleaseInput,
           FinishFails, At, TurnPoints
      <3> QED
        BY <3>1, <3>2
    <2> QED
      BY <1>3, <2>1
  <1> QED
    BY <1>2, <1>4, <1>5, <1>6, <1>7, <1>8
       DEF TurnOf, HandlerOf, SlotFault, Return, FailJob, Crash

\* Every slot works on a job of its kind.
LEMMA WorkKept ==
    ASSUME TypeOK, JobsNamed, \A s \in Slots : WorksOn(slots[s], jobs), Next
    PROVE  \A s \in Slots : WorksOn(slots'[s], jobs')
  <1>1. \A j \in JobIds : jobs[j].status # "absent" =>
           jobs'[j].status # "absent" /\ jobs'[j].work = jobs[j].work
    BY NamesKept
  <1>2. \A s \in Slots : slots[s].lease.job \in JobIds
    BY DEF TypeOK, Slot, Lease
  <1>3. ASSUME NEW s \in Slots, StaysOn(s) \/ slots'[s] = slots[s]
        PROVE  WorksOn(slots'[s], jobs')
    <2>1. WorksOn(slots[s], jobs)
      OBVIOUS
    <2> QED
      BY <1>1, <1>2, <1>3, <2>1 DEF WorksOn, StaysOn, TurnWork, FileWork
  <1>4. CASE \E s \in Slots, j \in JobIds : TakeLease(s, j)
    <2>1. PICK s \in Slots, j \in JobIds : TakeLease(s, j)
      BY <1>4
    <2>2. jobs[j].work \in {Turn} \cup Files /\ jobs[j].status # "absent"
      BY <2>1, FrontAssumption DEF TakeLease, Leasable, JobsNamed
    <2>3. /\ slots'[s].lease = LeaseOf(jobs', j)
          /\ slots'[s].pc = IF jobs[j].work = Turn THEN "leased" ELSE "save"
          /\ \A t \in Slots \ {s} : slots'[t] = slots[t]
      BY <2>1 DEF TakeLease, TypeOK, Slot
    <2>4. slots'[s].lease.job = j
      BY <2>3 DEF LeaseOf
    <2>5. WorksOn(slots'[s], jobs')
      BY <1>1, <2>2, <2>3, <2>4 DEF WorksOn, TurnPoints
    <2> QED
      BY <1>3, <2>3, <2>5
  <1>5. CASE \E s \in Slots : TurnOf(s) \/ HandlerOf(s) \/ SlotFault(s)
    BY <1>3, <1>5, SlotStaysOn
  <1>6. CASE UNCHANGED slots
    BY <1>3, <1>6
  <1> QED
    BY <1>4, <1>5, <1>6 DEF Next, Arrive, BecomesDue, LeaseRunsOut, LeaseOutlived

-----------------------------------------------------------------------------
(* Every handler has its own job                                           *)

\* The queue's statements move no running row but the settled slot's own.
LEMMA RunningRows ==
    ASSUME TypeOK, Next, ~\E s \in Slots : Return(s) \/ FailJob(s),
           ~\E s \in Slots, j \in JobIds : TakeLease(s, j),
           ~\E j \in JobIds : LeaseRunsOut(j) \/ LeaseOutlived(j)
    PROVE  \A j \in JobIds : jobs[j].status = "running" => jobs'[j] = jobs[j]
  <1>1. jobs \in Tables /\ Turn \in Works /\ Files \subseteq Works
    BY FrontAssumption DEF TypeOK, Tables
  <1>2. CASE UNCHANGED jobs
    BY <1>2
  <1>3. CASE \/ \E i \in Files, due \in BOOLEAN : EnqueueIgnore(jobs, jobs', i, i, due)
             \/ \E due \in BOOLEAN : \/ EnqueueIgnore(jobs, jobs', Turn, Turn, due)
                                     \/ EnqueueReschedule(jobs, jobs', Turn, Turn, due)
    BY <1>1, <1>3, EnqueueMoves
  <1>4. ASSUME NEW j \in JobIds, BecomesDue(j) PROVE jobs[j].status # "running"
                                                    /\ \A i \in JobIds \ {j} : jobs'[i] = jobs[i]
    BY <1>4, ClockRows DEF BecomesDue
  <1>5. ASSUME NEW s \in Slots, TurnOf(s) \/ HandlerOf(s) \/ SlotFault(s)
        PROVE  \/ UNCHANGED jobs
               \/ EnqueueIgnore(jobs, jobs', Turn, Turn, TRUE)
               \/ EnqueueReschedule(jobs, jobs', Turn, Turn, FALSE)
    BY <1>5 DEF TurnOf, HandlerOf, SlotFault, SetUp, CallModel, DeliverReply, EndStep,
       FinishRun, Failing, TryLock, Unlock, CheckInput, FollowUp, Save, Crash, CallFails,
       FinishFails, SaveFails, Claim, SteerIn, ReleaseInput, ReleaseItem
  <1>6. ASSUME NEW i \in Items, Arrive(i)
        PROVE  \/ i \in Files /\ EnqueueIgnore(jobs, jobs', i, i, TRUE)
               \/ EnqueueReschedule(jobs, jobs', Turn, Turn, FALSE)
    BY <1>6 DEF Arrive
  <1> QED
    BY <1>2, <1>3, <1>4, <1>5, <1>6 DEF Next

LEMMA OutlivedKept ==
    ASSUME TypeOK, Next, ~outlived'
    PROVE  ~outlived /\ ~\E j \in JobIds : LeaseOutlived(j)
  BY DEF TypeOK, Next, Arrive, TakeLease, TurnOf, HandlerOf, SlotFault, SetUp, CallModel,
     DeliverReply, EndStep, FinishRun, Failing, TryLock, Unlock, CheckInput, FollowUp, Save,
     Return, FailJob, Crash, CallFails, FinishFails, SaveFails, Claim, SteerIn, ReleaseInput,
     ReleaseItem, BecomesDue, LeaseRunsOut, LeaseOutlived

LEMMA AttendingKept ==
    ASSUME TypeOK, Attending, Next
    PROVE  Attending'
  <1> SUFFICES ASSUME ~outlived'
               PROVE  \A s \in Slots : ~At(s, "idle")' =>
                         /\ Held(jobs', slots'[s].lease) /\ ~jobs'[slots'[s].lease.job].expired
                         /\ \A t \in Slots \ {s} : ~At(t, "idle")' =>
                               slots'[t].lease.job # slots'[s].lease.job
    BY DEF Attending
  <1>1. ~outlived /\ ~\E j \in JobIds : LeaseOutlived(j)
    BY OutlivedKept
  <1>2. \A s \in Slots : slots[s].pc # "idle" =>
           /\ Held(jobs, slots[s].lease) /\ ~jobs[slots[s].lease.job].expired
           /\ jobs[slots[s].lease.job].status = "running"
           /\ \A t \in Slots \ {s} : slots[t].pc # "idle" =>
                 slots[t].lease.job # slots[s].lease.job
    BY <1>1 DEF Attending, At, Held
  <1>3. \A s \in Slots : slots[s].lease \in Lease /\ slots[s].lease.job \in JobIds
    BY DEF TypeOK, Slot, Lease
  <1> DEFINE Same(s) == \/ slots'[s].pc = "idle"
                        \/ /\ slots[s].pc # "idle" /\ slots'[s].lease = slots[s].lease
                           /\ jobs'[slots[s].lease.job] = jobs[slots[s].lease.job]
  <1>4. CASE \A s \in Slots : Same(s)
    BY <1>2, <1>4 DEF At, Held
  <1>5. CASE \E s \in Slots, j \in JobIds : TakeLease(s, j)
    <2>1. PICK s \in Slots, j \in JobIds : TakeLease(s, j)
      BY <1>5
    <2>2. \A t \in Slots : slots[t].pc # "idle" => slots[t].lease.job # j
      <3>1. jobs[j].status = "queued" \/ jobs[j].expired
        BY <2>1 DEF TakeLease, Leasable
      <3> QED
        BY <1>2, <3>1
    <2>3. /\ \A i \in JobIds \ {j} : jobs'[i] = jobs[i]
          /\ jobs'[j].status = "running" /\ jobs'[j].expired = FALSE
      BY <2>1, TakeLeaseRows
    <2>4. /\ slots'[s].lease = LeaseOf(jobs', j)
          /\ \A t \in Slots \ {s} : slots'[t] = slots[t]
      BY <2>1 DEF TakeLease, TypeOK, Slot
    <2>5. slots'[s].lease.job = j /\ slots'[s].lease.token = jobs'[j].token
      BY <2>4 DEF LeaseOf
    <2>6. Held(jobs', slots'[s].lease) /\ ~jobs'[slots'[s].lease.job].expired
      BY <2>3, <2>5 DEF Held
    <2>7. \A t \in Slots \ {s} : slots'[t].pc # "idle" =>
             /\ slots'[t].lease.job # j
             /\ Held(jobs', slots'[t].lease) /\ ~jobs'[slots'[t].lease.job].expired
      BY <1>2, <1>3, <2>2, <2>3, <2>4 DEF Held
    <2> QED
      BY <1>2, <2>4, <2>5, <2>6, <2>7 DEF At
  <1>6. CASE \E s \in Slots : Return(s) \/ FailJob(s)
    <2>1. PICK s \in Slots : Return(s) \/ FailJob(s)
      BY <1>6
    <2>2. slots'[s].pc = "idle" /\ slots[s].pc # "idle"
          /\ \A t \in Slots \ {s} : slots'[t] = slots[t]
      BY <2>1, RestIsASlot DEF Return, FailJob, At, TypeOK
    <2>3. \A i \in JobIds \ {slots[s].lease.job} : jobs'[i] = jobs[i]
      BY <2>1, SettleRows
    <2>4. \A t \in Slots : Same(t)
      BY <1>2, <1>3, <2>2, <2>3
    <2> QED
      BY <1>4, <2>4
  <1>7. CASE \E j \in JobIds : LeaseRunsOut(j)
    <2>1. PICK j \in JobIds : LeaseRunsOut(j)
      BY <1>7
    <2>2. \A s \in Slots : slots[s].pc # "idle" => slots[s].lease.job # j
      BY <1>2, <2>1 DEF LeaseRunsOut, Attended, At
    <2>3. slots' = slots /\ \A i \in JobIds \ {j} : jobs'[i] = jobs[i]
      BY <2>1, ClockRows DEF LeaseRunsOut
    <2>4. \A t \in Slots : Same(t)
      BY <1>3, <2>2, <2>3
    <2> QED
      BY <1>4, <2>4
  <1>8. CASE /\ ~\E s \in Slots : Return(s) \/ FailJob(s)
             /\ ~\E s \in Slots, j \in JobIds : TakeLease(s, j)
             /\ ~\E j \in JobIds : LeaseRunsOut(j)
    <2>1. \A j \in JobIds : jobs[j].status = "running" => jobs'[j] = jobs[j]
      BY <1>1, <1>8, RunningRows
    <2>2. \A s \in Slots : slots'[s] = slots[s] \/ StaysOn(s)
      <3>1. CASE \E s \in Slots : TurnOf(s) \/ HandlerOf(s) \/ SlotFault(s)
        BY <3>1, SlotStaysOn
      <3>2. CASE UNCHANGED slots
        BY <3>2
      <3> QED
        BY <1>1, <1>8, <3>1, <3>2 DEF Next, Arrive, BecomesDue
    <2>3. \A t \in Slots : Same(t)
      BY <1>2, <1>3, <2>1, <2>2 DEF StaysOn
    <2> QED
      BY <1>4, <2>3
  <1> QED
    BY <1>5, <1>6, <1>7, <1>8

-----------------------------------------------------------------------------
(* A turn is coming                                                        *)

\* The job is one that a turn will come of.
JobComing(j) ==
    /\ jobs[j].work = Turn
    /\ \/ jobs[j].status = "queued"
       \/ /\ jobs[j].status = "running"
          /\ \A s \in Slots : At(s, "return") => slots[s].lease # LeaseOf(jobs, j)

LEMMA ComingByJob == TurnComing <=> lock # None \/ \E j \in JobIds : JobComing(j)
  BY DEF TurnComing, TurnJobs, JobComing

\* A turn comes of the job of every handler that kept its lease and has not
\* looked at the input for the last time.
LEMMA AttendedComing ==
    ASSUME TypeOK', Attending', ~outlived', NEW s \in Slots,
           slots'[s].pc \notin {"idle", "return"},
           jobs'[slots'[s].lease.job].work = Turn
    PROVE  TurnComing'
  <1>1. slots'[s].lease.job \in JobIds
    BY DEF TypeOK, Slot, Lease
  <1>2. jobs'[slots'[s].lease.job].status = "running"
        /\ \A t \in Slots \ {s} : slots'[t].pc # "idle" =>
              slots'[t].lease.job # slots'[s].lease.job
    BY DEF Attending, At, Held
  <1>3. ASSUME NEW t \in Slots, slots'[t].pc = "return"
        PROVE  slots'[t].lease # LeaseOf(jobs', slots'[s].lease.job)
    <2>1. slots'[t].lease.job # slots'[s].lease.job
      BY <1>2, <1>3
    <2> QED
      BY <2>1 DEF LeaseOf
  <1> QED
    BY <1>1, <1>2, <1>3 DEF TurnComing, TurnJobs, At

\* A job goes on coming while its row stays and nobody new leaves it behind.
LEMMA StillComing ==
    ASSUME NEW j \in JobIds, JobComing(j),
           jobs'[j].status = jobs[j].status, jobs'[j].work = jobs[j].work,
           jobs'[j].token = jobs[j].token,
           \A t \in Slots : (slots'[t].pc = "return" /\ slots'[t].lease.job = j) =>
              slots[t].pc = "return" /\ slots'[t].lease = slots[t].lease
    PROVE  TurnComing'
  <1>1. JobComing(j)'
    <2>1. ASSUME NEW t \in Slots, slots'[t].pc = "return", slots'[t].lease = LeaseOf(jobs', j)
          PROVE  slots[t].pc = "return" /\ slots[t].lease = LeaseOf(jobs, j)
      BY <2>1 DEF LeaseOf
    <2> QED
      BY <2>1 DEF JobComing, At
  <1> QED
    BY <1>1, ComingByJob DEF JobComing, TurnComing, TurnJobs

\* A queued job under the turn's key is a turn's.
LEMMA QueuedComing ==
    ASSUME JobsNamed', NEW j \in JobIds, jobs'[j].status = "queued", jobs'[j].key = Turn
    PROVE  TurnComing'
  BY TurnKeys DEF JobsNamed, TurnComing, TurnJobs

\* A file's item that arrives holds the later ones, not itself and no older one.
LEMMA HeldOnArrival ==
    ASSUME TypeOK, NEW i \in Files, Arrive(i)
    PROVE  Claimable(items') \subseteq Claimable(items)
  <1>1. /\ i \in Items /\ items[i] \in Item /\ ~items[i].stored
        /\ \A h \in Items : h # i => items'[h] = items[h]
        /\ items'[i].by = items[i].by /\ items'[i].stored /\ items'[i].pending
    BY ArriveItems, FrontAssumption DEF TypeOK
  <1>2. ASSUME NEW c \in Claimable(items') PROVE c \in Claimable(items)
    <2>1. /\ c \in Items /\ items'[c].stored /\ items'[c].by = 0
          /\ \A h \in Waiting(items') : items'[h].pending => c < h
      BY DEF Claimable, Waiting
    <2>2. Waiting(items) \subseteq Waiting(items')
      BY <1>1 DEF Waiting
    <2>3. c # i
      BY <1>1, <2>1, FrontAssumption DEF Waiting
    <2>4. \A h \in Waiting(items) : h # i
      BY <1>1 DEF Waiting
    <2> QED
      BY <1>1, <2>1, <2>2, <2>3, <2>4 DEF Claimable, Waiting
  <1> QED
    BY <1>2

LEMMA NothingLeft ==
    ASSUME TypeOK, InputInv, Next, TypeOK', JobsNamed', Attending',
           \A s \in Slots : WorksOn(slots'[s], jobs')
    PROVE  NoInputLeftBehind'
  <1> SUFFICES ASSUME Claimable(items') # {}, ~outlived', lock' = None
               PROVE  TurnComing' \/ GivenUp'
    BY ComingByJob DEF NoInputLeftBehind, TurnComing
  <1>1. ~outlived /\ ~\E j \in JobIds : LeaseOutlived(j)
    BY OutlivedKept
  <1>2. \A j \in JobIds : RowMoves(jobs[j], jobs'[j])
    BY RowsMove
  <1>3. GivenUp => GivenUp'
    BY <1>2 DEF GivenUp, TurnJobs, RowMoves
  <1>4. \A s \in Slots : slots[s].lease \in Lease /\ slots[s].lease.job \in JobIds
    BY DEF TypeOK, Slot, Lease
  <1>5. Claimable(items) # {} /\ lock = None => GivenUp \/ \E j \in JobIds : JobComing(j)
    BY <1>1, ComingByJob DEF InputInv, NoInputLeftBehind
  <1>6. \A s \in Slots : slots[s].pc \in TurnPoints <=> lock = s
    BY DEF TypeOK
  <1>7. None \notin Slots
    BY FrontAssumption
  <1>8. \A s \in Slots : WorksOn(slots[s], jobs)
    BY DEF InputInv
  <1>9. Turn \notin Files
    BY FrontAssumption DEF Turn
  \* The job a turn is coming of, when a step changes no row of a turn's job and
  \* no slot with one goes to its return.
  <1>10. ASSUME Claimable(items) # {}, lock = None,
                \A j \in JobIds : jobs[j].work = Turn =>
                   /\ jobs'[j].status = jobs[j].status /\ jobs'[j].work = jobs[j].work
                   /\ jobs'[j].token = jobs[j].token,
                \A t \in Slots : slots'[t].pc = "return" =>
                   \/ slots[t].pc = "return" /\ slots'[t].lease = slots[t].lease
                   \/ slots'[t].lease = slots[t].lease /\ jobs[slots[t].lease.job].work # Turn
         PROVE  TurnComing' \/ GivenUp'
    <2>1. CASE GivenUp
      BY <1>3, <2>1
    <2>2. CASE \E j \in JobIds : JobComing(j)
      <3>1. PICK j \in JobIds : JobComing(j)
        BY <2>2
      <3>2. jobs[j].work = Turn
        BY <3>1 DEF JobComing
      <3> QED
        BY <1>10, <3>1, <3>2, StillComing
    <2> QED
      BY <1>5, <1>10, <2>1, <2>2
  <1>11. ASSUME NEW i \in Items, Arrive(i) PROVE TurnComing' \/ GivenUp'
    <2>1. CASE i \in Files
      <3>1. Claimable(items) # {}
        BY <1>11, <2>1, HeldOnArrival
      <3>2. lock = None /\ slots' = slots
        BY <1>11 DEF Arrive
      <3>3. /\ i \in Works /\ jobs \in Tables
            /\ \E due \in BOOLEAN : EnqueueIgnore(jobs, jobs', i, i, due)
        BY <1>11, <2>1, FrontAssumption DEF Arrive, TypeOK, Tables
      <3>4. \A j \in JobIds : jobs[j].work = Turn /\ JobComing(j) =>
               jobs'[j].status = jobs[j].status /\ jobs'[j].work = jobs[j].work
        <4>1. /\ \A j \in JobIds : jobs[j].status = "running" => jobs'[j] = jobs[j]
              /\ \A j \in JobIds : jobs[j].status = "queued" => jobs'[j].status = "queued"
          BY <3>3, EnqueueMoves
        <4> QED
          BY <1>2, <4>1 DEF JobComing, RowMoves
      <3>5. \A j \in JobIds : jobs[j].status = "running" => jobs'[j] = jobs[j]
        BY <3>3, EnqueueMoves
      <3>6. ASSUME NEW j \in JobIds, JobComing(j) PROVE TurnComing'
        <4>1. CASE jobs[j].status = "queued"
          BY <3>4, <3>6, <4>1 DEF JobComing, TurnComing, TurnJobs
        <4>2. CASE jobs[j].status = "running"
          BY <3>2, <3>5, <3>6, <4>2, StillComing
        <4> QED
          BY <3>6, <4>1, <4>2 DEF JobComing
      <3> QED
        BY <1>3, <1>5, <3>1, <3>2, <3>6
    <2>2. CASE i \notin Files
      <3>1. /\ jobs \in Tables /\ Turn \in Works
            /\ \E due \in BOOLEAN : EnqueueReschedule(jobs, jobs', Turn, Turn, due)
        BY <1>11, <2>2, FrontAssumption DEF Arrive, TypeOK, Tables
      <3>2. \E j \in JobIds : jobs'[j].status = "queued" /\ jobs'[j].key = Turn
        BY <3>1, EnqueueMoves
      <3> QED
        BY <3>2, QueuedComing
    <2> QED
      BY <2>1, <2>2
  <1>12. ASSUME NEW s \in Slots, NEW j \in JobIds, TakeLease(s, j) PROVE TurnComing' \/ GivenUp'
    <2>1. /\ slots'[s].lease = LeaseOf(jobs', j)
          /\ slots'[s].pc = IF jobs[j].work = Turn THEN "leased" ELSE "save"
          /\ \A t \in Slots \ {s} : slots'[t] = slots[t]
      BY <1>12 DEF TakeLease, TypeOK, Slot
    <2>2. slots'[s].lease.job = j
      BY <2>1 DEF LeaseOf
    <2>3. /\ \A i \in JobIds \ {j} : jobs'[i] = jobs[i]
          /\ jobs'[j].work = jobs[j].work
      BY <1>12, TakeLeaseRows
    <2>4. CASE jobs[j].work = Turn
      BY <2>1, <2>2, <2>3, <2>4, AttendedComing
    <2>5. CASE jobs[j].work # Turn
      <3>1. lock = None /\ Claimable(items) # {}
        BY <1>12 DEF TakeLease
      <3>2. \A i \in JobIds : jobs[i].work = Turn => jobs'[i] = jobs[i]
        BY <2>3, <2>5
      <3>3. \A t \in Slots : slots'[t].pc = "return" => slots'[t] = slots[t]
        BY <2>1
      <3> QED
        BY <1>10, <3>1, <3>2, <3>3
    <2> QED
      BY <2>4, <2>5
  <1>13. ASSUME NEW s \in Slots, Return(s) \/ FailJob(s) PROVE TurnComing' \/ GivenUp'
    <2> DEFINE l == slots[s].lease
    <2>1. /\ lock = None /\ Claimable(items) # {}
          /\ slots'[s].pc = "idle" /\ slots[s].pc \in {"return", "fail"}
          /\ \A t \in Slots \ {s} : slots'[t] = slots[t]
      BY <1>13, RestIsASlot DEF Return, FailJob, At, TypeOK
    <2>2. /\ l.job \in JobIds
          /\ \A i \in JobIds \ {l.job} : jobs'[i] = jobs[i]
          /\ Held(jobs, l) =>
                /\ jobs'[l.job].work = jobs[l.job].work
                /\ Return(s) => jobs'[l.job].status = "done"
                /\ FailJob(s) => jobs'[l.job].status \in {"queued", "failed"}
      BY <1>13, SettleRows
    <2>3. Held(jobs, l)
      BY <1>1, <2>1 DEF InputInv, Attending, At
    <2>4. CASE GivenUp
      BY <1>3, <2>4
    <2>5. ASSUME NEW j \in JobIds, JobComing(j) PROVE TurnComing' \/ GivenUp'
      <3>1. CASE j # l.job
        <4>1. jobs'[j] = jobs[j]
          BY <2>2, <3>1
        <4>2. \A t \in Slots : slots'[t].pc = "return" => slots'[t] = slots[t]
          BY <2>1
        <4> QED
          BY <2>5, <4>1, <4>2, StillComing
      <3>2. CASE j = l.job /\ FailJob(s)
        BY <2>2, <2>3, <2>5, <3>2 DEF JobComing, TurnComing, GivenUp, TurnJobs
      <3>3. CASE j = l.job /\ Return(s)
        <4>1. l = LeaseOf(jobs, j)
          BY <1>4, <2>3, <3>3 DEF Held, LeaseOf, Lease
        <4>2. jobs[j].status = "running" /\ At(s, "return")
          BY <2>3, <3>3 DEF Held, Return
        <4> QED
          BY <2>5, <4>1, <4>2 DEF JobComing
      <3> QED
        BY <1>13, <3>1, <3>2, <3>3
    <2> QED
      BY <1>5, <2>1, <2>4, <2>5
  \* A step of a slot whose own job's turn is not over.
  <1>14. ASSUME NEW s \in Slots, slots[s].pc \in TurnPoints \cup {"leased", "check", "followup"},
                slots'[s].pc \notin {"idle", "return"}, slots'[s].lease = slots[s].lease
         PROVE  TurnComing' \/ GivenUp'
    <2>1. jobs[slots[s].lease.job].work = Turn /\ jobs[slots[s].lease.job].status # "absent"
      BY <1>8, <1>14 DEF WorksOn, TurnPoints
    <2>2. jobs'[slots'[s].lease.job].work = Turn
      BY <1>2, <1>4, <1>14, <2>1 DEF RowMoves
    <2> QED
      BY <1>14, <2>2, AttendedComing
  <1>15. ASSUME NEW s \in Slots, Crash(s) PROVE TurnComing' \/ GivenUp'
    <2>1. /\ jobs' = jobs /\ items' = items /\ slots'[s].pc = "idle"
          /\ lock' = (IF lock = s THEN None ELSE lock)
          /\ \A t \in Slots \ {s} : slots'[t] = slots[t]
      BY <1>15, RestIsASlot DEF Crash, TypeOK
    <2>2. CASE lock = s
      <3>1. slots[s].pc \in TurnPoints
        BY <1>6, <2>2
      <3> DEFINE j == slots[s].lease.job
      <3>2. jobs[j].work = Turn /\ j \in JobIds
        BY <1>4, <1>8, <3>1 DEF WorksOn, TurnPoints
      <3>3. jobs[j].status = "running"
            /\ \A t \in Slots \ {s} : slots[t].pc # "idle" => slots[t].lease.job # j
        BY <1>1, <3>1 DEF InputInv, Attending, At, Held, TurnPoints
      <3> HIDE DEF j
      <3>4. ASSUME NEW t \in Slots, slots'[t].pc = "return" PROVE slots'[t].lease.job # j
        <4>1. t # s /\ slots'[t] = slots[t]
          BY <2>1, <3>4
        <4> QED
          BY <3>3, <3>4, <4>1
      <3>5. \A t \in Slots : slots'[t].pc = "return" => slots'[t].lease # LeaseOf(jobs', j)
        BY <3>4 DEF LeaseOf
      <3> QED
        BY <2>1, <3>2, <3>3, <3>5 DEF TurnComing, TurnJobs, At
    <2>3. CASE lock # s
      <3>1. lock = None
        BY <2>1, <2>3
      <3>2. \A t \in Slots : slots'[t].pc = "return" => slots'[t] = slots[t]
        BY <2>1
      <3> QED
        BY <1>10, <2>1, <3>1, <3>2
    <2> QED
      BY <2>2, <2>3
  <1>16. ASSUME NEW s \in Slots, TurnOf(s) \/ FinishFails(s) \/ TryLock(s)
         PROVE  FALSE
    <2>1. CASE TurnOf(s) \/ FinishFails(s)
      <3>1. slots[s].pc \in TurnPoints /\ lock' = lock
        BY <2>1 DEF TurnOf, FinishFails, SetUp, CallModel, DeliverReply, EndStep, FinishRun,
           Failing, Claim, SteerIn, ReleaseInput, At, TurnPoints
      <3> QED
        BY <1>6, <1>7, <3>1
    <2>2. CASE TryLock(s)
      BY <1>7, <2>2 DEF TryLock
    <2> QED
      BY <1>16, <2>1, <2>2
  <1>17. ASSUME NEW s \in Slots, Unlock(s) PROVE TurnComing' \/ GivenUp'
    <2>1. slots[s].pc \in TurnPoints
      BY <1>17 DEF Unlock, TurnPoints
    <2>2. PICK p \in {"fail", "check"} :
             slots' = [slots EXCEPT ![s] = [Rest EXCEPT !.pc = p, !.lease = slots[s].lease]]
      BY <1>17 DEF Unlock, LeaveTurn
    <2>3. slots'[s] = [Rest EXCEPT !.pc = p, !.lease = slots[s].lease]
      BY <2>2 DEF TypeOK
    <2>4. slots'[s].pc = p /\ slots'[s].lease = slots[s].lease
      BY <2>3, RestIsASlot DEF Slot
    <2> QED
      BY <1>14, <2>1, <2>4
  <1>18. ASSUME NEW s \in Slots, CallFails(s) PROVE TurnComing' \/ GivenUp'
    <2>1. CASE slots[s].pc \in TurnPoints
      BY <1>6, <1>7, <1>18, <2>1 DEF CallFails
    <2>2. CASE slots[s].pc \notin TurnPoints
      <3>1. jobs' = jobs /\ items' = items /\ lock = None /\ Go(s, "fail")
        BY <1>18, <2>2 DEF CallFails, TurnPoints
      <3>2. \A t \in Slots : slots'[t].pc = "return" => slots'[t] = slots[t]
        BY <3>1 DEF Go, TypeOK, Slot
      <3> QED
        BY <1>10, <3>1, <3>2
    <2> QED
      BY <2>1, <2>2
  <1>19. ASSUME NEW s \in Slots, CheckInput(s) PROVE TurnComing' \/ GivenUp'
    <2>1. items' = items /\ slots[s].pc = "check"
      BY <1>19 DEF CheckInput, At
    <2>2. Go(s, "followup")
      BY <1>19, <2>1 DEF CheckInput
    <2>3. slots'[s].pc = "followup" /\ slots'[s].lease = slots[s].lease
      BY <2>2 DEF Go, TypeOK, Slot
    <2> QED
      BY <1>14, <2>1, <2>3
  <1>20. ASSUME NEW s \in Slots, FollowUp(s) PROVE TurnComing' \/ GivenUp'
    <2>1. /\ jobs \in Tables /\ Turn \in Works
          /\ \E due \in BOOLEAN : EnqueueIgnore(jobs, jobs', Turn, Turn, due)
      BY <1>20, FrontAssumption DEF FollowUp, TypeOK, Tables
    <2>2. \E j \in JobIds : jobs'[j].status = "queued" /\ jobs'[j].key = Turn
      BY <2>1, EnqueueMoves
    <2> QED
      BY <2>2, QueuedComing
  <1>21. ASSUME NEW s \in Slots, Save(s) \/ SaveFails(s) \/ ReleaseItem(s)
         PROVE  TurnComing' \/ GivenUp'
    <2>1. CASE \E due \in BOOLEAN : EnqueueReschedule(jobs, jobs', Turn, Turn, due)
      <3>1. jobs \in Tables /\ Turn \in Works
        BY FrontAssumption DEF TypeOK, Tables
      <3>2. \E j \in JobIds : jobs'[j].status = "queued" /\ jobs'[j].key = Turn
        BY <2>1, <3>1, EnqueueMoves
      <3> QED
        BY <3>2, QueuedComing
    <2>2. CASE ~\E due \in BOOLEAN : EnqueueReschedule(jobs, jobs', Turn, Turn, due)
      <3>1. jobs' = jobs /\ items' = items /\ lock = None
            /\ slots[s].pc \in {"save", "release_item"}
        BY <1>21, <2>2 DEF Save, SaveFails, ReleaseItem, At
      <3>2. PICK p : Go(s, p)
        BY <1>21 DEF Save, SaveFails, ReleaseItem
      <3>3. slots'[s].lease = slots[s].lease /\ \A t \in Slots \ {s} : slots'[t] = slots[t]
        BY <3>2 DEF Go, TypeOK, Slot
      <3>4. jobs[slots[s].lease.job].work # Turn
        BY <1>8, <1>9, <3>1 DEF WorksOn
      <3>5. \A t \in Slots : slots'[t].pc = "return" =>
               \/ slots[t].pc = "return" /\ slots'[t].lease = slots[t].lease
               \/ slots'[t].lease = slots[t].lease /\ jobs[slots[t].lease.job].work # Turn
        BY <3>3, <3>4
      <3> QED
        BY <1>10, <3>1, <3>5
    <2> QED
      BY <2>1, <2>2
  <1>22. ASSUME NEW j \in JobIds, BecomesDue(j) \/ LeaseRunsOut(j)
         PROVE  TurnComing' \/ GivenUp'
    <2>1. lock = None /\ items' = items /\ slots' = slots
      BY <1>22 DEF BecomesDue, LeaseRunsOut
    <2>2. /\ \A i \in JobIds \ {j} : jobs'[i] = jobs[i]
          /\ jobs'[j].status = jobs[j].status /\ jobs'[j].work = jobs[j].work
          /\ jobs'[j].token = jobs[j].token
      BY <1>22, ClockRows
    <2>3. \A i \in JobIds : /\ jobs'[i].status = jobs[i].status /\ jobs'[i].work = jobs[i].work
                            /\ jobs'[i].token = jobs[i].token
      BY <2>2
    <2> QED
      BY <1>10, <2>1, <2>3
  <1> QED
    BY <1>1, <1>11, <1>12, <1>13, <1>15, <1>16, <1>17, <1>18, <1>19, <1>20, <1>21, <1>22
       DEF Next, HandlerOf, SlotFault

LEMMA InputInvInit == Init => InputInv
  <1> SUFFICES ASSUME Init PROVE InputInv
    OBVIOUS
  <1>1. \A j \in JobIds : jobs[j] = NoJob
    BY EmptyTableFacts DEF Init
  <1>2. JobsNamed
    <2>1. NoJob.key = NoKey /\ NoJob.status = "absent"
      BY DEF NoJob
    <2> QED
      BY <1>1, <2>1 DEF JobsNamed
  <1>3. \A s \in Slots : slots[s].pc = "idle"
    BY RestIsASlot DEF Init
  <1>4. Attending /\ \A s \in Slots : WorksOn(slots[s], jobs)
    BY <1>3 DEF Attending, At, WorksOn
  <1>5. NoInputLeftBehind
    <2>1. Claimable(items) = {}
      BY DEF Init, Claimable, Waiting
    <2> QED
      BY <2>1 DEF NoInputLeftBehind
  <1> QED
    BY <1>2, <1>4, <1>5 DEF InputInv

LEMMA InputInvNext == TypeOK /\ TypeOK' /\ InputInv /\ [Next]_vars => InputInv'
  <1>1. ASSUME TypeOK, TypeOK', InputInv, Next PROVE InputInv'
    BY <1>1, NamesKept, AttendingKept, WorkKept, NothingLeft DEF InputInv
  <1>2. ASSUME InputInv, UNCHANGED vars PROVE InputInv'
    BY <1>2 DEF vars, InputInv, JobsNamed, Attending, At, NoInputLeftBehind, TurnComing,
       TurnJobs, GivenUp
  <1> QED
    BY <1>1, <1>2

\* Input a turn could take has a turn coming, unless a job used up its attempts or
\* a handler outlived its lease: neither the debounce, the busy lock, a held file,
\* a crash nor a retry leaves it behind (front/handler.ts, lock.ts, queue.ts).
THEOREM InputIsAttended == Spec => []NoInputLeftBehind
  <1>1. InputInv => NoInputLeftBehind
    BY DEF InputInv
  <1> QED
    BY <1>1, InputInvInit, InputInvNext, TypeCorrect, PTL DEF Spec
=============================================================================
