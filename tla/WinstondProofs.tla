----------------------------- MODULE WinstondProofs -----------------------------
(***************************************************************************)
(* Proofs about what winstond does on the VM: Updates, Autopilot and       *)
(* Transfers.  First Updates, for any number of versions, whichever of     *)
(* them are broken, and any number of starts before a rollback.            *)
(*                                                                         *)
(* UpdatesKept is not inductive: that a broken version can be rolled back  *)
(* rests on what its predecessor put by, and that on who may take an offer *)
(* at all.  UpdatesInv adds, in this order: only a winstond that works is  *)
(* ever connected, so only such a one is put by (OnlyConnected); between   *)
(* two starts, what runs is what is in place but for a swap of its own     *)
(* (RunsWhatIsThere); what is put by works and is not the version on trial *)
(* (PutByWell); and a swap is only made with all that in place (Prepared). *)
(***************************************************************************)
EXTENDS Updates, Autopilot, Transfers, FiniteSetTheorems, TLAPS

GatewayTypes ==
    /\ offering \subseteq Versions
    /\ hellos \subseteq [cli : Versions, winstond : Versions]
    /\ reported \in [cli : Versions, winstond : Versions] \cup {NoReport}
    /\ manifest <= published

VmTypes ==
    /\ process \in [up : BOOLEAN, version : Versions, cli : Versions]
    /\ updating \in [at : {"no", "cli", "winstond", "swap", "swapped", "idle"}, version : Versions]
    /\ offered \in Seq(Versions)
    /\ confirmedEarly \subseteq Versions

TypeInv == UpdatesTypeOK /\ GatewayTypes /\ VmTypes

\* Offers come only over a connection, and only to a winstond that could connect.
OnlyConnected ==
    /\ connected => process.version \notin Broken
    /\ offered # <<>> => connected
    /\ updating.at # "no" => process.up /\ process.version \notin Broken

Replacing == updating.at \in {"swapped", "idle"}

\* What runs is what is in place, unless it has just put another there.
RunsWhatIsThere ==
    process.up => bin = IF Replacing THEN updating.version ELSE process.version

\* What is put by works, and is another version than the one that is tried.
PutByWell ==
    /\ previous \notin Broken
    /\ previous # Nothing => previous \notin {marker, failed}
    /\ bin \in Broken /\ marker # Nothing => previous # Nothing

\* A swap was prepared: what it replaces is put by and its marker is there, unless the
\* winstond it replaces reconnected.
Prepared ==
    updating.at \in {"swap", "swapped", "idle"} =>
        /\ previous # Nothing /\ updating.version # failed
        /\ (marker = updating.version /\ starts = 0) \/ updating.version \in confirmedEarly

UpdatesInv == TypeInv /\ OnlyConnected /\ RunsWhatIsThere /\ PutByWell /\ Prepared
                /\ NotTriedAgain /\ BrokenIsMarked /\ HeldForTheCli

-----------------------------------------------------------------------------
LEMMA TypeStep ==
  ASSUME TypeInv, OnlyConnected, [UpdatesNext]_updateVars
  PROVE  TypeInv'
  <1> USE DEF TypeInv
  <1>1. CASE PublishVersion
    <2>1. UpdatesTypeOK' /\ manifest' <= published'
      BY <1>1, UpdatesAssumption
         DEF PublishVersion, UpdatesTypeOK, GatewayTypes, Versions, diskVars
    <2>2. GatewayTypes'
      BY <1>1, <2>1 DEF PublishVersion, GatewayTypes
    <2>3. VmTypes'
      BY <1>1 DEF PublishVersion, VmTypes
    <2> QED  BY <2>1, <2>2, <2>3
  <1>2. CASE Refresh
    <2>1. UpdatesTypeOK'
      BY <1>2 DEF Refresh, UpdatesTypeOK, diskVars
    <2>2. GatewayTypes'
      <3>1. published \in Versions /\ manifest' = published /\ published' = published
        BY <1>2 DEF Refresh, UpdatesTypeOK
      <3>2. offering' \subseteq Versions
        BY <1>2, <3>1 DEF Refresh, GatewayTypes
      <3>3. manifest' <= published'
        BY <3>1 DEF Versions
      <3> QED
        BY <1>2, <3>2, <3>3 DEF Refresh, GatewayTypes
    <2>3. VmTypes'
      BY <1>2 DEF Refresh, VmTypes
    <2> QED  BY <2>1, <2>2, <2>3
  <1>3. CASE (\E report \in hellos : StoredHello(report))
    <2>1. UpdatesTypeOK'
      BY <1>3 DEF StoredHello, Let, UpdatesTypeOK, diskVars
    <2>2. GatewayTypes'
      BY <1>3 DEF StoredHello, UpdatesTypeOK, GatewayTypes
    <2>3. VmTypes'
      BY <1>3 DEF StoredHello, VmTypes
    <2> QED  BY <2>1, <2>2, <2>3
  <1>4. CASE (\E v \in Versions : SendOffer(v))
    <2>1. UpdatesTypeOK'
      BY <1>4 DEF SendOffer, UpdatesTypeOK, diskVars
    <2>2. GatewayTypes'
      BY <1>4 DEF SendOffer, GatewayTypes
    <2>3. VmTypes'
      <3>1. PICK v \in Versions : SendOffer(v)
        BY <1>4
      <3>2. Append(offered, v) \in Seq(Versions)
        BY DEF VmTypes
      <3> QED
        BY <3>1, <3>2 DEF SendOffer, VmTypes
    <2> QED  BY <2>1, <2>2, <2>3
  <1>5. CASE (\E w \in Works : AskReady(w))
    BY <1>5 DEF AskReady, UpdatesTypeOK, GatewayTypes, VmTypes, diskVars
  <1>6. CASE (\E w \in Works : HeldTooLong(w))
    BY <1>6 DEF HeldTooLong, UpdatesTypeOK, GatewayTypes, VmTypes, diskVars
  <1>7. CASE VmAccepted
    <2>1. UpdatesTypeOK'
      BY <1>7, UpdatesAssumption DEF VmAccepted, Confirmed, UpdatesTypeOK
    <2>2. GatewayTypes'
      BY <1>7 DEF VmAccepted, Reports, GatewayTypes, VmTypes
    <2>3. VmTypes'
      BY <1>7 DEF VmAccepted, Confirmed, VmTypes, OnlyConnected
    <2> QED  BY <2>1, <2>2, <2>3
  <1>8. CASE VmDisconnected
    BY <1>8 DEF VmDisconnected, Lost, UpdatesTypeOK, GatewayTypes, VmTypes, diskVars
  <1>9. CASE TakeOffer
    <2>1. UpdatesTypeOK'
      BY <1>9 DEF TakeOffer, UpdatesTypeOK, gatewayUpdateVars, diskVars
    <2>2. GatewayTypes'
      BY <1>9 DEF TakeOffer, GatewayTypes, gatewayUpdateVars
    <2>3. VmTypes'
      BY <1>9 DEF TakeOffer, VmTypes
    <2> QED  BY <2>1, <2>2, <2>3
  <1>10. CASE SwapCli
    <2>1. UpdatesTypeOK'
      BY <1>10 DEF SwapCli, UpdatesTypeOK, VmTypes, gatewayUpdateVars
    <2>2. GatewayTypes'
      BY <1>10 DEF SwapCli, GatewayTypes, gatewayUpdateVars
    <2>3. VmTypes'
      BY <1>10 DEF SwapCli, VmTypes
    <2> QED  BY <2>1, <2>2, <2>3
  <1>11. CASE PutBy
    <2>1. UpdatesTypeOK'
      BY <1>11, UpdatesAssumption DEF PutBy, UpdatesTypeOK, VmTypes, gatewayUpdateVars
    <2>2. GatewayTypes'
      BY <1>11 DEF PutBy, GatewayTypes, gatewayUpdateVars
    <2>3. VmTypes'
      BY <1>11 DEF PutBy, VmTypes
    <2> QED  BY <2>1, <2>2, <2>3
  <1>12. CASE SwapWinstond
    BY <1>12 DEF SwapWinstond, UpdatesTypeOK, GatewayTypes, VmTypes, gatewayUpdateVars
  <1>13. CASE Applied
    <2>1. UpdatesTypeOK'
      BY <1>13 DEF Applied, NotUpdating, UpdatesTypeOK, diskVars
    <2>2. GatewayTypes'
      BY <1>13 DEF Applied, Reports, GatewayTypes, VmTypes
    <2>3. VmTypes'
      <3>1. process' = [up |-> process.up, version |-> process.version, cli |-> updating.version]
        BY <1>13 DEF Applied, VmTypes
      <3>2. updating' \in [at : {"no", "idle"}, version : Versions]
        BY <1>13, UpdatesAssumption DEF Applied, NotUpdating, VmTypes, Versions
      <3> QED
        BY <1>13, <3>1, <3>2 DEF Applied, VmTypes
    <2> QED  BY <2>1, <2>2, <2>3
  <1>14. CASE ApplyFails
    BY <1>14, UpdatesAssumption
       DEF ApplyFails, NotUpdating, UpdatesTypeOK, GatewayTypes, VmTypes, Versions,
           gatewayUpdateVars, diskVars
  <1>15. CASE RestartForUpdate
    <2>1. UpdatesTypeOK'
      BY <1>15 DEF RestartForUpdate, Down, Lost, NotUpdating, UpdatesTypeOK, diskVars
    <2>2. GatewayTypes'
      BY <1>15 DEF RestartForUpdate, Lost, GatewayTypes
    <2>3. VmTypes'
      <3>1. process' = [up |-> FALSE, version |-> process.version, cli |-> process.cli]
        BY <1>15 DEF RestartForUpdate, Down, VmTypes
      <3>2. updating' \in [at : {"no"}, version : Versions]
        BY <1>15, UpdatesAssumption DEF RestartForUpdate, Down, NotUpdating, Versions
      <3>3. offered' \in Seq(Versions)
        BY <1>15, <<>> \in Seq(Versions) DEF RestartForUpdate, Lost, VmTypes
      <3> QED
        BY <1>15, <3>1, <3>2, <3>3 DEF RestartForUpdate, VmTypes
    <2> QED  BY <2>1, <2>2, <2>3
  <1>16. CASE VmCrashes
    <2>1. UpdatesTypeOK'
      BY <1>16 DEF VmCrashes, Down, Lost, NotUpdating, UpdatesTypeOK, diskVars
    <2>2. GatewayTypes'
      BY <1>16 DEF VmCrashes, Lost, GatewayTypes
    <2>3. VmTypes'
      <3>1. process' = [up |-> FALSE, version |-> process.version, cli |-> process.cli]
        BY <1>16 DEF VmCrashes, Down, VmTypes
      <3>2. updating' \in [at : {"no"}, version : Versions]
        BY <1>16, UpdatesAssumption DEF VmCrashes, Down, NotUpdating, Versions
      <3>3. offered' \in Seq(Versions)
        BY <1>16, <<>> \in Seq(Versions) DEF VmCrashes, Lost, VmTypes
      <3> QED
        BY <1>16, <3>1, <3>2, <3>3 DEF VmCrashes, VmTypes
    <2> QED  BY <2>1, <2>2, <2>3
  <1>17. CASE PlainStart
    BY <1>17, UpdatesAssumption
       DEF PlainStart, Started, UpdatesTypeOK, GatewayTypes, VmTypes, gatewayUpdateVars
  <1>18. CASE Rollback
    BY <1>18, UpdatesAssumption
       DEF Rollback, Started, RollsBack, UpdatesTypeOK, GatewayTypes, VmTypes,
           gatewayUpdateVars
  <1>19. CASE RollbackCutShort
    BY <1>19
       DEF RollbackCutShort, RollsBack, UpdatesTypeOK, GatewayTypes, VmTypes,
           gatewayUpdateVars
  <1>20. CASE UNCHANGED updateVars
    BY <1>20 DEF updateVars, UpdatesTypeOK, GatewayTypes, VmTypes, gatewayUpdateVars, diskVars
  <1> QED
    BY <1>1, <1>2, <1>3, <1>4, <1>5, <1>6, <1>7, <1>8, <1>9, <1>10,
       <1>11, <1>12, <1>13, <1>14, <1>15, <1>16, <1>17, <1>18, <1>19, <1>20
       DEF UpdatesNext, GatewayUpdateStep, VmUpdateStep


\* What the swap, the restart and the rollback rest on.
LEMMA SwapStep ==
  ASSUME UpdatesInv, TypeInv', [UpdatesNext]_updateVars
  PROVE  /\ (OnlyConnected /\ RunsWhatIsThere /\ PutByWell /\ Prepared)'
         /\ (NotTriedAgain /\ BrokenIsMarked)'
  <1>1. CASE PublishVersion
    BY <1>1
       DEF PublishVersion, UpdatesInv, OnlyConnected, RunsWhatIsThere, Replacing, PutByWell,
           Prepared, NotTriedAgain, BrokenIsMarked, diskVars
  <1>2. CASE Refresh
    BY <1>2
       DEF Refresh, UpdatesInv, OnlyConnected, RunsWhatIsThere, Replacing, PutByWell,
           Prepared, NotTriedAgain, BrokenIsMarked, diskVars
  <1>3. CASE (\E report \in hellos : StoredHello(report))
    BY <1>3
       DEF StoredHello, UpdatesInv, OnlyConnected, RunsWhatIsThere, Replacing, PutByWell,
           Prepared, NotTriedAgain, BrokenIsMarked, diskVars
  <1>4. CASE (\E v \in Versions : SendOffer(v))
    BY <1>4
       DEF SendOffer, UpdatesInv, OnlyConnected, RunsWhatIsThere, Replacing, PutByWell,
           Prepared, NotTriedAgain, BrokenIsMarked, diskVars
  <1>5. CASE (\E w \in Works : AskReady(w))
    BY <1>5
       DEF AskReady, UpdatesInv, OnlyConnected, RunsWhatIsThere, Replacing, PutByWell,
           Prepared, NotTriedAgain, BrokenIsMarked, diskVars
  <1>6. CASE (\E w \in Works : HeldTooLong(w))
    BY <1>6
       DEF HeldTooLong, UpdatesInv, OnlyConnected, RunsWhatIsThere, Replacing, PutByWell,
           Prepared, NotTriedAgain, BrokenIsMarked, diskVars
  <1>7. CASE VmAccepted
    BY <1>7
       DEF VmAccepted, Confirmed, UpdatesInv, OnlyConnected, RunsWhatIsThere, Replacing,
           PutByWell, Prepared, NotTriedAgain, BrokenIsMarked
  <1>8. CASE VmDisconnected
    BY <1>8
       DEF VmDisconnected, Lost, UpdatesInv, OnlyConnected, RunsWhatIsThere, Replacing,
           PutByWell, Prepared, NotTriedAgain, BrokenIsMarked, diskVars
  <1>9. CASE TakeOffer
    BY <1>9
       DEF TakeOffer, UpdatesInv, OnlyConnected, RunsWhatIsThere, Replacing, PutByWell,
           Prepared, NotTriedAgain, BrokenIsMarked, diskVars
  <1>10. CASE SwapCli
    BY <1>10
       DEF SwapCli, UpdatesInv, OnlyConnected, RunsWhatIsThere, Replacing, PutByWell,
           Prepared, NotTriedAgain, BrokenIsMarked
  <1>11. CASE PutBy
    BY <1>11, UpdatesAssumption
       DEF PutBy, NeedsWinstond, UpdatesInv, TypeInv, VmTypes, OnlyConnected,
           RunsWhatIsThere, Replacing, PutByWell, Prepared, NotTriedAgain, BrokenIsMarked,
           Versions, Nothing
  <1>12. CASE SwapWinstond
    BY <1>12, UpdatesAssumption
       DEF SwapWinstond, UpdatesInv, OnlyConnected, RunsWhatIsThere, Replacing, PutByWell,
           Prepared, NotTriedAgain, BrokenIsMarked
  <1>13. CASE Applied
    BY <1>13
       DEF Applied, NotUpdating, UpdatesInv, OnlyConnected, RunsWhatIsThere, Replacing,
           PutByWell, Prepared, NotTriedAgain, BrokenIsMarked, diskVars
  <1>14. CASE ApplyFails
    BY <1>14
       DEF ApplyFails, NotUpdating, UpdatesInv, OnlyConnected, RunsWhatIsThere, Replacing,
           PutByWell, Prepared, NotTriedAgain, BrokenIsMarked, diskVars
  <1>15. CASE RestartForUpdate
    BY <1>15
       DEF RestartForUpdate, Down, Lost, NotUpdating, UpdatesInv, OnlyConnected,
           RunsWhatIsThere, PutByWell, Prepared, NotTriedAgain, BrokenIsMarked, diskVars
  <1>16. CASE VmCrashes
    BY <1>16
       DEF VmCrashes, Down, Lost, NotUpdating, UpdatesInv, OnlyConnected, RunsWhatIsThere,
           PutByWell, Prepared, NotTriedAgain, BrokenIsMarked, diskVars
  <1>17. CASE PlainStart
    BY <1>17, UpdatesAssumption
       DEF PlainStart, Started, RollsBack, UpdatesInv, TypeInv, UpdatesTypeOK, OnlyConnected,
           RunsWhatIsThere, Replacing, PutByWell, Prepared, NotTriedAgain, BrokenIsMarked
  <1>18. CASE Rollback
    BY <1>18, UpdatesAssumption
       DEF Rollback, Started, UpdatesInv, OnlyConnected, RunsWhatIsThere, Replacing,
           PutByWell, Prepared, NotTriedAgain, BrokenIsMarked, Nothing
  <1>19. CASE RollbackCutShort
    BY <1>19, UpdatesAssumption
       DEF RollbackCutShort, UpdatesInv, OnlyConnected, RunsWhatIsThere, PutByWell, Prepared,
           NotTriedAgain, BrokenIsMarked, Nothing
  <1>20. CASE UNCHANGED updateVars
    BY <1>20
       DEF updateVars, UpdatesInv, OnlyConnected, RunsWhatIsThere, Replacing, PutByWell,
           Prepared, NotTriedAgain, BrokenIsMarked, diskVars
  <1> QED
    BY <1>1, <1>2, <1>3, <1>4, <1>5, <1>6, <1>7, <1>8, <1>9, <1>10,
       <1>11, <1>12, <1>13, <1>14, <1>15, <1>16, <1>17, <1>18, <1>19, <1>20
       DEF UpdatesNext, GatewayUpdateStep, VmUpdateStep


LEMMA HeldStep ==
  ASSUME UpdatesInv, TypeInv', [UpdatesNext]_updateVars
  PROVE  HeldForTheCli'
  <1>1. CASE PublishVersion
    BY <1>1 DEF PublishVersion, UpdatesInv, HeldForTheCli
  <1>2. CASE Refresh
    BY <1>2
       DEF Refresh, UpdatesInv, TypeInv, UpdatesTypeOK, GatewayTypes, HeldForTheCli, Versions
  <1>3. CASE (\E report \in hellos : StoredHello(report))
    BY <1>3
       DEF StoredHello, Let, CliCurrent, TypeInv, UpdatesTypeOK, GatewayTypes, HeldForTheCli,
           Versions
  <1>4. CASE (\E v \in Versions : SendOffer(v))
    BY <1>4 DEF SendOffer, UpdatesInv, HeldForTheCli
  <1>5. CASE (\E w \in Works : AskReady(w))
    BY <1>5
       DEF AskReady, CliCurrent, UpdatesInv, TypeInv, UpdatesTypeOK, GatewayTypes,
           HeldForTheCli, Versions
  <1>6. CASE (\E w \in Works : HeldTooLong(w))
    BY <1>6 DEF HeldTooLong, UpdatesInv, HeldForTheCli
  <1>7. CASE VmAccepted
    BY <1>7 DEF VmAccepted, UpdatesInv, HeldForTheCli
  <1>8. CASE VmDisconnected
    BY <1>8 DEF VmDisconnected, Lost, HeldForTheCli
  <1>9. CASE TakeOffer
    BY <1>9 DEF TakeOffer, UpdatesInv, HeldForTheCli, gatewayUpdateVars
  <1>10. CASE SwapCli
    BY <1>10 DEF SwapCli, UpdatesInv, HeldForTheCli, gatewayUpdateVars
  <1>11. CASE PutBy
    BY <1>11 DEF PutBy, UpdatesInv, HeldForTheCli, gatewayUpdateVars
  <1>12. CASE SwapWinstond
    BY <1>12 DEF SwapWinstond, UpdatesInv, HeldForTheCli, gatewayUpdateVars
  <1>13. CASE Applied
    BY <1>13 DEF Applied, UpdatesInv, HeldForTheCli
  <1>14. CASE ApplyFails
    BY <1>14 DEF ApplyFails, UpdatesInv, HeldForTheCli, gatewayUpdateVars
  <1>15. CASE RestartForUpdate
    BY <1>15 DEF RestartForUpdate, Lost, UpdatesInv, HeldForTheCli
  <1>16. CASE VmCrashes
    BY <1>16 DEF VmCrashes, Lost, UpdatesInv, HeldForTheCli
  <1>17. CASE PlainStart
    BY <1>17 DEF PlainStart, UpdatesInv, HeldForTheCli, gatewayUpdateVars
  <1>18. CASE Rollback
    BY <1>18 DEF Rollback, UpdatesInv, HeldForTheCli, gatewayUpdateVars
  <1>19. CASE RollbackCutShort
    BY <1>19 DEF RollbackCutShort, UpdatesInv, HeldForTheCli, gatewayUpdateVars
  <1>20. CASE UNCHANGED updateVars
    BY <1>20 DEF updateVars, UpdatesInv, HeldForTheCli, gatewayUpdateVars
  <1> QED
    BY <1>1, <1>2, <1>3, <1>4, <1>5, <1>6, <1>7, <1>8, <1>9, <1>10,
       <1>11, <1>12, <1>13, <1>14, <1>15, <1>16, <1>17, <1>18, <1>19, <1>20
       DEF UpdatesNext, GatewayUpdateStep, VmUpdateStep


LEMMA Inductive == UpdatesInv /\ [UpdatesNext]_updateVars => UpdatesInv'
  <1> SUFFICES ASSUME UpdatesInv, [UpdatesNext]_updateVars
               PROVE  UpdatesInv'
    OBVIOUS
  <1>1. TypeInv'
    BY TypeStep DEF UpdatesInv
  <1>2. /\ (OnlyConnected /\ RunsWhatIsThere /\ PutByWell /\ Prepared)'
        /\ (NotTriedAgain /\ BrokenIsMarked)'
    BY <1>1, SwapStep
  <1>3. HeldForTheCli'
    BY <1>1, HeldStep
  <1> QED
    BY <1>1, <1>2, <1>3 DEF UpdatesInv

LEMMA Initially == UpdatesInit => UpdatesInv
  <1> SUFFICES ASSUME UpdatesInit
               PROVE  UpdatesInv
    OBVIOUS
  <1>1. TypeInv
    BY UpdatesAssumption, <<>> \in Seq(Versions)
       DEF UpdatesInit, TypeInv, UpdatesTypeOK, GatewayTypes, VmTypes, Versions, NotUpdating
  <1>2. OnlyConnected /\ RunsWhatIsThere /\ Prepared
    BY DEF UpdatesInit, OnlyConnected, RunsWhatIsThere, Prepared, NotUpdating
  <1>3. PutByWell /\ NotTriedAgain /\ BrokenIsMarked
    BY UpdatesAssumption DEF UpdatesInit, PutByWell, NotTriedAgain, BrokenIsMarked, Nothing
  <1>4. HeldForTheCli
    BY DEF UpdatesInit, HeldForTheCli
  <1> QED
    BY <1>1, <1>2, <1>3, <1>4 DEF UpdatesInv

LEMMA Invariance == UpdatesSpec => []UpdatesInv
  BY Initially, Inductive, PTL DEF UpdatesSpec

-----------------------------------------------------------------------------
\* The gateway's and the VM's state keep their types; above all, the pre-start script's
\* count of starts stays bounded and only a running winstond is ever connected.
THEOREM UpdatesTyped == UpdatesSpec => []UpdatesTypeOK
  <1>1. UpdatesInv => UpdatesTypeOK
    BY DEF UpdatesInv, TypeInv
  <1> QED
    BY <1>1, Invariance, PTL

\* However offers, connections, crashes and restarts interleave: a marked broken version
\* can be rolled back to one that works, a version that failed is not installed again, a
\* broken version keeps its marker unless the winstond it replaces removed it, and work
\* is held for no CLI that is known to be current.
THEOREM UpdatesAreKept == UpdatesSpec => []UpdatesKept
  <1>1. UpdatesInv => UpdatesKept
    BY DEF UpdatesInv, PutByWell, UpdatesKept, RollbackWorks
  <1> QED
    BY <1>1, Invariance, PTL

-----------------------------------------------------------------------------
(* Autopilot, for any page, any limits and any number of moves of the page.  AutopilotKept
   speaks of the moment of an input; what it rests on is what a run of act remembers at each
   of its points (Sound): the step under way was asked about if it commits (AskedFirst), its
   control is remembered as it was on the page that was read (AsItWas), its input is the
   last thing a decision does (InputLast), and each read without a decision leaves one step
   less to be tried again (ReadsCount).                                                   *)

ActPoints == {"off", "read", "turn", "pick", "chosen", "type", "check", "input", "settle", "over"}
Steady == {"type", "check", "input"}
Stops == {"none", "failed", "blocked", "max_time", "max_steps", "unavailable", "commits",
          "needs_value", "no_progress", "committed"} \cup Ends
Stepped == [from : Screens, control : PageControls, changed : BOOLEAN]
Picked == [choice : PickChoices \cup {NoChoice}, named : BOOLEAN, by : {NoChoice, "jev", "picker"},
           was : 0 .. 1]
Decided == [choice : PickChoices \cup {NoChoice}, commits : PageControls \cup {NoChoice},
            sure : BOOLEAN]
ActRuns == [pc : ActPoints, seen : Screens, commit : BOOLEAN, jevOff : BOOLEAN, jev : Decided,
            pick : Picked, again : BOOLEAN, carried : Picked, staleEnd : Ends \cup {NoChoice},
            history : Seq(Stepped), decisions : Nat, reads : Nat, jevPicks : Nat, acted : BOOLEAN,
            inputs : Nat, committed : Nat, stop : Stops]

\* A run keeps to its limits, and a step under way has room in the history.
WithinLimits(r) ==
    /\ r.decisions <= MostDecisions /\ (r.pc = "pick" => r.decisions < MostDecisions)
    /\ Len(r.history) <= MaxSteps /\ (r.pc \in Steady => Len(r.history) < MaxSteps)

\* A step is taken of a control, and what is carried over is one.
OfControls(r) ==
    /\ r.pc \in Steady \cup {"settle"} => r.pick.choice \in PageControls
    /\ r.carried = NoPick \/ r.carried.choice \in PageControls
    /\ r.pc \in Steady \cup {"chosen", "settle"} => r.carried = NoPick

\* A named step passed the question; the one that commits ends the run.
AskedFirst(r) ==
    /\ r.committed = 0 \/ (r.pc = "over" /\ r.commit /\ r.committed = 1)
    /\ r.pc \in Steady /\ r.pick.named => r.commit

\* The input of a decision comes with the settling after it, or the end.
InputLast(r) ==
    /\ r.inputs <= 1
    /\ r.pc \notin {"settle", "over"} => r.inputs = 0

\* A step remembers its control as it was on the page that was read.
AsItWas(r) ==
    (r.pc \in Steady \cup {"chosen"} /\ r.pick.choice \in PageControls)
        => r.pick.was = r.seen.control[r.pick.choice]

\* Reads since the last decision: one for it, one for the step tried again.
ReadsCount(r) ==
    /\ r.pc \in {"off", "over"} => r.reads = 0
    /\ r.pc = "read" => r.reads <= IF r.carried = NoPick THEN 1 ELSE 0
    /\ r.pc = "turn" => r.reads <= IF r.carried = NoPick THEN 2 ELSE 1
    /\ r.pc = "pick" => r.reads <= 2
    /\ r.pc \in Steady \cup {"chosen", "settle"} => r.reads <= IF r.again THEN 1 ELSE 0

Sound(r) ==
    /\ r \in ActRuns
    /\ WithinLimits(r) /\ OfControls(r) /\ AskedFirst(r) /\ InputLast(r) /\ AsItWas(r)
    /\ ReadsCount(r)

\* Right before the input its control is as it was judged, unless the page slipped.
StillSo(r, s, late) ==
    r.pc = "input" /\ ~late => s.control[r.pick.choice] = r.seen.control[r.pick.choice]

AutopilotInv ==
    /\ screen \in Screens /\ slipped \in BOOLEAN
    /\ Sound(act) /\ StillSo(act, screen, slipped)

LEMMA ScreenFacts ==
    /\ BlankScreen \in Screens
    /\ \A s \in Screens : Changed(s) \subseteq Screens
  <1>1. BlankScreen \in Screens
    BY DEF BlankScreen, Screens
  <1>2. ASSUME NEW s \in Screens, NEW t \in Changed(s)
        PROVE  t \in Screens
    <2>1. CASE t = [s EXCEPT !.text = 1 - @]
      BY <2>1 DEF Screens
    <2>2. ASSUME NEW c \in PageControls, t = [s EXCEPT !.control[c] = 1 - @]
          PROVE  t \in Screens
      BY <2>2 DEF Screens
    <2> QED BY <1>2, <2>1, <2>2 DEF Changed
  <1> QED BY <1>1, <1>2

LEMMA RestFacts ==
    /\ NoPick \in Picked /\ NoDecision \in Decided /\ NotActing \in ActRuns
    /\ MostDecisions \in Nat
  <1>1. NoPick \in Picked /\ NoDecision \in Decided
    BY DEF NoPick, Picked, NoDecision, Decided
  <1>2. <<>> \in Seq(Stepped)
    OBVIOUS
  <1>3. MostDecisions \in Nat
    BY AutopilotAssumption DEF MostDecisions
  <1> QED
    BY <1>1, <1>2, <1>3, ScreenFacts DEF NotActing, ActRuns, ActPoints, Stops

\* However a run ends, what is left of it is sound.
LEMMA StoppedIsSound ==
    ASSUME NEW run \in ActRuns, NEW stop \in Stops, Stopped(run, stop), run.inputs <= 1,
           run.committed = 0 \/ (run.commit /\ run.committed = 1)
    PROVE  Sound(act') /\ act'.pc = "over"
  <1>1. act' = [NotActing EXCEPT !.pc = "over", !.stop = stop, !.inputs = run.inputs,
                                 !.committed = run.committed, !.commit = run.commit]
    BY DEF Stopped
  <1>2. act' \in ActRuns
    BY <1>1, RestFacts DEF ActRuns, ActPoints
  <1>3. /\ act'.pc = "over" /\ act'.inputs = run.inputs /\ act'.committed = run.committed
        /\ act'.commit = run.commit /\ act'.decisions = 0 /\ act'.history = <<>>
        /\ act'.reads = 0 /\ act'.carried = NoPick
    BY <1>1 DEF NotActing
  <1> QED
    BY <1>2, <1>3, RestFacts, AutopilotAssumption
       DEF Sound, WithinLimits, OfControls, AskedFirst, InputLast, AsItWas, ReadsCount, Steady

\* A run that is not over may end as it is.
LEMMA MayStop ==
    ASSUME AutopilotInv, act.pc # "over", NEW stop \in Stops, Stopped(act, stop)
    PROVE  Sound(act') /\ act'.pc = "over"
  BY StoppedIsSound DEF AutopilotInv, Sound, AskedFirst, InputLast

\* What Jev and the picker say are decisions.
LEMMA PickFacts ==
    ASSUME NEW d \in Decided, act \in ActRuns
    PROVE  /\ OfJev(d) \in Picked
           /\ OfJev(d).choice = d.choice
           /\ d.choice \in PageControls => OfJev(d).was = act.seen.control[d.choice]
  <1>1. PICK named \in BOOLEAN : named <=> d.commits = d.choice
    OBVIOUS
  <1>2. PICK was \in 0 .. 1 : was = IF d.choice \in PageControls THEN act.seen.control[d.choice] ELSE 0
    BY DEF ActRuns, Screens
  <1>3. OfJev(d) = [choice |-> d.choice, named |-> named, by |-> "jev", was |-> was]
    BY <1>1, <1>2 DEF OfJev
  <1> QED
    BY <1>2, <1>3 DEF Picked, Decided

LEMMA PickerFacts ==
    ASSUME NEW p \in PickerPicks, act \in ActRuns
    PROVE  /\ OfPicker(p) \in Picked
           /\ OfPicker(p).choice = p.choice
           /\ p.choice \in PageControls => OfPicker(p).was = act.seen.control[p.choice]
  <1>1. PICK named \in BOOLEAN :
           named <=> (p.choice \in PageControls /\ NamedBy(act.jev, p.choice, p.commits))
    OBVIOUS
  <1>2. PICK was \in 0 .. 1 : was = IF p.choice \in PageControls THEN act.seen.control[p.choice] ELSE 0
    BY DEF ActRuns, Screens
  <1>3. OfPicker(p) = [choice |-> p.choice, named |-> named, by |-> "picker", was |-> was]
    BY <1>1, <1>2 DEF OfPicker
  <1> QED
    BY <1>2, <1>3 DEF Picked, PickerPicks

\* A decision is a new beginning: no input yet, and no read spent.
LEMMA ChoseIsSound ==
    ASSUME AutopilotInv, act.pc \in {"turn", "pick"}, act.decisions < MostDecisions,
           NEW pick \in Picked,
           pick.choice \in PageControls => pick.was = act.seen.control[pick.choice]
    PROVE  Sound(Chose(pick)) /\ Chose(pick).pc = "chosen"
  <1> DEFINE new == Chose(pick)
  <1>1. PICK n \in Nat : n = IF pick.by = "jev" THEN act.jevPicks + 1 ELSE act.jevPicks
    BY DEF AutopilotInv, Sound, ActRuns
  <1>2. act \in ActRuns /\ act.decisions \in Nat
    BY DEF AutopilotInv, Sound, ActRuns
  <1>3. PICK d \in Nat : d = act.decisions + 1
    BY <1>2
  <1> DEFINE tried == [act EXCEPT !.pc = "chosen", !.pick = pick, !.again = FALSE, !.carried = NoPick]
  <1>4. new = [tried EXCEPT !.jev = NoDecision, !.decisions = d, !.reads = 0, !.inputs = 0,
                            !.jevPicks = n]
    BY <1>1, <1>3 DEF Chose
  <1>5. /\ tried \in ActRuns
        /\ tried.pc = "chosen" /\ tried.pick = pick /\ tried.again = FALSE /\ tried.carried = NoPick
        /\ tried.history = act.history /\ tried.committed = act.committed /\ tried.seen = act.seen
        /\ tried.commit = act.commit
    BY <1>2, RestFacts DEF ActRuns, ActPoints
  <1> HIDE DEF tried, new
  <1>6. new \in ActRuns
    BY <1>4, <1>5, RestFacts DEF ActRuns
  <1>7. /\ new.pc = "chosen" /\ new.pick = pick /\ new.again = FALSE /\ new.carried = NoPick
        /\ new.decisions = act.decisions + 1 /\ new.reads = 0 /\ new.inputs = 0
        /\ new.history = act.history /\ new.committed = act.committed /\ new.seen = act.seen
        /\ new.commit = act.commit
    BY <1>3, <1>4, <1>5 DEF ActRuns
  <1>8. act.committed = 0 /\ Len(act.history) <= MaxSteps
    BY DEF AutopilotInv, Sound, AskedFirst, WithinLimits
  <1>9. new.decisions <= MostDecisions
    BY <1>2, <1>7, RestFacts
  <1>10. Sound(new)
    BY <1>7, <1>8, <1>9, <1>6
       DEF Sound, WithinLimits, OfControls, AskedFirst, InputLast, AsItWas, ReadsCount, Steady
  <1> QED
    BY <1>7, <1>10 DEF new

LEMMA AsksPickerIsSound ==
    ASSUME AutopilotInv, MayDecide, NEW d \in Decided
    PROVE  Sound(AsksPicker(d)) /\ AsksPicker(d).pc = "pick"
  <1> DEFINE new == AsksPicker(d)
  <1>1. new = [act EXCEPT !.pc = "pick", !.jev = d, !.carried = NoPick]
    BY DEF AsksPicker
  <1>2. act \in ActRuns /\ act.pc = "turn" /\ act.decisions < MostDecisions
    BY DEF AutopilotInv, Sound, MayDecide
  <1>3. new \in ActRuns
    BY <1>1, <1>2, RestFacts DEF ActRuns, ActPoints
  <1>4. /\ new.pc = "pick" /\ new.carried = NoPick /\ new.decisions = act.decisions
        /\ new.history = act.history /\ new.committed = act.committed /\ new.inputs = act.inputs
        /\ new.reads = act.reads
    BY <1>1, <1>2 DEF ActRuns
  <1> HIDE DEF new
  <1>5. /\ act.committed = 0 /\ act.inputs = 0 /\ act.reads <= 2 /\ act.reads \in Nat
        /\ Len(act.history) <= MaxSteps
    BY <1>2 DEF AutopilotInv, Sound, WithinLimits, AskedFirst, InputLast, ReadsCount, ActRuns
  <1>6. new.decisions <= MostDecisions
    BY <1>2, <1>4, RestFacts DEF ActRuns
  <1>7. Sound(new)
    BY <1>2, <1>3, <1>4, <1>5, <1>6
       DEF Sound, WithinLimits, OfControls, AskedFirst, InputLast, AsItWas, ReadsCount, Steady
  <1> QED
    BY <1>4, <1>7 DEF new

\* A step that found its page moved on: nothing was done, and it is tried once more.
LEMMA LooksAgainIsSound ==
    ASSUME AutopilotInv, act.pc \in Steady
    PROVE  Sound(LooksAgain(act)) /\ LooksAgain(act).pc = "read"
  <1> DEFINE new == LooksAgain(act)
  <1>1. act \in ActRuns
    BY DEF AutopilotInv, Sound
  <1>2. PICK carried \in Picked : carried = IF act.again THEN NoPick ELSE act.pick
    BY <1>1, RestFacts DEF ActRuns
  <1>3. new = [act EXCEPT !.pc = "read", !.carried = carried, !.seen = BlankScreen, !.pick = NoPick]
    BY <1>2 DEF LooksAgain
  <1>4. new \in ActRuns
    BY <1>1, <1>3, RestFacts, ScreenFacts DEF ActRuns, ActPoints
  <1>5. /\ new.pc = "read" /\ new.carried = carried /\ new.decisions = act.decisions
        /\ new.history = act.history /\ new.committed = act.committed /\ new.inputs = act.inputs
        /\ new.reads = act.reads
    BY <1>1, <1>3 DEF ActRuns
  <1> HIDE DEF new
  <1>6. /\ act.committed = 0 /\ act.inputs = 0 /\ act.reads \in Nat
        /\ act.reads <= IF act.again THEN 1 ELSE 0
        /\ Len(act.history) <= MaxSteps /\ act.decisions <= MostDecisions
        /\ act.pick.choice \in PageControls
    BY DEF AutopilotInv, Sound, WithinLimits, AskedFirst, InputLast, ReadsCount, ActRuns, OfControls,
           Steady
  <1>7. carried = NoPick \/ carried.choice \in PageControls
    BY <1>2, <1>6
  <1>8. new.reads <= IF carried = NoPick THEN 1 ELSE 0
    BY <1>1, <1>2, <1>5, <1>6 DEF ActRuns
  <1>9. Sound(new)
    BY <1>4, <1>5, <1>6, <1>7, <1>8
       DEF Sound, WithinLimits, OfControls, AskedFirst, InputLast, AsItWas, ReadsCount, Steady
  <1> QED
    BY <1>5, <1>9 DEF new

\* An input is one, and is put down; the run that had it may stop there.
LEMMA GotInputFacts ==
    ASSUME AutopilotInv, act.pc = "input"
    PROVE  /\ GotInput(act) \in ActRuns
           /\ GotInput(act).inputs = 1 /\ GotInput(act).pick = act.pick
           /\ GotInput(act).pc = "input" /\ GotInput(act).reads = act.reads
           /\ GotInput(act).decisions = act.decisions
           /\ GotInput(act).carried = NoPick /\ GotInput(act).again = act.again
           /\ GotInput(act).committed = IF act.pick.named THEN 1 ELSE 0
           /\ act.pick.named => GotInput(act).commit
           /\ Len(GotInput(act).history) <= MaxSteps
  <1> DEFINE new == GotInput(act)
             step == [from |-> act.seen, control |-> act.pick.choice, changed |-> FALSE]
  <1>1. /\ act \in ActRuns /\ act.inputs = 0 /\ act.committed = 0
        /\ act.pick.choice \in PageControls /\ Len(act.history) < MaxSteps
        /\ act.pick.named => act.commit
        /\ act.carried = NoPick
    BY DEF AutopilotInv, Sound, AskedFirst, InputLast, OfControls, WithinLimits, Steady
  <1>2. PICK n \in 0 .. 1 : n = IF act.pick.named THEN 1 ELSE 0
    OBVIOUS
  <1>3. step \in Stepped
    BY <1>1 DEF ActRuns, Stepped
  <1>4. /\ Append(act.history, step) \in Seq(Stepped)
        /\ Len(Append(act.history, step)) = Len(act.history) + 1
    BY <1>1, <1>3 DEF ActRuns
  <1>5. new = [act EXCEPT !.inputs = 1, !.committed = n, !.history = Append(act.history, step)]
    BY <1>1, <1>2 DEF GotInput
  <1> HIDE DEF step
  <1>6. Len(act.history) \in Nat
    BY <1>1 DEF ActRuns
  <1> HIDE DEF new
  <1>7. new \in ActRuns
    BY <1>1, <1>2, <1>4, <1>5 DEF ActRuns
  <1>8. /\ new.inputs = 1 /\ new.pick = act.pick /\ new.pc = "input" /\ new.reads = act.reads
        /\ new.decisions = act.decisions /\ new.carried = NoPick /\ new.again = act.again
        /\ new.committed = n /\ new.commit = act.commit
        /\ new.history = Append(act.history, step)
    BY <1>1, <1>5 DEF ActRuns
  <1>9. Len(new.history) <= MaxSteps
    BY <1>1, <1>4, <1>6, <1>8, AutopilotAssumption
  <1> QED
    BY <1>1, <1>2, <1>7, <1>8, <1>9 DEF new

\* A turn's step that leaves the page alone, or is through with its input.
LEMMA StepIsSound ==
    ASSUME AutopilotInv, Sound(act'), act'.pc # "input", screen' \in Screens,
           slipped' = slipped \/ slipped' = FALSE
    PROVE  AutopilotInv'
  BY DEF AutopilotInv, StillSo

\* Reading the page, and what keeps a turn from deciding.
LEMMA ReadInvariant ==
    ASSUME AutopilotInv, ReadsPage \/ Unreadable \/ PageAsks \/ OutOfTime \/ Retries
    PROVE  AutopilotInv'
  <1>1. act \in ActRuns /\ screen \in Screens
    BY DEF AutopilotInv, Sound
  <1>2. ASSUME ReadsPage
        PROVE  Sound(act') /\ act'.pc # "input"
    <2>1. act.pc = "read" /\ act.reads \in Nat
      BY <1>1, <1>2 DEF ReadsPage, ActRuns
    <2>2. PICK n \in Nat : n = act.reads + 1
      BY <2>1
    <2>3. act' = [act EXCEPT !.pc = "turn", !.seen = screen, !.reads = n]
      BY <1>2, <2>2 DEF ReadsPage, Goes
    <2>4. act' \in ActRuns
      BY <1>1, <2>3 DEF ActRuns, ActPoints
    <2>5. /\ act'.pc = "turn" /\ act'.reads = act.reads + 1 /\ act'.carried = act.carried
          /\ act'.decisions = act.decisions /\ act'.history = act.history
          /\ act'.committed = act.committed /\ act'.inputs = act.inputs
      BY <1>1, <2>2, <2>3 DEF ActRuns
    <2>6. act'.reads <= IF act.carried = NoPick THEN 2 ELSE 1
      BY <2>1, <2>5 DEF AutopilotInv, Sound, ReadsCount
    <2> QED
      BY <2>1, <2>4, <2>5, <2>6
         DEF AutopilotInv, Sound, WithinLimits, OfControls, AskedFirst, InputLast, AsItWas,
             ReadsCount, Steady
  <1>3. ASSUME Unreadable \/ PageAsks \/ OutOfTime
        PROVE  Sound(act') /\ act'.pc # "input"
    <2>1. act.pc # "over" /\ \E stop \in Stops : Stopped(act, stop)
      BY <1>3 DEF Unreadable, PageAsks, OutOfTime, Stops
    <2> QED
      BY <2>1, MayStop
  <1>4. ASSUME Retries
        PROVE  Sound(act') /\ act'.pc # "input"
    <2>1. /\ act.pc = "turn" /\ act.decisions < MostDecisions
          /\ act.carried # NoPick /\ act.seen.control[act.carried.choice] = act.carried.was
      BY <1>4 DEF Retries, StillThere
    <2>2. act' = [act EXCEPT !.pc = "chosen", !.pick = act.carried, !.again = TRUE,
                             !.carried = NoPick]
      BY <1>4 DEF Retries, Goes
    <2>3. act' \in ActRuns
      BY <1>1, <2>2, RestFacts DEF ActRuns, ActPoints
    <2>4. /\ act'.pc = "chosen" /\ act'.reads = act.reads /\ act'.carried = NoPick
          /\ act'.pick = act.carried /\ act'.again = TRUE /\ act'.seen = act.seen
          /\ act'.decisions = act.decisions /\ act'.history = act.history
          /\ act'.committed = act.committed /\ act'.inputs = act.inputs
      BY <1>1, <2>2 DEF ActRuns
    <2>5. act.reads <= 1
      BY <2>1 DEF AutopilotInv, Sound, ReadsCount
    <2> QED
      BY <2>1, <2>3, <2>4, <2>5
         DEF AutopilotInv, Sound, WithinLimits, OfControls, AskedFirst, InputLast, AsItWas,
             ReadsCount, Steady
  <1>5. UNCHANGED <<screen, slipped>>
    BY DEF ReadsPage, Unreadable, PageAsks, OutOfTime, Retries
  <1> QED
    BY <1>1, <1>2, <1>3, <1>4, <1>5, StepIsSound

\* Jev and the step picker.
LEMMA DecideInvariant ==
    ASSUME AutopilotInv, JevAnswers \/ JevFails \/ SkipsJev \/ PickerAnswers \/ PickerFails
    PROVE  AutopilotInv'
  <1>1. act \in ActRuns /\ screen \in Screens
    BY DEF AutopilotInv, Sound
  <1>2. \A d \in Decisions : d \in Decided
    BY DEF Decisions, Decided
  <1>3. ASSUME NEW d \in Decided, Goes(Chose(OfJev(d))), act.pc \in {"turn", "pick"},
               act.decisions < MostDecisions
        PROVE  Sound(act') /\ act'.pc # "input"
    <2>1. act' = Chose(OfJev(d))
      BY <1>3 DEF Goes
    <2> QED
      BY <1>1, <1>3, <2>1, PickFacts, ChoseIsSound
  <1>4. ASSUME NEW d \in Decided, MayDecide, Goes(AsksPicker(d))
        PROVE  Sound(act') /\ act'.pc # "input"
    <2>1. act' = AsksPicker(d)
      BY <1>4 DEF Goes
    <2> QED
      BY <1>4, <2>1, AsksPickerIsSound
  <1>5. ASSUME JevAnswers
        PROVE  Sound(act') /\ act'.pc # "input"
    <2>1. PICK d \in Decisions : Goes(IF NeedsPicker(d) THEN AsksPicker(d) ELSE Chose(OfJev(d)))
      BY <1>5 DEF JevAnswers
    <2>2. Goes(AsksPicker(d)) \/ Goes(Chose(OfJev(d)))
      BY <2>1
    <2>3. MayDecide
      BY <1>5 DEF JevAnswers
    <2> QED
      BY <1>2, <1>3, <1>4, <2>2, <2>3 DEF MayDecide
  <1>6. ASSUME JevFails \/ SkipsJev
        PROVE  Sound(act') /\ act'.pc # "input"
    BY <1>4, <1>6, RestFacts DEF JevFails, SkipsJev
  <1>7. act.pc = "pick" => act.decisions < MostDecisions
    BY DEF AutopilotInv, Sound, WithinLimits
  <1>8. ASSUME PickerAnswers
        PROVE  Sound(act') /\ act'.pc # "input"
    <2>1. PICK p \in PickerPicks : Goes(Chose(OfPicker(p)))
      BY <1>8 DEF PickerAnswers
    <2>2. act.pc = "pick" /\ act' = Chose(OfPicker(p))
      BY <1>8, <2>1 DEF PickerAnswers, Goes
    <2> QED
      BY <1>1, <1>7, <2>2, PickerFacts, ChoseIsSound
  <1>9. ASSUME PickerFails
        PROVE  Sound(act') /\ act'.pc # "input"
    <2>1. act.pc = "pick" /\ act.jev \in Decided
      BY <1>1, <1>9 DEF PickerFails, ActRuns
    <2>2. \/ Goes(Chose(OfJev(act.jev)))
          \/ \E d \in Decisions : Goes(Chose(OfJev(d)))
          \/ Stopped(act, "unavailable")
      BY <1>9 DEF PickerFails
    <2>3. CASE Stopped(act, "unavailable")
      BY <2>1, <2>3, MayStop DEF Stops
    <2> QED
      BY <1>2, <1>3, <1>7, <2>1, <2>2, <2>3
  <1>10. UNCHANGED <<screen, slipped>>
    BY DEF JevAnswers, JevFails, SkipsJev, PickerAnswers, PickerFails
  <1> QED
    BY <1>1, <1>5, <1>6, <1>8, <1>9, <1>10, StepIsSound

\* A choice is taken up: an end is said, or a step begins.
LEMMA ChosenInvariant ==
    ASSUME AutopilotInv, SaysEnd \/ TakesStep
    PROVE  AutopilotInv'
  <1>1. act \in ActRuns /\ screen \in Screens /\ act.pc = "chosen"
    BY DEF AutopilotInv, Sound, SaysEnd, TakesStep
  <1>2. ASSUME SaysEnd
        PROVE  Sound(act') /\ act'.pc # "input"
    <2>1. act.pick.choice \in Ends
      BY <1>2 DEF SaysEnd
    <2>2. CASE Stopped(act, act.pick.choice)
      BY <1>1, <2>1, <2>2, MayStop DEF Stops
    <2>3. CASE Goes([act EXCEPT !.pc = "read", !.staleEnd = act.pick.choice, !.seen = BlankScreen,
                                !.pick = NoPick])
      <3>1. act' = [act EXCEPT !.pc = "read", !.staleEnd = act.pick.choice, !.seen = BlankScreen,
                               !.pick = NoPick]
        BY <2>3 DEF Goes
      <3>2. act' \in ActRuns
        BY <1>1, <2>1, <3>1, RestFacts, ScreenFacts DEF ActRuns, ActPoints
      <3>3. /\ act'.pc = "read" /\ act'.reads = act.reads /\ act'.carried = act.carried
            /\ act'.decisions = act.decisions /\ act'.history = act.history
            /\ act'.committed = act.committed /\ act'.inputs = act.inputs
        BY <1>1, <3>1 DEF ActRuns
      <3>4. act.reads \in Nat /\ act.reads <= 1 /\ act.carried = NoPick
        BY <1>1 DEF AutopilotInv, Sound, ReadsCount, OfControls, ActRuns
      <3> QED
        BY <1>1, <3>2, <3>3, <3>4
           DEF AutopilotInv, Sound, WithinLimits, OfControls, AskedFirst, InputLast, AsItWas,
               ReadsCount, Steady
    <2> QED
      BY <1>2, <2>2, <2>3 DEF SaysEnd
  <1>3. ASSUME TakesStep
        PROVE  Sound(act') /\ act'.pc # "input"
    <2>1. act.pick.choice \in PageControls
      BY <1>3 DEF TakesStep
    <2>2. CASE Stopped(act, "commits") \/ Stopped(act, "max_steps")
      BY <1>1, <2>2, MayStop DEF Stops
    <2>3. ASSUME ~WouldCommit, ~(Len(act.history) >= MaxSteps),
                 Goes([act EXCEPT !.pc = IF act.pick.choice \in Fields THEN "type" ELSE "check",
                                  !.staleEnd = NoChoice])
          PROVE  Sound(act') /\ act'.pc # "input"
      <3>1. PICK pc \in {"type", "check"} :
               pc = IF act.pick.choice \in Fields THEN "type" ELSE "check"
        OBVIOUS
      <3>2. act' = [act EXCEPT !.pc = pc, !.staleEnd = NoChoice]
        BY <2>3, <3>1 DEF Goes
      <3>3. act' \in ActRuns
        BY <1>1, <3>2 DEF ActRuns, ActPoints
      <3>4. /\ act'.pc = pc /\ act'.reads = act.reads /\ act'.carried = act.carried
            /\ act'.decisions = act.decisions /\ act'.history = act.history
            /\ act'.committed = act.committed /\ act'.inputs = act.inputs
            /\ act'.pick = act.pick /\ act'.seen = act.seen /\ act'.again = act.again
            /\ act'.commit = act.commit
        BY <1>1, <3>2 DEF ActRuns
      <3>5. act.pick.named => act.commit
        BY <2>3 DEF WouldCommit
      <3>6. Len(act.history) < MaxSteps
        BY <1>1, <2>3, AutopilotAssumption DEF ActRuns
      <3> QED
        BY <1>1, <2>1, <3>1, <3>3, <3>4, <3>5, <3>6
           DEF AutopilotInv, Sound, WithinLimits, OfControls, AskedFirst, InputLast, AsItWas,
               ReadsCount, Steady
    <2> QED
      BY <1>3, <2>2, <2>3 DEF TakesStep
  <1>4. UNCHANGED <<screen, slipped>>
    BY DEF SaysEnd, TakesStep
  <1> QED
    BY <1>1, <1>2, <1>3, <1>4, StepIsSound

\* A step goes on to the next of its points, everything else as it was.
LEMMA GoesOnIsSound ==
    ASSUME AutopilotInv, act.pc \in Steady, NEW pc \in Steady, act' = [act EXCEPT !.pc = pc]
    PROVE  Sound(act') /\ act'.pc = pc /\ act'.pick = act.pick /\ act'.seen = act.seen
  <1>1. act \in ActRuns
    BY DEF AutopilotInv, Sound
  <1>2. act' \in ActRuns
    BY <1>1 DEF ActRuns, ActPoints, Steady
  <1>3. /\ act'.pc = pc /\ act'.reads = act.reads /\ act'.carried = act.carried
        /\ act'.decisions = act.decisions /\ act'.history = act.history
        /\ act'.committed = act.committed /\ act'.inputs = act.inputs
        /\ act'.pick = act.pick /\ act'.seen = act.seen /\ act'.again = act.again
        /\ act'.commit = act.commit
    BY <1>1 DEF ActRuns
  <1> QED
    BY <1>2, <1>3
       DEF AutopilotInv, Sound, WithinLimits, OfControls, AskedFirst, InputLast, AsItWas,
           ReadsCount, Steady

\* The text of a field, and the check right before the input.
LEMMA CheckInvariant ==
    ASSUME AutopilotInv, WritesText \/ ChecksPage
    PROVE  AutopilotInv'
  <1>1. act \in ActRuns /\ screen \in Screens /\ act.pc \in {"type", "check"}
    BY DEF AutopilotInv, Sound, WritesText, ChecksPage
  <1>2. UNCHANGED <<screen, slipped>>
    BY DEF WritesText, ChecksPage
  <1>3. ASSUME NEW stop \in Stops, Stopped(act, stop)
        PROVE  AutopilotInv'
    BY <1>1, <1>2, <1>3, MayStop, StepIsSound
  <1>4. ASSUME Goes(LooksAgain(act))
        PROVE  AutopilotInv'
    <2>1. act' = LooksAgain(act)
      BY <1>4 DEF Goes
    <2> QED
      BY <1>1, <1>2, <2>1, LooksAgainIsSound, StepIsSound DEF Steady
  <1>5. CASE WritesText
    <2>1. ASSUME Goes([act EXCEPT !.pc = "check"])
          PROVE  AutopilotInv'
      <3>1. act' = [act EXCEPT !.pc = "check"]
        BY <2>1 DEF Goes
      <3> QED
        BY <1>1, <1>2, <3>1, GoesOnIsSound, StepIsSound DEF Steady
    <2>2. Texts \subseteq {"given"} \cup Stops
      BY DEF Texts, Stops
    <2> QED
      BY <1>3, <1>4, <1>5, <2>1, <2>2 DEF WritesText
  <1>6. CASE ChecksPage
    <2>1. ASSUME FreshFor(act.pick.choice, act.again), Goes([act EXCEPT !.pc = "input"])
          PROVE  AutopilotInv'
      <3>1. act' = [act EXCEPT !.pc = "input"]
        BY <2>1 DEF Goes
      <3>2. Sound(act') /\ act'.pc = "input" /\ act'.pick = act.pick /\ act'.seen = act.seen
        BY <1>1, <3>1, GoesOnIsSound DEF Steady
      <3>3. screen.control[act.pick.choice] = act.seen.control[act.pick.choice]
        <4>1. CASE screen = act.seen
          BY <4>1
        <4>2. CASE Guards(screen, act.pick.choice, act.again) = Guards(act.seen, act.pick.choice, act.again)
          BY <4>2 DEF Guards
        <4> QED
          BY <2>1, <4>1, <4>2 DEF FreshFor
      <3> QED
        BY <1>2, <3>2, <3>3 DEF AutopilotInv, StillSo
    <2> QED
      BY <1>3, <1>4, <1>6, <2>1 DEF ChecksPage, Stops
  <1> QED
    BY <1>5, <1>6

\* The input.
LEMMA InputInvariant ==
    ASSUME AutopilotInv, TargetLost \/ SelectCutShort \/ DoesStep
    PROVE  AutopilotInv'
  <1>1. /\ act \in ActRuns /\ screen \in Screens /\ act.pc = "input"
        /\ act.inputs = 0 /\ act.committed = 0
    BY DEF AutopilotInv, Sound, AskedFirst, InputLast, TargetLost, SelectCutShort, DoesStep
  <1>2. slipped' = FALSE /\ screen' \in Screens
    BY <1>1, ScreenFacts DEF TargetLost, SelectCutShort, DoesStep
  <1>3. ASSUME NEW run \in ActRuns, run = act \/ run = GotInput(act),
               NEW stop \in Stops, Stopped(run, stop)
        PROVE  AutopilotInv'
    <2>1. run.inputs <= 1 /\ (run.committed = 0 \/ (run.commit /\ run.committed = 1))
      BY <1>1, <1>3, GotInputFacts
    <2> QED
      BY <1>2, <1>3, <2>1, StoppedIsSound, StepIsSound
  <1>4. ASSUME Goes(LooksAgain(act))
        PROVE  AutopilotInv'
    <2>1. act' = LooksAgain(act)
      BY <1>4 DEF Goes
    <2> QED
      BY <1>1, <1>2, <2>1, LooksAgainIsSound, StepIsSound DEF Steady
  <1>5. CASE TargetLost
    BY <1>1, <1>3, <1>4, <1>5 DEF TargetLost, Stops
  <1>6. CASE SelectCutShort
    <2>1. PICK run \in {act, GotInput(act)} : Stopped(run, "failed")
      BY <1>6 DEF SelectCutShort, MayRetry
    <2> QED
      BY <1>1, <1>3, <2>1, GotInputFacts DEF Stops
  <1>7. CASE DoesStep
    <2> DEFINE run == GotInput(act)
    <2>1. IF run.pick.named THEN Stopped(run, "committed")
          ELSE Goes([run EXCEPT !.pc = "settle", !.acted = TRUE])
      BY <1>7 DEF DoesStep
    <2>2. CASE Stopped(run, "committed")
      BY <1>1, <1>3, <2>2, GotInputFacts DEF Stops
    <2>3. CASE ~run.pick.named /\ Goes([run EXCEPT !.pc = "settle", !.acted = TRUE])
      <3>1. /\ run \in ActRuns /\ run.inputs = 1 /\ run.pick = act.pick /\ run.reads = act.reads
            /\ run.decisions = act.decisions /\ run.carried = NoPick /\ run.again = act.again
            /\ run.committed = 0 /\ Len(run.history) <= MaxSteps
        BY <1>1, <2>3, GotInputFacts
      <3> HIDE DEF run
      <3>2. act' = [run EXCEPT !.pc = "settle", !.acted = TRUE]
        BY <2>3 DEF Goes
      <3>3. act' \in ActRuns
        BY <3>1, <3>2 DEF ActRuns, ActPoints
      <3>4. /\ act'.pc = "settle" /\ act'.inputs = 1 /\ act'.pick = act.pick
            /\ act'.reads = act.reads /\ act'.decisions = act.decisions
            /\ act'.carried = NoPick /\ act'.again = act.again /\ act'.committed = 0
            /\ act'.history = run.history
        BY <3>1, <3>2 DEF ActRuns
      <3>5. Sound(act')
        BY <1>1, <3>1, <3>3, <3>4
           DEF AutopilotInv, Sound, WithinLimits, OfControls, AskedFirst, InputLast, AsItWas,
               ReadsCount, Steady
      <3> QED
        BY <1>2, <3>4, <3>5, StepIsSound
    <2> QED
      BY <2>1, <2>2, <2>3
  <1> QED
    BY <1>5, <1>6, <1>7

\* An entry of a sequence is replaced; of an empty one there is none.
LEMMA Replaced ==
    ASSUME NEW S, NEW q \in Seq(S), NEW e, NEW n \in Nat, n # 0 => e \in S,
           n \in 0 .. Len(q)
    PROVE  [q EXCEPT ![n] = e] \in Seq(S) /\ Len([q EXCEPT ![n] = e]) = Len(q)
  <1>1. PICK m \in Nat : Len(q) = m /\ DOMAIN q = 1 .. m
    OBVIOUS
  <1> DEFINE new == [q EXCEPT ![n] = e]
  <1>2. DOMAIN new = 1 .. m /\ new = [i \in 1 .. m |-> new[i]]
    BY <1>1
  <1>3. \A i \in 1 .. m : new[i] = IF i = n THEN e ELSE q[i]
    BY <1>1
  <1>4. \A i \in 1 .. m : new[i] \in S
    BY <1>1, <1>3
  <1> HIDE DEF new
  <1>5. new \in Seq(S)
    BY <1>1, <1>2, <1>4
  <1>6. Len(new) = m
    BY <1>1, <1>2, <1>5
  <1> QED BY <1>1, <1>5, <1>6 DEF new

\* The page the step left is read, and the run goes on from it.
LEMMA SettleInvariant ==
    ASSUME AutopilotInv, Settles
    PROVE  AutopilotInv'
  <1>1. act \in ActRuns /\ screen \in Screens /\ act.pc = "settle" /\ act.reads \in Nat
    BY DEF AutopilotInv, Sound, Settles, ActRuns
  <1>2. UNCHANGED <<screen, slipped>>
    BY DEF Settles
  <1> DEFINE n == Len(act.history)
             last == act.history[n]
             noted == [act.history EXCEPT ![n] = [from |-> last.from, control |-> last.control,
                                                  changed |-> screen # act.seen]]
  <1>3. \/ Stopped(act, "no_progress")
        \/ Goes([act EXCEPT !.pc = "turn", !.history = noted, !.seen = screen, !.reads = @ + 1,
                            !.pick = NoPick, !.inputs = 0])
    BY DEF Settles
  <1>4. CASE Stopped(act, "no_progress")
    BY <1>1, <1>2, <1>4, MayStop, StepIsSound DEF Stops
  <1>5. CASE Goes([act EXCEPT !.pc = "turn", !.history = noted, !.seen = screen, !.reads = @ + 1,
                              !.pick = NoPick, !.inputs = 0])
    <2>1. noted \in Seq(Stepped) /\ Len(noted) = n
      <3>1. act.history \in Seq(Stepped) /\ n \in Nat
        BY <1>1 DEF ActRuns
      <3>2. PICK changed \in BOOLEAN : changed <=> screen # act.seen
        OBVIOUS
      <3>3. noted = [act.history EXCEPT ![n] = [from |-> last.from, control |-> last.control,
                                                changed |-> changed]]
        BY <3>2
      <3> DEFINE step == [from |-> last.from, control |-> last.control, changed |-> changed]
      <3>4. n # 0 => step \in Stepped
        <4>1. n # 0 => last \in Stepped
          BY <3>1
        <4> HIDE DEF last
        <4> QED
          BY <3>2, <4>1 DEF Stepped
      <3> HIDE DEF step, noted
      <3>5. noted = [act.history EXCEPT ![n] = step]
        BY <3>3 DEF step
      <3> QED
        BY <3>1, <3>4, <3>5, Replaced
    <2>2. PICK reads \in Nat : reads = act.reads + 1
      BY <1>1
    <2> HIDE DEF noted
    <2>3. act' = [act EXCEPT !.pc = "turn", !.history = noted, !.seen = screen, !.reads = reads,
                             !.pick = NoPick, !.inputs = 0]
      BY <1>5, <2>2 DEF Goes
    <2>4. act' \in ActRuns
      BY <1>1, <2>1, <2>3, RestFacts DEF ActRuns, ActPoints
    <2>5. /\ act'.pc = "turn" /\ act'.reads = act.reads + 1 /\ act'.carried = act.carried
          /\ act'.decisions = act.decisions /\ Len(act'.history) = Len(act.history)
          /\ act'.committed = act.committed /\ act'.inputs = 0
      BY <1>1, <2>1, <2>2, <2>3 DEF ActRuns
    <2>6. act.carried = NoPick /\ act.reads <= 1
      BY <1>1 DEF AutopilotInv, Sound, OfControls, ReadsCount
    <2>7. Sound(act')
      BY <1>1, <2>4, <2>5, <2>6
         DEF AutopilotInv, Sound, WithinLimits, OfControls, AskedFirst, InputLast, AsItWas,
             ReadsCount, Steady
    <2> QED
      BY <1>1, <1>2, <2>5, <2>7, StepIsSound
  <1> QED
    BY <1>3, <1>4, <1>5

\* The page moves, the user takes the window, a run begins.
LEMMA AroundInvariant ==
    ASSUME AutopilotInv,
           \/ ScreenMoves \/ TakesWindow \/ \E commit \in BOOLEAN : StartAct(commit)
           \/ \E back \in BOOLEAN : NextMove(back)
           \/ \E o \in outcomes : OutcomeArrives(o)
    PROVE  AutopilotInv'
  <1>1. CASE ScreenMoves
    <2>1. act' = act /\ screen' \in Screens /\ slipped' \in BOOLEAN
      BY <1>1, ScreenFacts DEF ScreenMoves, AutopilotInv
    <2>2. act.pc = "input" => slipped'
      BY <1>1 DEF ScreenMoves
    <2> QED
      BY <2>1, <2>2 DEF AutopilotInv, StillSo
  <1>2. ASSUME NEW commit \in BOOLEAN, StartAct(commit)
        PROVE  AutopilotInv'
    <2>1. PICK off \in BOOLEAN : off <=> Unreliable
      OBVIOUS
    <2>2. act' = [NotActing EXCEPT !.pc = "read", !.commit = commit, !.jevOff = off]
      BY <1>2, <2>1 DEF StartAct
    <2>3. act' \in ActRuns
      BY <2>2, RestFacts DEF ActRuns, ActPoints
    <2>4. /\ act'.pc = "read" /\ act'.reads = 0 /\ act'.carried = NoPick /\ act'.decisions = 0
          /\ act'.history = <<>> /\ act'.committed = 0 /\ act'.inputs = 0
      BY <2>2 DEF NotActing
    <2>5. Sound(act')
      BY <2>3, <2>4, RestFacts, AutopilotAssumption
         DEF Sound, WithinLimits, OfControls, AskedFirst, InputLast, AsItWas, ReadsCount, Steady
    <2>6. slipped' = FALSE /\ screen' = screen
      BY <1>2 DEF StartAct
    <2> QED
      BY <2>4, <2>5, <2>6, StepIsSound DEF AutopilotInv
  <1>3. CASE UNCHANGED <<screen, act, slipped>>
    BY <1>3 DEF AutopilotInv
  <1> QED
    BY <1>1, <1>2, <1>3 DEF TakesWindow, NextMove, OutcomeArrives

LEMMA AutopilotInvariant == AutopilotSpec => []AutopilotInv
  <1>1. AutopilotInit => AutopilotInv
    <2> SUFFICES ASSUME AutopilotInit
                 PROVE  AutopilotInv
      OBVIOUS
    <2>1. act = NotActing /\ screen \in Screens /\ slipped = FALSE
      BY ScreenFacts DEF AutopilotInit
    <2>2. /\ act.pc = "off" /\ act.reads = 0 /\ act.carried = NoPick /\ act.decisions = 0
          /\ act.history = <<>> /\ act.committed = 0 /\ act.inputs = 0
      BY <2>1 DEF NotActing
    <2>3. act \in ActRuns
      BY <2>1, RestFacts
    <2>4. Sound(act)
      BY <2>2, <2>3, RestFacts, AutopilotAssumption
         DEF Sound, WithinLimits, OfControls, AskedFirst, InputLast, AsItWas, ReadsCount, Steady
    <2> QED
      BY <2>1, <2>2, <2>4 DEF AutopilotInv, StillSo
  <1>2. ASSUME AutopilotInv, [AutopilotNext]_autopilotVars
        PROVE  AutopilotInv'
    <2>1. CASE UNCHANGED autopilotVars
      BY <1>2, <2>1 DEF autopilotVars, AutopilotInv
    <2>2. CASE TurnStep
      BY <1>2, <2>2, ReadInvariant, DecideInvariant, ChosenInvariant, CheckInvariant,
         InputInvariant, SettleInvariant DEF TurnStep
    <2> QED
      BY <1>2, <2>1, <2>2, AroundInvariant DEF AutopilotNext
  <1> QED
    BY <1>1, <1>2, PTL DEF AutopilotSpec

\* For any page, limits and moves of the page: nothing that commits is done without
\* the user's yes, and then once; a decision makes one input, of a control that is as
\* it was judged; and three reads bring a decision.
THEOREM AutopilotIsKept == AutopilotSpec => []AutopilotKept
  <1>1. AutopilotInv => AutopilotKept
    <2> SUFFICES ASSUME AutopilotInv
                 PROVE  AutopilotKept
      OBVIOUS
    <2>1. CommitsAsked
      BY DEF AutopilotInv, Sound, AskedFirst, CommitsAsked
    <2>2. InputOnce
      BY DEF AutopilotInv, Sound, InputLast, InputOnce
    <2>3. ActsOnWhatItSaw
      BY DEF AutopilotInv, Sound, StillSo, AsItWas, OfControls, Steady, ActsOnWhatItSaw, Guards
    <2>4. ReadsLeadOn
      <3>1. act.pc \in ActPoints /\ act.reads \in Nat
        BY DEF AutopilotInv, Sound, ActRuns
      <3> QED
        BY <3>1 DEF AutopilotInv, Sound, ReadsCount, ReadsLeadOn, ActPoints, Steady
    <2> QED
      BY <2>1, <2>2, <2>3, <2>4 DEF AutopilotKept
  <1> QED
    BY <1>1, AutopilotInvariant, PTL

-----------------------------------------------------------------------------
(* Transfers, for any files, chunks, reads, writes and connections.  TransfersKept speaks of
   how transfers end; what it rests on is still on its way.  TransfersInv adds that every good
   news on a connection is true already (GoodNews), which for a write needs that it is promised
   to winstond only once (PromisedOnce), before it has a helper; for a read, that whatever is
   at the path, or is being sent, was there while the read was on; and for both that nothing of
   a transfer is about before it starts (NothingBefore).                                      *)

Sources == Writes \cup {Original}
WholeFiles == [of : Sources, chunks : {FileChunks}]
VmFrames == [type : {"read"}, id : Reads, seq : {0}, of : Sources]
            \cup [type : {"write", "chunk", "end"}, id : Writes, seq : 0 .. FileChunks - 1, of : Sources]
GatewayFrames == [type : {"error", "done"}, id : Transfers, seq : 0 .. FileChunks, of : Sources]
                 \cup [type : {"chunk"}, id : Reads, seq : 0 .. FileChunks - 1, of : Sources]

Connections == [Lines -> [vm : {"none", "open", "closed"}, gateway : {"none", "open", "closed"},
                          toVm : Seq(VmFrames), toGateway : Seq(GatewayFrames)]]

LineTypes == line \in Connections /\ gatewayLine \in 0 .. MaxLines

TransferRecords == [state : {"none", "waiting", "begun", "done", "failed"},
                    line : 0 .. MaxLines, seq : 0 .. FileChunks, of : Sources]

TransferTypes ==
    /\ transfer \in [Transfers -> TransferRecords]
    /\ file \in WholeFiles
    /\ held \in [Reads -> SUBSET WholeFiles]

DaemonTypes ==
    /\ upload \in [Writes -> [on : BOOLEAN, line : 0 .. MaxLines, seq : 0 .. FileChunks,
                              items : 0 .. FileChunks, closed : BOOLEAN, failed : BOOLEAN]]
    /\ helper \in [Writes -> [state : {"none", "writing", "renamed", "removed", "killed"},
                              size : 0 .. FileChunks]]
    /\ reading \in [Reads -> [line : 0 .. MaxLines, of : WholeFiles, seq : 0 .. FileChunks]]

\* At most one connection is open at the VM's end, and the gateway's is open at its own.
OneLine ==
    /\ \A n, m \in Lines : line[n].vm = "open" /\ line[m].vm = "open" => n = m
    /\ gatewayLine # 0 => line[gatewayLine].gateway = "open"

\* What the helper wrote and what waits for it were all taken in order from the frames.
InOrder ==
    \A w \in Writes : upload[w].on => /\ upload[w].line \in Lines
                                      /\ helper[w].size + upload[w].items <= upload[w].seq

Sent(q) == {q[i] : i \in 1 .. Len(q)}

\* Before a transfer starts there is nothing of it anywhere.
NothingBefore ==
    \A t \in Transfers : transfer[t].state = "none" =>
        /\ t \in Writes => helper[t].state = "none" /\ ~upload[t].on
        /\ t \in Reads => reading[t].line = 0
        /\ \A n \in Lines : /\ \A frame \in Sent(line[n].toVm) : frame.id # t
                            /\ \A frame \in Sent(line[n].toGateway) : frame.id # t

\* A write is promised to winstond once, and has no helper before that.
PromisedOnce ==
    \A n \in Lines : \A i \in 1 .. Len(line[n].toVm) : line[n].toVm[i].type = "write" =>
        /\ helper[line[n].toVm[i].id].state = "none"
        /\ \A m \in Lines : \A j \in 1 .. Len(line[m].toVm) :
              line[m].toVm[j].type = "write" /\ line[m].toVm[j].id = line[n].toVm[i].id => n = m /\ i = j

\* Good news is true when it arrives: what a write's says is in place, what a read's says was
\* at the path while the read was on.
GoodNews ==
    /\ \A n \in Lines : \A frame \in Sent(line[n].toGateway) : frame.type = "done" =>
          /\ frame.id \in Writes => helper[frame.id].state = "renamed"
          /\ frame.id \in Reads /\ InFlight(transfer, frame.id)
                => Contents(frame.of, frame.seq) \in held[frame.id]
    /\ \A r \in Reads : InFlight(transfer, r) =>
          /\ file \in held[r]
          /\ reading[r].line # 0 => reading[r].of \in held[r]

\* A caller that waits, waits on a connection that the gateway has open.
WaitsOnALine == \A t \in Transfers : InFlight(transfer, t) =>
    transfer[t].line \in Lines /\ line[transfer[t].line].gateway = "open"

TransfersInv ==
    /\ LineTypes /\ TransferTypes /\ DaemonTypes
    /\ OneLine /\ InOrder /\ NothingBefore /\ PromisedOnce /\ GoodNews /\ WaitsOnALine
    /\ ReadsAreWhole /\ WritesAreThere

-----------------------------------------------------------------------------
(* Frames and connections.                                                 *)

LEMMA TailFacts ==
  ASSUME NEW S, NEW q \in Seq(S), q # <<>>
  PROVE  /\ Tail(q) \in Seq(S) /\ Head(q) \in S
         /\ Head(q) \in Sent(q) /\ Sent(Tail(q)) \subseteq Sent(q)
         /\ Len(Tail(q)) = Len(q) - 1
         /\ \A i \in 1 .. Len(Tail(q)) : i + 1 \in 1 .. Len(q) /\ Tail(q)[i] = q[i + 1]
  BY DEF Sent

LEMMA AppendFacts ==
  ASSUME NEW S, NEW q \in Seq(S), NEW e \in S
  PROVE  Append(q, e) \in Seq(S) /\ Sent(Append(q, e)) = Sent(q) \cup {e}
  BY SMTT(30) DEF Sent

LEMMA FrameFacts ==
  ASSUME NEW type \in {"error", "done"}, NEW id \in Transfers, NEW seq \in 0 .. FileChunks,
         NEW of \in Sources
  PROVE  /\ FileFrame(type, id, seq, of) \in GatewayFrames
         /\ FileFrame(type, id, seq, of).type = type /\ FileFrame(type, id, seq, of).id = id
         /\ FileFrame(type, id, seq, of).seq = seq /\ FileFrame(type, id, seq, of).of = of
  BY DEF FileFrame, GatewayFrames

LEMMA SentNothing == Sent(<<>>) = {}
  BY DEF Sent

LEMMA SentIsTyped ==
  ASSUME NEW S, NEW q \in Seq(S)
  PROVE  Sent(q) \subseteq S
  BY DEF Sent

\* A write goes out whole: its promise first, and nothing else that promises.
LEMMA WriteFramesFacts ==
  ASSUME NEW w \in Writes
  PROVE  /\ WriteFrames(w) \in Seq(VmFrames) /\ Len(WriteFrames(w)) = FileChunks + 2
         /\ WriteFrames(w)[1].type = "write"
         /\ \A i \in 1 .. FileChunks + 2 : WriteFrames(w)[i].id = w /\ (i # 1 => WriteFrames(w)[i].type # "write")
  <1> DEFINE first == FileFrame("write", w, 0, w)
             chunks == [n \in 1 .. FileChunks |-> FileFrame("chunk", w, n - 1, w)]
             last == FileFrame("end", w, 0, w)
  <1>1. first \in VmFrames /\ last \in VmFrames
    BY TransfersAssumption DEF FileFrame, VmFrames, Sources
  <1>2. \A n \in 1 .. FileChunks : FileFrame("chunk", w, n - 1, w) \in VmFrames
    BY TransfersAssumption DEF FileFrame, VmFrames, Sources
  <1>3. chunks \in Seq(VmFrames) /\ Len(chunks) = FileChunks
    BY <1>2, TransfersAssumption
  <1>4. WriteFrames(w) = <<first>> \o chunks \o <<last>>
    BY DEF WriteFrames
  <1>5. \A n \in 1 .. FileChunks : chunks[n].id = w /\ chunks[n].type = "chunk"
    BY DEF FileFrame
  <1>6. first.id = w /\ first.type = "write" /\ last.id = w /\ last.type = "end"
    BY DEF FileFrame
  <1> HIDE DEF first, chunks, last
  <1> QED
    BY <1>1, <1>3, <1>4, <1>5, <1>6, TransfersAssumption

\* What a connection is told, and nothing else, changes with OnLine.
LEMMA OnLineFacts ==
  ASSUME NEW all \in Connections, NEW n \in Lines, NEW frame \in GatewayFrames
  PROVE  /\ OnLine(all, n, frame) \in Connections
         /\ \A m \in Lines : /\ OnLine(all, n, frame)[m].vm = all[m].vm
                             /\ OnLine(all, n, frame)[m].gateway = all[m].gateway
                             /\ OnLine(all, n, frame)[m].toVm = all[m].toVm
                             /\ Sent(OnLine(all, n, frame)[m].toGateway)
                                    \subseteq Sent(all[m].toGateway) \cup {frame}
  <1>1. CASE all[n].vm = "open"
    <2>1. /\ Append(all[n].toGateway, frame) \in Seq(GatewayFrames)
          /\ Sent(Append(all[n].toGateway, frame)) = Sent(all[n].toGateway) \cup {frame}
      BY AppendFacts DEF Connections
    <2>2. OnLine(all, n, frame)
              = [all EXCEPT ![n].toGateway = Append(all[n].toGateway, frame)]
      BY <1>1 DEF OnLine, Connections
    <2>3. PICK new : new = [all[n] EXCEPT !.toGateway = Append(all[n].toGateway, frame)]
      OBVIOUS
    <2>4. /\ new \in [vm : {"none", "open", "closed"}, gateway : {"none", "open", "closed"},
                     toVm : Seq(VmFrames), toGateway : Seq(GatewayFrames)]
          /\ new.vm = all[n].vm /\ new.gateway = all[n].gateway /\ new.toVm = all[n].toVm
          /\ new.toGateway = Append(all[n].toGateway, frame)
      BY <2>1, <2>3 DEF Connections
    <2>5. OnLine(all, n, frame) = [all EXCEPT ![n] = new]
      BY <2>2, <2>3
    <2> QED
      BY <2>1, <2>4, <2>5 DEF Connections
  <1>2. CASE all[n].vm # "open"
    BY <1>2 DEF OnLine
  <1> QED
    BY <1>1, <1>2

LEMMA FailedFacts ==
  ASSUME TransferTypes, NEW ids
  PROVE  /\ Failed(transfer, ids) \in [Transfers -> TransferRecords]
         /\ \A t \in Transfers \ ids : Failed(transfer, ids)[t] = transfer[t]
         /\ \A t \in Transfers : /\ Failed(transfer, ids)[t].line = transfer[t].line
                                 /\ Failed(transfer, ids)[t].seq = transfer[t].seq
                                 /\ Failed(transfer, ids)[t].of = transfer[t].of
                                 /\ Failed(transfer, ids)[t].state
                                        = IF t \in ids THEN "failed" ELSE transfer[t].state
  BY DEF Failed, TransferTypes, TransferRecords

\* How the gateway takes a frame for a transfer: it may fail it, count a chunk, or end it well.
LEMMA HandledFacts ==
  ASSUME TransferTypes, NEW frame \in GatewayFrames, NEW t, NEW next,
         t = frame.id, next = Handled(t, frame)
  PROVE  /\ t \in Transfers
         /\ next \in [Transfers -> TransferRecords]
         /\ \A x \in Transfers \ {t} : next[x] = transfer[x]
         /\ next[t].line = transfer[t].line
         /\ ~InFlight(transfer, t) => next = transfer
         /\ InFlight(transfer, t) /\ next[t].state = "done"
                => frame.type = "done" /\ next[t].seq = transfer[t].seq /\ next[t].of = transfer[t].of
                   /\ (t \in Reads => SameHash(t, frame))
         /\ InFlight(transfer, t) => next[t].state \in {"begun", "done", "failed"}
  <1>0. t \in Transfers /\ (t \in Reads <=> t \notin Writes)
    BY TransfersAssumption DEF GatewayFrames, Transfers
  <1>1. CASE ~InFlight(transfer, t)
    BY <1>0, <1>1 DEF Handled, TransferTypes
  <1>2. CASE InFlight(transfer, t) /\ frame.type = "done" /\ (t \in Writes \/ SameHash(t, frame))
    <2>1. next = [transfer EXCEPT ![t].state = "done"]
      BY <1>2 DEF Handled
    <2>2. PICK new : new = [transfer[t] EXCEPT !.state = "done"]
      OBVIOUS
    <2>3. /\ new \in TransferRecords /\ new.state = "done"
          /\ new.line = transfer[t].line /\ new.seq = transfer[t].seq /\ new.of = transfer[t].of
      BY <1>0, <2>2 DEF TransferTypes, TransferRecords
    <2>4. next = [transfer EXCEPT ![t] = new]
      BY <2>1, <2>2
    <2> QED
      BY <1>0, <1>2, <2>3, <2>4 DEF TransferTypes
  <1>3. CASE /\ InFlight(transfer, t) /\ frame.type = "chunk" /\ frame.seq = transfer[t].seq
    <2>1. next = [transfer EXCEPT ![t].seq = @ + 1, ![t].state = "begun", ![t].of = frame.of]
      BY <1>3 DEF Handled
    <2>2. frame.seq + 1 \in 0 .. FileChunks /\ frame.of \in Sources
      BY <1>3, TransfersAssumption DEF GatewayFrames
    <2>3. PICK new : new = [transfer[t] EXCEPT !.seq = transfer[t].seq + 1,
                                               !.state = "begun", !.of = frame.of]
      OBVIOUS
    <2>4. /\ new \in TransferRecords /\ new.state = "begun" /\ new.line = transfer[t].line
      BY <1>0, <1>3, <2>2, <2>3 DEF TransferTypes, TransferRecords
    <2>5. next = [transfer EXCEPT ![t] = new]
      BY <2>1, <2>3
    <2> QED
      BY <1>0, <1>3, <2>4, <2>5 DEF TransferTypes
  <1>4. CASE /\ InFlight(transfer, t)
             /\ ~(frame.type = "done" /\ (t \in Writes \/ SameHash(t, frame)))
             /\ ~(frame.type = "chunk" /\ frame.seq = transfer[t].seq)
    <2>1. next = Failed(transfer, {t})
      BY <1>4 DEF Handled
    <2> QED
      BY <1>0, <1>4, <2>1, FailedFacts DEF InFlight
  <1> QED
    BY <1>1, <1>2, <1>3, <1>4

-----------------------------------------------------------------------------
(* What steps do to the lines.                                             *)

\* A frame taken off at either end.
TakenFrom(n) == [line EXCEPT ![n].toVm = Tail(@)]

LEMMA TakenAtVm ==
  ASSUME LineTypes, NEW n \in Lines, line[n].toVm # <<>>, NEW next,
         next = TakenFrom(n)
  PROVE  /\ next \in Connections
         /\ Head(line[n].toVm) \in VmFrames /\ Head(line[n].toVm) \in Sent(line[n].toVm)
         /\ next[n].toVm = Tail(line[n].toVm)
         /\ \A m \in Lines : /\ next[m].vm = line[m].vm /\ next[m].gateway = line[m].gateway
                             /\ next[m].toGateway = line[m].toGateway
                             /\ m # n => next[m].toVm = line[m].toVm
  <1>1. /\ Tail(line[n].toVm) \in Seq(VmFrames)
        /\ Head(line[n].toVm) \in VmFrames /\ Head(line[n].toVm) \in Sent(line[n].toVm)
    BY TailFacts DEF LineTypes, Connections
  <1> QED
    BY <1>1 DEF TakenFrom, LineTypes, Connections

\* A promise stays the only one when frames are only taken, or lost with their connection.
Shortened(old, new) == new = old \/ new = <<>> \/ (old # <<>> /\ new = Tail(old))

LEMMA PromiseStays ==
  ASSUME PromisedOnce, LineTypes, LineTypes',
         \A n \in Lines : Shortened(line[n].toVm, line'[n].toVm),
         \A w \in Writes : helper[w].state = "none" =>
            \/ helper'[w].state = "none"
            \/ \A n \in Lines : \A i \in 1 .. Len(line'[n].toVm) :
                  line'[n].toVm[i].type = "write" => line'[n].toVm[i].id # w
  PROVE  PromisedOnce' /\ \A n \in Lines : Sent(line'[n].toVm) \subseteq Sent(line[n].toVm)
  <1> DEFINE At(n) == IF line[n].toVm # <<>> /\ line'[n].toVm = Tail(line[n].toVm) /\ line'[n].toVm # line[n].toVm
                      THEN 1 ELSE 0
  <1>1. ASSUME NEW n \in Lines, NEW i \in 1 .. Len(line'[n].toVm)
        PROVE  /\ At(n) + i \in 1 .. Len(line[n].toVm)
               /\ line'[n].toVm[i] = line[n].toVm[At(n) + i]
               /\ line'[n].toVm[i] \in VmFrames
    <2>1. line[n].toVm \in Seq(VmFrames) /\ line'[n].toVm \in Seq(VmFrames)
      BY DEF LineTypes, Connections
    <2>2. CASE line'[n].toVm = line[n].toVm
      BY <2>1, <2>2
    <2>3. CASE line'[n].toVm = <<>>
      BY <2>3
    <2>4. CASE line[n].toVm # <<>> /\ line'[n].toVm = Tail(line[n].toVm) /\ line'[n].toVm # line[n].toVm
      BY <2>1, <2>4, TailFacts
    <2> QED
      BY <2>2, <2>3, <2>4 DEF Shortened
  <1>2. \A n \in Lines : Sent(line'[n].toVm) \subseteq Sent(line[n].toVm)
    BY SMTT(30), <1>1 DEF Sent
  <1>3. At(1) \in Nat /\ \A n \in Lines : At(n) \in {0, 1}
    OBVIOUS
  <1> HIDE DEF At
  <1>4. ASSUME NEW n \in Lines, NEW i \in 1 .. Len(line'[n].toVm), line'[n].toVm[i].type = "write"
        PROVE  /\ helper'[line'[n].toVm[i].id].state = "none"
               /\ \A m \in Lines : \A j \in 1 .. Len(line'[m].toVm) :
                     line'[m].toVm[j].type = "write" /\ line'[m].toVm[j].id = line'[n].toVm[i].id
                         => n = m /\ i = j
    <2>1. line'[n].toVm[i].id \in Writes
      BY <1>1, <1>4 DEF VmFrames
    <2>2. helper'[line'[n].toVm[i].id].state = "none"
      <3>1. PICK k \in 1 .. Len(line[n].toVm) : line'[n].toVm[i] = line[n].toVm[k]
        BY <1>1
      <3>2. helper[line[n].toVm[k].id].state = "none"
        BY <1>4, <3>1 DEF PromisedOnce
      <3>3. PICK w \in Writes : w = line'[n].toVm[i].id
        BY <2>1
      <3>4. helper[w].state = "none"
        BY <3>1, <3>2, <3>3
      <3>5. helper'[w].state = "none"
        BY <1>4, <3>3, <3>4
      <3> QED
        BY <3>3, <3>5
    <2>3. ASSUME NEW m \in Lines, NEW j \in 1 .. Len(line'[m].toVm), line'[m].toVm[j].type = "write",
                 line'[m].toVm[j].id = line'[n].toVm[i].id
          PROVE  n = m /\ i = j
      <3>1. PICK k \in 1 .. Len(line[n].toVm) : k = At(n) + i /\ line'[n].toVm[i] = line[n].toVm[k]
        BY <1>1
      <3>2. PICK l \in 1 .. Len(line[m].toVm) : l = At(m) + j /\ line'[m].toVm[j] = line[m].toVm[l]
        BY <1>1
      <3>3. /\ line[n].toVm[k].type = "write" /\ line[m].toVm[l].type = "write"
            /\ line[m].toVm[l].id = line[n].toVm[k].id
        BY <1>4, <2>3, <3>1, <3>2
      <3>4. n = m /\ k = l
        BY <3>3 DEF PromisedOnce
      <3> QED
        BY <3>1, <3>2, <3>4, <1>3
    <2> QED
      BY <2>2, <2>3
  <1> QED
    BY <1>2, <1>4 DEF PromisedOnce

\* There is still nothing of a transfer that has not started, when a step only takes.
LEMMA NothingBeforeStays ==
  ASSUME NothingBefore,
         \A t \in Transfers : transfer'[t].state = "none" => transfer[t].state = "none",
         \A n \in Lines : /\ Sent(line'[n].toVm) \subseteq Sent(line[n].toVm)
                          /\ Sent(line'[n].toGateway) \subseteq Sent(line[n].toGateway),
         \A w \in Writes : helper[w].state = "none" /\ ~upload[w].on
                              => helper'[w].state = "none" /\ ~upload'[w].on,
         \A r \in Reads : reading[r].line = 0 => reading'[r].line = 0
  PROVE  NothingBefore'
  <1> SUFFICES ASSUME NEW t \in Transfers, transfer'[t].state = "none"
               PROVE  /\ t \in Writes => helper'[t].state = "none" /\ ~upload'[t].on
                      /\ t \in Reads => reading'[t].line = 0
                      /\ \A n \in Lines : /\ \A frame \in Sent(line'[n].toVm) : frame.id # t
                                          /\ \A frame \in Sent(line'[n].toGateway) : frame.id # t
    BY DEF NothingBefore
  <1> QED
    BY DEF NothingBefore

-----------------------------------------------------------------------------
(* The gateway's steps.                                                    *)

LEMMA TimesOutStep ==
  ASSUME TransfersInv, NEW t \in Transfers, TransferTimesOut(t)
  PROVE  TransfersInv'
  <1> USE DEF TransfersInv
  <1>1. /\ transfer' = Failed(transfer, {t}) /\ InFlight(transfer, t)
        /\ line' = line /\ gatewayLine' = gatewayLine /\ upload' = upload /\ helper' = helper
        /\ reading' = reading /\ file' = file /\ held' = held
    BY DEF TransferTimesOut
  <1>2. /\ transfer' \in [Transfers -> TransferRecords]
        /\ transfer'[t].state = "failed"
        /\ \A x \in Transfers \ {t} : transfer'[x] = transfer[x]
    BY <1>1, FailedFacts
  <1>3. LineTypes' /\ TransferTypes' /\ DaemonTypes' /\ OneLine' /\ InOrder' /\ PromisedOnce'
    <2>1. LineTypes' /\ TransferTypes' /\ DaemonTypes'
      BY <1>1, <1>2 DEF LineTypes, TransferTypes, DaemonTypes
    <2>2. OneLine' /\ InOrder'
      BY <1>1 DEF OneLine, InOrder
    <2>3. PromisedOnce'
      BY <1>1 DEF PromisedOnce
    <2> QED
      BY <2>1, <2>2, <2>3
  <1>4. NothingBefore'
    <2>1. \A x \in Transfers : transfer'[x].state = "none" => transfer[x].state = "none"
      BY <1>2
    <2> QED
      BY <1>1, <2>1, NothingBeforeStays
  <1>5. GoodNews'
    <2>1. \A x \in Transfers : InFlight(transfer', x) => InFlight(transfer, x)
      BY <1>2 DEF InFlight
    <2> QED
      BY <1>1, <2>1 DEF GoodNews, Transfers
  <1>6. WaitsOnALine' /\ ReadsAreWhole' /\ WritesAreThere'
    BY <1>1, <1>2 DEF WaitsOnALine, InFlight, ReadsAreWhole, WritesAreThere, Transfers
  <1> QED
    BY <1>3, <1>4, <1>5, <1>6

LEMMA HandlesStep ==
  ASSUME TransfersInv, NEW n \in Lines, GatewayHandles(n)
  PROVE  TransfersInv'
  <1> USE DEF TransfersInv
  <1>1. PICK frame : frame = Head(line[n].toGateway)
    OBVIOUS
  <1>2. /\ line[n].toGateway # <<>> /\ line' = [line EXCEPT ![n].toGateway = Tail(@)]
        /\ transfer' = Handled(frame.id, frame)
        /\ gatewayLine' = gatewayLine /\ upload' = upload /\ helper' = helper
        /\ reading' = reading /\ file' = file /\ held' = held
    BY <1>1 DEF GatewayHandles
  <1>3. /\ line' \in Connections
        /\ frame \in GatewayFrames /\ frame \in Sent(line[n].toGateway)
        /\ \A m \in Lines : /\ line'[m].vm = line[m].vm /\ line'[m].gateway = line[m].gateway
                            /\ line'[m].toVm = line[m].toVm
                            /\ Sent(line'[m].toGateway) \subseteq Sent(line[m].toGateway)
    <2>1. /\ Tail(line[n].toGateway) \in Seq(GatewayFrames)
          /\ Sent(Tail(line[n].toGateway)) \subseteq Sent(line[n].toGateway)
          /\ frame \in GatewayFrames /\ frame \in Sent(line[n].toGateway)
      BY <1>1, <1>2, TailFacts DEF LineTypes, Connections
    <2> QED
      BY <1>2, <2>1 DEF LineTypes, Connections
  <1>4. PICK t \in Transfers :
           /\ t = frame.id
           /\ transfer' \in [Transfers -> TransferRecords]
           /\ \A x \in Transfers \ {t} : transfer'[x] = transfer[x]
           /\ transfer'[t].line = transfer[t].line
           /\ ~InFlight(transfer, t) => transfer' = transfer
           /\ InFlight(transfer, t) /\ transfer'[t].state = "done"
                => frame.type = "done" /\ transfer'[t].seq = transfer[t].seq /\ transfer'[t].of = transfer[t].of
                   /\ (t \in Reads => SameHash(t, frame))
           /\ InFlight(transfer, t) => transfer'[t].state \in {"begun", "done", "failed"}
    BY <1>2, <1>3, HandledFacts
  <1>5. LineTypes' /\ TransferTypes' /\ DaemonTypes' /\ OneLine' /\ InOrder' /\ PromisedOnce'
    <2>1. LineTypes' /\ TransferTypes' /\ DaemonTypes'
      BY <1>2, <1>3, <1>4 DEF LineTypes, TransferTypes, DaemonTypes
    <2>2. OneLine'
      BY <1>2, <1>3 DEF OneLine, LineTypes, Lines
    <2>3. InOrder'
      BY <1>2 DEF InOrder
    <2>4. PromisedOnce'
      <3>1. \A m \in Lines : line'[m].toVm = line[m].toVm
        BY <1>3
      <3> QED
        BY <1>2, <3>1 DEF PromisedOnce
    <2> QED
      BY <2>1, <2>2, <2>3, <2>4
  <1>6. NothingBefore'
    <2>1. \A x \in Transfers : transfer'[x].state = "none" => transfer[x].state = "none"
      BY <1>4
    <2>2. \A m \in Lines : /\ Sent(line'[m].toVm) \subseteq Sent(line[m].toVm)
                           /\ Sent(line'[m].toGateway) \subseteq Sent(line[m].toGateway)
      BY <1>3
    <2> QED
      BY <1>2, <2>1, <2>2, NothingBeforeStays
  <1>7. \A x \in Transfers : InFlight(transfer', x) => InFlight(transfer, x) /\ transfer'[x].line = transfer[x].line
    BY <1>4 DEF InFlight
  <1>8. GoodNews' /\ WaitsOnALine'
    BY <1>2, <1>3, <1>7 DEF GoodNews, WaitsOnALine, Transfers
  <1>9. ReadsAreWhole'
    <2> SUFFICES ASSUME NEW r \in Reads, transfer'[r].state = "done"
                 PROVE  Contents(transfer'[r].of, transfer'[r].seq) \in held[r]
      BY <1>2 DEF ReadsAreWhole
    <2>1. CASE transfer'[r] = transfer[r]
      BY <2>1 DEF ReadsAreWhole
    <2>2. CASE r = t /\ InFlight(transfer, t)
      <3>1. frame.type = "done" /\ transfer'[r].seq = frame.seq /\ transfer'[r].of = frame.of
        BY <1>4, <2>2 DEF SameHash
      <3>2. Contents(frame.of, frame.seq) \in held[r]
        BY <1>3, <1>4, <2>2, <3>1 DEF GoodNews
      <3> QED
        BY <3>1, <3>2
    <2> QED
      BY <1>4, <2>1, <2>2 DEF Transfers
  <1>10. WritesAreThere'
    <2> SUFFICES ASSUME NEW w \in Writes, transfer'[w].state = "done"
                 PROVE  helper[w].state = "renamed"
      BY <1>2 DEF WritesAreThere
    <2>1. CASE transfer'[w] = transfer[w]
      BY <2>1 DEF WritesAreThere
    <2>2. CASE w = t /\ InFlight(transfer, t)
      BY <1>3, <1>4, <2>2 DEF GoodNews
    <2> QED
      BY <1>4, <2>1, <2>2 DEF Transfers
  <1> QED
    BY <1>5, <1>6, <1>8, <1>9, <1>10

LEMMA GatewayClosesStep ==
  ASSUME TransfersInv, NEW n \in Lines, GatewaySeesClose(n)
  PROVE  TransfersInv'
  <1> USE DEF TransfersInv
  <1>1. /\ line' = [line EXCEPT ![n].gateway = "closed", ![n].toVm = <<>>, ![n].toGateway = <<>>]
        /\ gatewayLine' = IF gatewayLine = n THEN 0 ELSE gatewayLine
        /\ transfer' = Failed(transfer, LineFails(n))
        /\ upload' = upload /\ helper' = helper /\ reading' = reading /\ file' = file /\ held' = held
    BY DEF GatewaySeesClose
  <1>2. /\ line' \in Connections
        /\ line'[n].gateway = "closed" /\ line'[n].toVm = <<>> /\ line'[n].toGateway = <<>>
        /\ \A m \in Lines : /\ line'[m].vm = line[m].vm
                            /\ m # n => line'[m] = line[m]
    BY <1>1, <<>> \in Seq(VmFrames), <<>> \in Seq(GatewayFrames) DEF LineTypes, Connections
  <1>3. /\ transfer' \in [Transfers -> TransferRecords]
        /\ \A x \in Transfers \ LineFails(n) : transfer'[x] = transfer[x]
        /\ \A x \in LineFails(n) : transfer'[x].state = "failed"
    BY <1>1, FailedFacts DEF LineFails
  <1>4. LineTypes' /\ TransferTypes' /\ DaemonTypes' /\ OneLine' /\ InOrder'
    <2>1. LineTypes' /\ TransferTypes' /\ DaemonTypes'
      BY <1>1, <1>2, <1>3, TransfersAssumption DEF LineTypes, TransferTypes, DaemonTypes, Lines
    <2>2. OneLine'
      <3>1. gatewayLine' # 0 => /\ gatewayLine' = gatewayLine /\ gatewayLine \in Lines
                                /\ gatewayLine # n
        BY <1>1, TransfersAssumption DEF LineTypes, Lines
      <3>2. gatewayLine' # 0 => line'[gatewayLine'].gateway = "open"
        BY <1>2, <3>1 DEF OneLine
      <3> QED
        BY <1>2, <3>2 DEF OneLine
    <2>3. InOrder'
      BY <1>1 DEF InOrder
    <2> QED
      BY <2>1, <2>2, <2>3
  <1>5. /\ \A m \in Lines : Shortened(line[m].toVm, line'[m].toVm)
        /\ \A m \in Lines : Sent(line'[m].toGateway) \subseteq Sent(line[m].toGateway)
    BY <1>2, SentNothing DEF Shortened
  <1>6. PromisedOnce' /\ \A m \in Lines : Sent(line'[m].toVm) \subseteq Sent(line[m].toVm)
    BY <1>1, <1>4, <1>5, PromiseStays
  <1>7. /\ \A x \in Transfers : transfer'[x].state = "none" => transfer[x].state = "none"
        /\ \A x \in Transfers : transfer'[x].state = "done" => transfer'[x] = transfer[x]
        /\ \A x \in Transfers : InFlight(transfer', x)
              => InFlight(transfer, x) /\ transfer'[x].line = transfer[x].line /\ transfer[x].line # n
    BY <1>3 DEF LineFails, InFlight
  <1>8. NothingBefore'
    BY <1>1, <1>5, <1>6, <1>7, NothingBeforeStays
  <1>9. GoodNews'
    BY <1>1, <1>5, <1>7 DEF GoodNews, Transfers
  <1>10. WaitsOnALine'
    BY <1>2, <1>7 DEF WaitsOnALine
  <1>11. ReadsAreWhole' /\ WritesAreThere'
    BY <1>1, <1>7 DEF ReadsAreWhole, WritesAreThere, Transfers
  <1> QED
    BY <1>4, <1>6, <1>8, <1>9, <1>10, <1>11

\* What a transfer that starts sends is added to what is on its way.
Added(n, fs) == [line EXCEPT ![n].toVm = @ \o fs]

LEMMA AddedAtVm ==
  ASSUME LineTypes, NEW n \in Lines, NEW fs \in Seq(VmFrames), NEW next,
         next = Added(n, fs)
  PROVE  /\ next \in Connections
         /\ \A m \in Lines : /\ next[m].vm = line[m].vm /\ next[m].gateway = line[m].gateway
                             /\ next[m].toGateway = line[m].toGateway
                             /\ m # n => next[m].toVm = line[m].toVm
         /\ \A i \in 1 .. Len(next[n].toVm) :
               \/ i \in 1 .. Len(line[n].toVm) /\ next[n].toVm[i] = line[n].toVm[i]
               \/ \E k \in 1 .. Len(fs) : i = Len(line[n].toVm) + k /\ next[n].toVm[i] = fs[k]
  <1>1. line[n].toVm \in Seq(VmFrames) /\ line[n].toVm \o fs \in Seq(VmFrames)
    BY DEF LineTypes, Connections
  <1>2. ASSUME NEW i \in 1 .. Len(line[n].toVm \o fs)
        PROVE  \/ i \in 1 .. Len(line[n].toVm) /\ (line[n].toVm \o fs)[i] = line[n].toVm[i]
               \/ \E k \in 1 .. Len(fs) : i = Len(line[n].toVm) + k /\ (line[n].toVm \o fs)[i] = fs[k]
    <2>1. CASE i <= Len(line[n].toVm)
      BY <1>1, <2>1
    <2>2. CASE i > Len(line[n].toVm)
      <3>1. i - Len(line[n].toVm) \in 1 .. Len(fs)
        BY <1>1, <2>2
      <3>2. (line[n].toVm \o fs)[i] = fs[i - Len(line[n].toVm)]
        BY <1>1, <2>2
      <3> QED
        BY <1>1, <3>1, <3>2
    <2> QED
      BY <1>1, <2>1, <2>2
  <1>3. next[n].toVm = line[n].toVm \o fs
    BY DEF Added, LineTypes, Connections
  <1> QED
    BY <1>1, <1>2, <1>3 DEF Added, LineTypes, Connections

LEMMA StartStep ==
  ASSUME TransfersInv, NEW t \in Transfers, StartTransfer(t)
  PROVE  TransfersInv'
  <1> USE DEF TransfersInv
  <1>1. /\ transfer[t].state = "none"
        /\ gatewayLine' = gatewayLine /\ upload' = upload /\ helper' = helper
        /\ reading' = reading /\ file' = file
        /\ held' = IF t \in Reads THEN [held EXCEPT ![t] = {file}] ELSE held
    BY DEF StartTransfer
  <1>2. /\ held' \in [Reads -> SUBSET WholeFiles]
        /\ t \in Reads => held'[t] = {file}
        /\ \A r \in Reads : r # t => held'[r] = held[r]
    BY <1>1 DEF TransferTypes
  <1>3. ASSUME NEW n \in Lines
        PROVE  /\ \A frame \in Sent(line[n].toVm) : frame.id # t
               /\ \A frame \in Sent(line[n].toGateway) : frame.id # t
    BY <1>1 DEF NothingBefore
  <1>4. /\ t \in Writes => helper[t].state = "none" /\ ~upload[t].on
        /\ t \in Reads => reading[t].line = 0
    BY <1>1 DEF NothingBefore
  <1>5. CASE gatewayLine = 0
    <2>1. transfer' = Failed(transfer, {t}) /\ line' = line
      BY <1>5 DEF StartTransfer
    <2>2. /\ transfer' \in [Transfers -> TransferRecords]
          /\ transfer'[t].state = "failed"
          /\ \A x \in Transfers \ {t} : transfer'[x] = transfer[x]
      BY <2>1, FailedFacts
    <2>3. LineTypes' /\ TransferTypes' /\ DaemonTypes'
      BY <1>1, <1>2, <2>1, <2>2 DEF LineTypes, TransferTypes, DaemonTypes
    <2>4. OneLine' /\ InOrder'
      BY <1>1, <2>1 DEF OneLine, InOrder
    <2>5. PromisedOnce'
      BY <1>1, <2>1 DEF PromisedOnce
    <2>6. NothingBefore'
      <3>1. \A x \in Transfers : transfer'[x].state = "none" => transfer[x].state = "none"
        BY <2>2
      <3> QED
        BY <1>1, <2>1, <3>1, NothingBeforeStays
    <2>7. \A x \in Transfers : InFlight(transfer', x) => x # t /\ InFlight(transfer, x) /\ transfer'[x] = transfer[x]
      BY <2>2 DEF InFlight
    <2>8. GoodNews'
      BY <1>1, <1>2, <2>1, <2>7 DEF GoodNews, Transfers
    <2>9. WaitsOnALine'
      BY <2>1, <2>7 DEF WaitsOnALine
    <2>10. ReadsAreWhole' /\ WritesAreThere'
      BY <1>1, <1>2, <2>2 DEF ReadsAreWhole, WritesAreThere, Transfers
    <2> QED
      BY <2>3, <2>4, <2>5, <2>6, <2>8, <2>9, <2>10
  <1>6. CASE gatewayLine # 0
    <2> DEFINE first == FileFrame("read", t, 0, Original)
    <2>1. PICK fs : fs = IF t \in Reads THEN <<first>> ELSE WriteFrames(t)
      OBVIOUS
    <2>2. /\ fs \in Seq(VmFrames)
          /\ \A k \in 1 .. Len(fs) : /\ fs[k].id = t
                                     /\ fs[k].type = "write" => t \in Writes /\ k = 1
      <3>1. CASE t \in Reads
        <4>1. first \in VmFrames /\ first.id = t /\ first.type = "read"
          BY <3>1, TransfersAssumption DEF FileFrame, VmFrames, Sources
        <4> HIDE DEF first
        <4> QED
          BY <2>1, <3>1, <4>1
      <3>2. CASE t \notin Reads
        <4>1. t \in Writes /\ fs = WriteFrames(t)
          BY <2>1, <3>2 DEF Transfers
        <4> QED
          BY <4>1, WriteFramesFacts
      <3> QED
        BY <3>1, <3>2
    <2>3. gatewayLine \in Lines /\ line[gatewayLine].gateway = "open"
      BY <1>6, TransfersAssumption DEF LineTypes, OneLine, Lines
    <2>4. line' = Added(gatewayLine, fs)
      BY <1>6, <2>1 DEF StartTransfer, Added
    <2>5. PICK new : new = [NotBegun EXCEPT !.state = "waiting", !.line = gatewayLine]
      OBVIOUS
    <2>6. transfer' = [transfer EXCEPT ![t] = new]
      BY <1>6, <2>5 DEF StartTransfer
    <2>7. new \in TransferRecords /\ new.state = "waiting" /\ new.line = gatewayLine
      <3>1. new = [state |-> "waiting", line |-> gatewayLine, seq |-> 0, of |-> Original]
        BY <2>5 DEF NotBegun
      <3> QED
        BY <2>3, <3>1, TransfersAssumption DEF TransferRecords, Sources, Lines
    <2>8. /\ transfer' \in [Transfers -> TransferRecords]
          /\ transfer'[t] = new /\ \A x \in Transfers \ {t} : transfer'[x] = transfer[x]
      BY <2>6, <2>7 DEF TransferTypes
    <2>9. /\ line' \in Connections
          /\ \A m \in Lines : /\ line'[m].vm = line[m].vm /\ line'[m].gateway = line[m].gateway
                              /\ line'[m].toGateway = line[m].toGateway
                              /\ m # gatewayLine => line'[m].toVm = line[m].toVm
          /\ \A i \in 1 .. Len(line'[gatewayLine].toVm) :
                \/ i \in 1 .. Len(line[gatewayLine].toVm)
                     /\ line'[gatewayLine].toVm[i] = line[gatewayLine].toVm[i]
                \/ \E k \in 1 .. Len(fs) : i = Len(line[gatewayLine].toVm) + k
                                            /\ line'[gatewayLine].toVm[i] = fs[k]
      <3>1. PICK next : next = line'
        OBVIOUS
      <3>2. next = Added(gatewayLine, fs)
        BY <2>4, <3>1
      <3> QED
        BY SMTT(30), <2>2, <2>3, <3>1, <3>2, AddedAtVm
    <2> HIDE DEF first
    <2>10. LineTypes' /\ TransferTypes' /\ DaemonTypes'
      BY <1>1, <1>2, <2>8, <2>9 DEF LineTypes, TransferTypes, DaemonTypes
    <2>11. OneLine' /\ InOrder'
      BY <1>1, <2>3, <2>9 DEF OneLine, InOrder
    \* What is on its way to winstond is old, or of this transfer.
    <2>12. ASSUME NEW n \in Lines, NEW i \in 1 .. Len(line'[n].toVm)
           PROVE  \/ i \in 1 .. Len(line[n].toVm) /\ line'[n].toVm[i] = line[n].toVm[i]
                     /\ line'[n].toVm[i].id # t
                  \/ n = gatewayLine /\ \E k \in 1 .. Len(fs) : i = Len(line[n].toVm) + k
                                                                /\ line'[n].toVm[i] = fs[k]
      <3>1. CASE n = gatewayLine
        BY <1>3, <2>3, <2>9, <3>1 DEF Sent
      <3>2. CASE n # gatewayLine
        BY <1>3, <2>3, <2>9, <3>2 DEF Sent
      <3> QED
        BY <3>1, <3>2
    <2>13. PromisedOnce'
      <3> SUFFICES ASSUME NEW n \in Lines, NEW i \in 1 .. Len(line'[n].toVm),
                          line'[n].toVm[i].type = "write"
                   PROVE  /\ helper[line'[n].toVm[i].id].state = "none"
                          /\ \A m \in Lines : \A j \in 1 .. Len(line'[m].toVm) :
                                line'[m].toVm[j].type = "write"
                                    /\ line'[m].toVm[j].id = line'[n].toVm[i].id => n = m /\ i = j
        BY <1>1 DEF PromisedOnce
      <3>1. CASE i \in 1 .. Len(line[n].toVm) /\ line'[n].toVm[i] = line[n].toVm[i]
                 /\ line'[n].toVm[i].id # t
        <4>1. helper[line'[n].toVm[i].id].state = "none"
          BY <3>1 DEF PromisedOnce
        <4>2. ASSUME NEW m \in Lines, NEW j \in 1 .. Len(line'[m].toVm),
                     line'[m].toVm[j].type = "write", line'[m].toVm[j].id = line'[n].toVm[i].id
              PROVE  n = m /\ i = j
          <5>1. j \in 1 .. Len(line[m].toVm) /\ line'[m].toVm[j] = line[m].toVm[j]
            BY <2>2, <2>12, <3>1, <4>2
          <5> QED
            BY <3>1, <4>2, <5>1 DEF PromisedOnce
        <4> QED
          BY <4>1, <4>2
      <3>2. CASE n = gatewayLine /\ \E k \in 1 .. Len(fs) : i = Len(line[n].toVm) + k
                                                            /\ line'[n].toVm[i] = fs[k]
        <4>1. t \in Writes /\ line'[n].toVm[i].id = t /\ i = Len(line[n].toVm) + 1
          BY <2>2, <3>2
        <4>2. ASSUME NEW m \in Lines, NEW j \in 1 .. Len(line'[m].toVm),
                     line'[m].toVm[j].type = "write", line'[m].toVm[j].id = t
              PROVE  n = m /\ i = j
          <5>1. PICK k \in 1 .. Len(fs) : m = gatewayLine /\ j = Len(line[m].toVm) + k
                                            /\ line'[m].toVm[j] = fs[k]
            BY <2>12, <4>2
          <5>2. k = 1
            BY <2>2, <4>2, <5>1
          <5> QED
            BY <3>2, <4>1, <5>1, <5>2
        <4> QED
          BY <1>4, <4>1, <4>2
      <3> QED
        BY <2>12, <3>1, <3>2
    <2>14. NothingBefore'
      <3> SUFFICES ASSUME NEW x \in Transfers, transfer'[x].state = "none"
                   PROVE  /\ x \in Writes => helper[x].state = "none" /\ ~upload[x].on
                          /\ x \in Reads => reading[x].line = 0
                          /\ \A n \in Lines : /\ \A frame \in Sent(line'[n].toVm) : frame.id # x
                                              /\ \A frame \in Sent(line'[n].toGateway) : frame.id # x
        BY <1>1 DEF NothingBefore
      <3>1. x # t /\ transfer[x].state = "none"
        BY <2>7, <2>8
      <3>2. \A n \in Lines : \A frame \in Sent(line'[n].toVm) : frame.id = t \/ frame \in Sent(line[n].toVm)
        BY SMTT(30), <2>2, <2>12 DEF Sent
      <3> QED
        BY <2>9, <3>1, <3>2 DEF NothingBefore
    <2>15. \A x \in Transfers : InFlight(transfer', x) => x = t \/ InFlight(transfer, x)
      BY <2>8 DEF InFlight
    <2>16. GoodNews'
      <3>1. ASSUME NEW n \in Lines, NEW frame \in Sent(line'[n].toGateway), frame.type = "done"
            PROVE  /\ frame.id \in Writes => helper[frame.id].state = "renamed"
                   /\ frame.id \in Reads /\ InFlight(transfer', frame.id)
                         => Contents(frame.of, frame.seq) \in held'[frame.id]
        <4>1. frame \in Sent(line[n].toGateway) /\ frame.id # t
          BY <1>3, <2>9
        <4> QED
          BY <1>2, <2>15, <3>1, <4>1 DEF GoodNews, Transfers
      <3>2. ASSUME NEW r \in Reads, InFlight(transfer', r)
            PROVE  file \in held'[r] /\ (reading[r].line # 0 => reading[r].of \in held'[r])
        BY <1>2, <1>4, <2>15, <3>2 DEF GoodNews, Transfers
      <3> QED
        BY <1>1, <3>1, <3>2 DEF GoodNews
    <2>17. WaitsOnALine'
      BY <2>3, <2>7, <2>8, <2>9 DEF WaitsOnALine, InFlight
    <2>18. ReadsAreWhole' /\ WritesAreThere'
      BY <1>1, <1>2, <2>7, <2>8 DEF ReadsAreWhole, WritesAreThere, Transfers
    <2> QED
      BY <2>10, <2>11, <2>13, <2>14, <2>16, <2>17, <2>18
  <1> QED
    BY <1>5, <1>6

-----------------------------------------------------------------------------
(* The connection, and winstond's steps.                                   *)

\* On the VM, or as its end of a connection closes: no frame comes or goes, helpers move on,
\* and what is put at the path is noted for the reads that are on.
LEMMA InsideStep ==
  ASSUME TransfersInv, line' \in Connections, gatewayLine' = gatewayLine, transfer' = transfer,
         DaemonTypes', InOrder',
         \A m \in Lines : /\ line'[m].gateway = line[m].gateway /\ line'[m].toVm = line[m].toVm
                          /\ line'[m].toGateway = line[m].toGateway
                          /\ line'[m].vm = "open" => line[m].vm = "open",
         \A w \in Writes : /\ ~upload[w].on => ~upload'[w].on
                           /\ helper[w].state \in {"none", "renamed"} => helper'[w].state = helper[w].state,
         \A r \in Reads : reading'[r].line # 0 => reading'[r] = reading[r],
         file' \in WholeFiles, held' \in [Reads -> SUBSET WholeFiles],
         \A r \in Reads : held[r] \subseteq held'[r] /\ (InFlight(transfer, r) => file' \in held'[r])
  PROVE  TransfersInv'
  <1>0. /\ LineTypes /\ TransferTypes /\ DaemonTypes /\ OneLine /\ NothingBefore /\ PromisedOnce
        /\ GoodNews /\ WaitsOnALine /\ ReadsAreWhole /\ WritesAreThere
    BY DEF TransfersInv
  <1>1. LineTypes' /\ TransferTypes'
    BY <1>0 DEF LineTypes, TransferTypes
  <1>2. OneLine' /\ WaitsOnALine'
    <2>1. gatewayLine # 0 => gatewayLine \in Lines
      BY <1>0 DEF LineTypes, Lines
    <2> QED
      BY <1>0, <2>1 DEF OneLine, WaitsOnALine
  <1>3. PromisedOnce'
    <2>1. \A m \in Lines : Shortened(line[m].toVm, line'[m].toVm)
      BY DEF Shortened
    <2>2. \A w \in Writes : helper[w].state = "none" => helper'[w].state = "none"
      OBVIOUS
    <2> QED
      BY <1>0, <1>1, <2>1, <2>2, PromiseStays
  <1>4. NothingBefore'
    <2>1. \A m \in Lines : /\ Sent(line'[m].toVm) \subseteq Sent(line[m].toVm)
                           /\ Sent(line'[m].toGateway) \subseteq Sent(line[m].toGateway)
      OBVIOUS
    <2>2. \A r \in Reads : reading[r].line = 0 => reading'[r].line = 0
      OBVIOUS
    <2>3. \A w \in Writes : helper[w].state = "none" /\ ~upload[w].on
                              => helper'[w].state = "none" /\ ~upload'[w].on
      OBVIOUS
    <2>4. \A t \in Transfers : transfer'[t].state = "none" => transfer[t].state = "none"
      OBVIOUS
    <2> QED
      BY <1>0, <2>1, <2>2, <2>3, <2>4, NothingBeforeStays
  <1>5. GoodNews'
    <2>1. ASSUME NEW m \in Lines, NEW f \in Sent(line'[m].toGateway), f.type = "done"
          PROVE  /\ f.id \in Writes => helper'[f.id].state = "renamed"
                 /\ f.id \in Reads /\ InFlight(transfer, f.id) => Contents(f.of, f.seq) \in held'[f.id]
      <3>1. f \in Sent(line[m].toGateway)
        BY <2>1
      <3>2. ASSUME f.id \in Writes
            PROVE  helper'[f.id].state = "renamed"
        <4>1. PICK w \in Writes : w = f.id
          BY <3>2
        <4>2. helper[w].state = "renamed"
          BY <1>0, <2>1, <3>1, <4>1 DEF GoodNews
        <4> QED
          BY <4>1, <4>2
      <3>3. ASSUME f.id \in Reads, InFlight(transfer, f.id)
            PROVE  Contents(f.of, f.seq) \in held'[f.id]
        <4>1. PICK r \in Reads : r = f.id
          BY <3>3
        <4>2. Contents(f.of, f.seq) \in held[r]
          BY <1>0, <2>1, <3>1, <3>3, <4>1 DEF GoodNews
        <4> QED
          BY <4>1, <4>2
      <3> QED
        BY <3>2, <3>3
    <2>2. ASSUME NEW r \in Reads, InFlight(transfer, r)
          PROVE  file' \in held'[r] /\ (reading'[r].line # 0 => reading'[r].of \in held'[r])
      <3>1. reading'[r].line # 0 => reading'[r].of \in held[r]
        BY <1>0, <2>2 DEF GoodNews
      <3> QED
        BY <2>2, <3>1
    <2> QED
      BY <2>1, <2>2 DEF GoodNews, InFlight
  <1>6. ReadsAreWhole' /\ WritesAreThere'
    BY <1>0 DEF ReadsAreWhole, WritesAreThere
  <1> QED
    BY <1>1, <1>2, <1>3, <1>4, <1>5, <1>6 DEF TransfersInv

LEMMA ConnectStep ==
  ASSUME TransfersInv, NEW n \in Lines, VmConnects(n)
  PROVE  TransfersInv'
  <1> USE DEF TransfersInv
  <1>1. /\ LineAtVm = {} /\ line[n].vm = "none"
        /\ line' = [line EXCEPT ![n] = [vm |-> "open", gateway |-> "open", toVm |-> <<>>, toGateway |-> <<>>]]
        /\ gatewayLine' = n
        /\ transfer' = transfer /\ upload' = upload /\ helper' = helper
        /\ reading' = reading /\ file' = file /\ held' = held
    BY DEF VmConnects
  <1>2. /\ line' \in Connections
        /\ line'[n].gateway = "open" /\ line'[n].toVm = <<>> /\ line'[n].toGateway = <<>>
        /\ \A m \in Lines : m # n => line'[m] = line[m] /\ line[m].vm # "open"
    BY <1>1, <<>> \in Seq(VmFrames), <<>> \in Seq(GatewayFrames) DEF LineTypes, Connections, LineAtVm
  <1>3. LineTypes' /\ TransferTypes' /\ DaemonTypes'
    BY <1>1, <1>2, TransfersAssumption DEF LineTypes, TransferTypes, DaemonTypes, Lines
  <1>4. OneLine' /\ InOrder'
    <2>1. \A x, y \in Lines : line'[x].vm = "open" /\ line'[y].vm = "open" => x = y
      BY <1>2
    <2>2. line'[gatewayLine'].gateway = "open"
      BY <1>1, <1>2
    <2>3. InOrder'
      BY <1>1 DEF InOrder
    <2> QED
      BY <2>1, <2>2, <2>3 DEF OneLine
  <1>5. /\ \A m \in Lines : Shortened(line[m].toVm, line'[m].toVm)
        /\ \A m \in Lines : Sent(line'[m].toGateway) \subseteq Sent(line[m].toGateway)
    BY <1>2, SentNothing DEF Shortened
  <1>6. PromisedOnce' /\ \A m \in Lines : Sent(line'[m].toVm) \subseteq Sent(line[m].toVm)
    BY <1>1, <1>3, <1>5, PromiseStays
  <1>7. NothingBefore'
    BY <1>1, <1>5, <1>6, NothingBeforeStays
  <1>8. GoodNews'
    BY <1>1, <1>5 DEF GoodNews
  <1>9. WaitsOnALine'
    BY <1>1, <1>2 DEF WaitsOnALine
  <1>10. ReadsAreWhole' /\ WritesAreThere'
    BY <1>1 DEF ReadsAreWhole, WritesAreThere
  <1> QED
    BY <1>3, <1>4, <1>6, <1>7, <1>8, <1>9, <1>10

\* Either end of a connection may close, and nothing else change with it.
LEMMA VmClosesStep ==
  ASSUME TransfersInv, NEW n \in Lines, VmSeesClose(n)
  PROVE  TransfersInv'
  <1> USE DEF TransfersInv
  <1>1. /\ line' = [line EXCEPT ![n].vm = "closed"]
        /\ gatewayLine' = gatewayLine /\ transfer' = transfer /\ upload' = upload /\ helper' = helper
        /\ reading' = reading /\ file' = file /\ held' = held
    BY DEF VmSeesClose
  <1>2. /\ line' \in Connections
        /\ \A m \in Lines : /\ line'[m].gateway = line[m].gateway /\ line'[m].toVm = line[m].toVm
                            /\ line'[m].toGateway = line[m].toGateway
                            /\ line'[m].vm = "open" => line[m].vm = "open"
    BY <1>1 DEF LineTypes, Connections
  <1>3. DaemonTypes' /\ InOrder'
    BY <1>1 DEF DaemonTypes, InOrder
  <1>4. /\ file' \in WholeFiles /\ held' \in [Reads -> SUBSET WholeFiles]
        /\ \A r \in Reads : InFlight(transfer, r) => file' \in held'[r]
    BY <1>1 DEF TransferTypes, GoodNews
  <1> QED
    BY <1>1, <1>2, <1>3, <1>4, InsideStep

LEMMA TakesReadStep ==
  ASSUME TransfersInv, NEW n \in Lines, line[n].toVm # <<>>,
         TakesRead(n, Head(line[n].toVm)), UNCHANGED <<gatewayLine, transfer, file, held>>
  PROVE  TransfersInv'
  <1> USE DEF TransfersInv
  <1>1. PICK frame : frame = Head(line[n].toVm)
    OBVIOUS
  <1>2. PICK all : all = TakenFrom(n)
    OBVIOUS
  <1>3. /\ all \in Connections
        /\ frame \in VmFrames /\ frame \in Sent(line[n].toVm)
        /\ all[n].toVm = Tail(line[n].toVm)
        /\ \A m \in Lines : /\ all[m].vm = line[m].vm /\ all[m].gateway = line[m].gateway
                            /\ all[m].toGateway = line[m].toGateway
                            /\ m # n => all[m].toVm = line[m].toVm
    BY <1>1, <1>2, TakenAtVm
  <1>4. PICK r \in Reads : r = frame.id
    BY <1>1, <1>3 DEF TakesRead, VmFrames
  <1>5. /\ upload' = upload /\ helper' = helper
        /\ gatewayLine' = gatewayLine /\ transfer' = transfer /\ file' = file /\ held' = held
        /\ \/ reading' = [reading EXCEPT ![r] = [line |-> n, of |-> file, seq |-> 0]] /\ line' = all
           \/ reading' = reading /\ line' = OnLine(all, n, FileFrame("error", r, 0, Original))
    BY <1>1, <1>2, <1>4 DEF TakesRead, TakenFrom
  <1>6. PICK error \in GatewayFrames : /\ error = FileFrame("error", r, 0, Original)
                                       /\ error.id = r /\ error.type = "error"
    <2>1. r \in Transfers /\ 0 \in 0 .. FileChunks /\ Original \in Sources
      BY TransfersAssumption DEF Transfers, Sources
    <2> QED
      BY <2>1, FrameFacts
  <1>7. /\ line' \in Connections
        /\ \A m \in Lines : /\ line'[m].vm = all[m].vm /\ line'[m].gateway = all[m].gateway
                            /\ line'[m].toVm = all[m].toVm
                            /\ Sent(line'[m].toGateway) \subseteq Sent(all[m].toGateway) \cup {error}
    <2>1. CASE line' = all
      BY <1>3, <2>1
    <2>2. CASE line' = OnLine(all, n, error)
      BY <1>3, <2>2, OnLineFacts
    <2> QED
      BY <1>5, <1>6, <2>1, <2>2
  <1>8. /\ reading' \in [Reads -> [line : 0 .. MaxLines, of : WholeFiles, seq : 0 .. FileChunks]]
        /\ \A x \in Reads : x # r => reading'[x] = reading[x]
        /\ reading'[r] = reading[r] \/ reading'[r].of = file
    <2>1. PICK new : new = [line |-> n, of |-> file, seq |-> 0]
      OBVIOUS
    <2>2. new.of = file /\ new \in [line : 0 .. MaxLines, of : WholeFiles, seq : 0 .. FileChunks]
      BY <2>1, TransfersAssumption DEF TransferTypes, Lines
    <2>3. CASE reading' = reading
      BY <2>3 DEF DaemonTypes
    <2>4. CASE reading' = [reading EXCEPT ![r] = new]
      BY <2>2, <2>4 DEF DaemonTypes
    <2> QED
      BY <1>5, <2>1, <2>3, <2>4
  <1>9. transfer[r].state # "none"
    BY <1>3, <1>4 DEF NothingBefore, Transfers
  <1>10. LineTypes' /\ TransferTypes' /\ DaemonTypes'
    BY <1>5, <1>7, <1>8 DEF LineTypes, TransferTypes, DaemonTypes
  <1>11. OneLine' /\ InOrder' /\ WaitsOnALine'
    <2>1. \A m \in Lines : line'[m].vm = line[m].vm /\ line'[m].gateway = line[m].gateway
      BY <1>3, <1>7
    <2>2. gatewayLine # 0 => gatewayLine \in Lines
      BY DEF LineTypes, Lines
    <2> QED
      BY <1>5, <2>1, <2>2 DEF OneLine, InOrder, WaitsOnALine
  <1>12. \A m \in Lines : Shortened(line[m].toVm, line'[m].toVm)
    BY <1>3, <1>7 DEF Shortened
  <1>13. PromisedOnce' /\ \A m \in Lines : Sent(line'[m].toVm) \subseteq Sent(line[m].toVm)
    BY <1>5, <1>10, <1>12, PromiseStays
  <1>14. NothingBefore'
    <2> SUFFICES ASSUME NEW x \in Transfers, transfer[x].state = "none"
                 PROVE  /\ x \in Writes => helper[x].state = "none" /\ ~upload[x].on
                        /\ x \in Reads => reading'[x].line = 0
                        /\ \A m \in Lines : /\ \A f \in Sent(line'[m].toVm) : f.id # x
                                            /\ \A f \in Sent(line'[m].toGateway) : f.id # x
      BY <1>5 DEF NothingBefore
    <2>1. x # r
      BY <1>9
    <2>2. /\ x \in Writes => helper[x].state = "none" /\ ~upload[x].on
          /\ x \in Reads => reading'[x].line = 0
      BY <1>8, <2>1 DEF NothingBefore
    <2>3. \A m \in Lines : Sent(line'[m].toGateway) \subseteq Sent(line[m].toGateway) \cup {error}
      BY <1>3, <1>7
    <2> QED
      BY <1>6, <1>13, <2>1, <2>2, <2>3 DEF NothingBefore
  <1>15. GoodNews'
    <2>1. ASSUME NEW m \in Lines, NEW f \in Sent(line'[m].toGateway), f.type = "done"
          PROVE  f \in Sent(line[m].toGateway)
      BY <1>3, <1>6, <1>7, <2>1
    <2>2. ASSUME NEW x \in Reads, InFlight(transfer, x)
          PROVE  reading'[x].line # 0 => reading'[x].of \in held[x]
      BY <1>8, <2>2 DEF GoodNews
    <2> QED
      BY <1>5, <2>1, <2>2 DEF GoodNews
  <1>16. ReadsAreWhole' /\ WritesAreThere'
    BY <1>5 DEF ReadsAreWhole, WritesAreThere
  <1> QED
    BY <1>10, <1>11, <1>13, <1>14, <1>15, <1>16

LEMMA TakesWriteStep ==
  ASSUME TransfersInv, NEW n \in Lines, line[n].toVm # <<>>,
         TakesWrite(n, Head(line[n].toVm)), UNCHANGED <<gatewayLine, transfer, file, held>>
  PROVE  TransfersInv'
  <1> USE DEF TransfersInv
  <1>1. PICK frame : frame = Head(line[n].toVm)
    OBVIOUS
  <1>2. PICK all : all = TakenFrom(n)
    OBVIOUS
  <1>3. /\ all \in Connections
        /\ frame \in VmFrames /\ frame \in Sent(line[n].toVm)
        /\ all[n].toVm = Tail(line[n].toVm)
        /\ \A m \in Lines : /\ all[m].vm = line[m].vm /\ all[m].gateway = line[m].gateway
                            /\ all[m].toGateway = line[m].toGateway
                            /\ m # n => all[m].toVm = line[m].toVm
    BY <1>1, <1>2, TakenAtVm
  <1>4. PICK w \in Writes : w = frame.id
    BY <1>1, <1>3 DEF TakesWrite, VmFrames
  <1>5. /\ frame.type = "write" /\ line' = all /\ reading' = reading
        /\ upload' = [upload EXCEPT ![w] = UploadOn(n)]
        /\ helper' = [helper EXCEPT ![w] = [state |-> "writing", size |-> 0]]
        /\ gatewayLine' = gatewayLine /\ transfer' = transfer /\ file' = file /\ held' = held
    BY <1>1, <1>2, <1>4 DEF TakesWrite, TakenFrom
  <1>6. /\ upload' \in [Writes -> [on : BOOLEAN, line : 0 .. MaxLines, seq : 0 .. FileChunks,
                                   items : 0 .. FileChunks, closed : BOOLEAN, failed : BOOLEAN]]
        /\ upload'[w].line = n /\ upload'[w].seq = 0 /\ upload'[w].items = 0
        /\ \A x \in Writes : x # w => upload'[x] = upload[x]
    <2>1. PICK new : new = UploadOn(n)
      OBVIOUS
    <2>2. upload' = [upload EXCEPT ![w] = new]
      BY <1>5, <2>1
    <2>3. /\ new \in [on : BOOLEAN, line : 0 .. MaxLines, seq : 0 .. FileChunks,
                      items : 0 .. FileChunks, closed : BOOLEAN, failed : BOOLEAN]
          /\ new.line = n /\ new.seq = 0 /\ new.items = 0
      BY <2>1, TransfersAssumption DEF UploadOn, Lines
    <2> QED
      BY <2>2, <2>3 DEF DaemonTypes
  <1>7. /\ helper' \in [Writes -> [state : {"none", "writing", "renamed", "removed", "killed"},
                                   size : 0 .. FileChunks]]
        /\ helper'[w].size = 0 /\ \A x \in Writes : x # w => helper'[x] = helper[x]
    BY <1>5, TransfersAssumption DEF DaemonTypes
  <1>8. transfer[w].state # "none"
    BY <1>3, <1>4 DEF NothingBefore, Transfers
  <1>9. line[n].toVm \in Seq(VmFrames) /\ 1 \in 1 .. Len(line[n].toVm) /\ line[n].toVm[1] = frame
    BY <1>1 DEF LineTypes, Connections
  <1>10. helper[w].state = "none"
    BY <1>4, <1>5, <1>9 DEF PromisedOnce
  <1>11. LineTypes' /\ TransferTypes' /\ DaemonTypes'
    BY <1>3, <1>5, <1>6, <1>7 DEF LineTypes, TransferTypes, DaemonTypes
  <1>12. OneLine' /\ WaitsOnALine'
    <2>1. gatewayLine # 0 => gatewayLine \in Lines
      BY DEF LineTypes, Lines
    <2> QED
      BY <1>3, <1>5, <2>1 DEF OneLine, WaitsOnALine
  <1>13. InOrder'
    <2> SUFFICES ASSUME NEW x \in Writes, upload'[x].on
                 PROVE  upload'[x].line \in Lines /\ helper'[x].size + upload'[x].items <= upload'[x].seq
      BY DEF InOrder
    <2>1. CASE x = w
      BY <1>6, <1>7, <2>1
    <2>2. CASE x # w
      BY <1>6, <1>7, <2>2 DEF InOrder
    <2> QED
      BY <2>1, <2>2
  \* Its promise is taken, and there was no other.
  <1>14. \A m \in Lines : \A i \in 1 .. Len(line'[m].toVm) :
            line'[m].toVm[i].type = "write" => line'[m].toVm[i].id # w
    <2> SUFFICES ASSUME NEW m \in Lines, NEW i \in 1 .. Len(line'[m].toVm),
                        line'[m].toVm[i].type = "write", line'[m].toVm[i].id = w
                 PROVE  FALSE
      OBVIOUS
    <2>1. CASE m = n
      <3>1. i + 1 \in 1 .. Len(line[n].toVm) /\ line'[m].toVm[i] = line[n].toVm[i + 1]
        <4>1. line'[m].toVm = Tail(line[n].toVm)
          BY <1>3, <1>5, <2>1
        <4> QED
          BY <1>9, <4>1, TailFacts
      <3>2. 1 = i + 1
        BY <1>4, <1>5, <1>9, <3>1 DEF PromisedOnce
      <3> QED
        BY <1>3, <1>5, <1>9, <2>1, <3>1, <3>2
    <2>2. CASE m # n
      <3>1. line'[m].toVm = line[m].toVm
        BY <1>3, <1>5, <2>2
      <3>2. line[m].toVm[i].type = "write" /\ line[m].toVm[i].id = line[n].toVm[1].id
        BY <1>4, <1>9, <3>1
      <3> QED
        BY <1>5, <1>9, <2>2, <3>1, <3>2 DEF PromisedOnce
    <2> QED
      BY <2>1, <2>2
  <1>15. PromisedOnce' /\ \A m \in Lines : Sent(line'[m].toVm) \subseteq Sent(line[m].toVm)
    <2>1. \A m \in Lines : Shortened(line[m].toVm, line'[m].toVm)
      BY <1>3, <1>5 DEF Shortened
    <2>2. \A x \in Writes : x # w /\ helper[x].state = "none" => helper'[x].state = "none"
      BY <1>7
    <2> QED
      BY <1>11, <1>14, <2>1, <2>2, PromiseStays
  <1>16. NothingBefore'
    <2> SUFFICES ASSUME NEW x \in Transfers, transfer[x].state = "none"
                 PROVE  /\ x \in Writes => helper'[x].state = "none" /\ ~upload'[x].on
                        /\ x \in Reads => reading[x].line = 0
                        /\ \A m \in Lines : /\ \A f \in Sent(line'[m].toVm) : f.id # x
                                            /\ \A f \in Sent(line'[m].toGateway) : f.id # x
      BY <1>5 DEF NothingBefore
    <2>1. x # w
      BY <1>8
    <2>2. /\ x \in Writes => helper'[x].state = "none" /\ ~upload'[x].on
          /\ x \in Reads => reading[x].line = 0
      BY <1>6, <1>7, <2>1 DEF NothingBefore
    <2>3. \A m \in Lines : line'[m].toGateway = line[m].toGateway
      BY <1>3, <1>5
    <2> QED
      BY <1>15, <2>2, <2>3 DEF NothingBefore
  <1>17. GoodNews'
    <2>1. ASSUME NEW m \in Lines, NEW f \in Sent(line'[m].toGateway), f.type = "done"
          PROVE  /\ f.id \in Writes => helper'[f.id].state = "renamed"
                 /\ f.id \in Reads /\ InFlight(transfer, f.id) => Contents(f.of, f.seq) \in held[f.id]
      <3>1. f \in Sent(line[m].toGateway)
        BY <1>3, <1>5
      <3> QED
        BY <1>7, <1>10, <2>1, <3>1 DEF GoodNews
    <2> QED
      BY <1>5, <2>1 DEF GoodNews
  <1>18. ReadsAreWhole' /\ WritesAreThere'
    BY <1>5, <1>7, <1>10 DEF ReadsAreWhole, WritesAreThere
  <1> QED
    BY <1>11, <1>12, <1>13, <1>15, <1>16, <1>17, <1>18

\* A chunk, or the end, of a write.
LEMMA TakesMoreStep ==
  ASSUME TransfersInv, NEW n \in Lines, line[n].toVm # <<>>,
         TakesChunk(n, Head(line[n].toVm)) \/ TakesEnd(n, Head(line[n].toVm)),
         UNCHANGED <<gatewayLine, transfer, file, held>>
  PROVE  TransfersInv'
  <1> USE DEF TransfersInv
  <1>1. PICK frame : frame = Head(line[n].toVm)
    OBVIOUS
  <1>2. PICK all : all = TakenFrom(n)
    OBVIOUS
  <1>3. /\ all \in Connections
        /\ frame \in VmFrames
        /\ all[n].toVm = Tail(line[n].toVm)
        /\ \A m \in Lines : /\ all[m].vm = line[m].vm /\ all[m].gateway = line[m].gateway
                            /\ all[m].toGateway = line[m].toGateway
                            /\ m # n => all[m].toVm = line[m].toVm
    BY <1>1, <1>2, TakenAtVm
  <1>4. PICK w \in Writes : w = frame.id
    BY <1>1, <1>3 DEF TakesChunk, TakesEnd, VmFrames
  <1>5. /\ line' = all /\ reading' = reading /\ helper' = helper
        /\ gatewayLine' = gatewayLine /\ transfer' = transfer /\ file' = file /\ held' = held
    BY <1>2 DEF TakesChunk, TakesEnd, TakenFrom
  <1>6. \/ upload' = upload
        \/ upload' = [upload EXCEPT ![w].failed = TRUE]
        \/ upload' = [upload EXCEPT ![w].closed = TRUE]
        \/ /\ upload' = [upload EXCEPT ![w].seq = @ + 1, ![w].items = @ + 1]
           /\ upload[w].on /\ upload[w].seq + 1 \in 0 .. FileChunks
    <2>1. frame.seq \in 0 .. FileChunks - 1 \/ frame.type = "read"
      BY <1>3 DEF VmFrames
    <2>2. CASE TakesEnd(n, frame)
      BY <1>4, <2>2 DEF TakesEnd
    <2>3. CASE TakesChunk(n, frame)
      <3>1. frame.seq + 1 \in 0 .. FileChunks
        <4>1. frame.type = "chunk"
          BY <2>3 DEF TakesChunk
        <4>2. frame.seq \in 0 .. FileChunks - 1 /\ FileChunks \in Nat
          BY <2>1, <4>1, TransfersAssumption
        <4> QED
          BY <4>2
      <3> QED
        BY <1>4, <2>3, <3>1 DEF TakesChunk
    <2> QED
      BY <1>1, <2>2, <2>3
  <1>7. /\ upload' \in [Writes -> [on : BOOLEAN, line : 0 .. MaxLines, seq : 0 .. FileChunks,
                                   items : 0 .. FileChunks, closed : BOOLEAN, failed : BOOLEAN]]
        /\ \A x \in Writes : /\ upload'[x].on = upload[x].on /\ upload'[x].line = upload[x].line
                             /\ \/ upload'[x].seq = upload[x].seq /\ upload'[x].items = upload[x].items
                                \/ /\ upload'[x].seq = upload[x].seq + 1
                                   /\ upload'[x].items = upload[x].items + 1
    <2>1. CASE upload' = upload
      BY <2>1 DEF DaemonTypes
    <2>2. CASE upload' = [upload EXCEPT ![w].failed = TRUE]
      BY ZenonT(30), <2>2 DEF DaemonTypes
    <2>3. CASE upload' = [upload EXCEPT ![w].closed = TRUE]
      BY ZenonT(30), <2>3 DEF DaemonTypes
    <2>4. CASE /\ upload' = [upload EXCEPT ![w].seq = @ + 1, ![w].items = @ + 1]
               /\ upload[w].on /\ upload[w].seq + 1 \in 0 .. FileChunks
      <3>1. upload[w].items <= upload[w].seq /\ upload[w].items \in Nat /\ upload[w].seq \in Nat
        BY <2>4 DEF InOrder, DaemonTypes
      <3>2. upload[w].items + 1 \in 0 .. FileChunks
        BY <2>4, <3>1, TransfersAssumption
      <3> QED
        BY ZenonT(30), <2>4, <3>2 DEF DaemonTypes
    <2> QED
      BY <1>6, <2>1, <2>2, <2>3, <2>4
  <1>8. LineTypes' /\ TransferTypes' /\ DaemonTypes'
    BY <1>3, <1>5, <1>7 DEF LineTypes, TransferTypes, DaemonTypes
  <1>9. OneLine' /\ WaitsOnALine'
    <2>1. gatewayLine # 0 => gatewayLine \in Lines
      BY DEF LineTypes, Lines
    <2> QED
      BY <1>3, <1>5, <2>1 DEF OneLine, WaitsOnALine
  <1>10. InOrder'
    <2> SUFFICES ASSUME NEW x \in Writes, upload[x].on
                 PROVE  upload'[x].line \in Lines /\ helper[x].size + upload'[x].items <= upload'[x].seq
      BY <1>5, <1>7 DEF InOrder
    <2>1. /\ upload[x].line \in Lines /\ helper[x].size + upload[x].items <= upload[x].seq
          /\ helper[x].size \in Nat /\ upload[x].items \in Nat /\ upload[x].seq \in Nat
      BY DEF InOrder, DaemonTypes
    <2>2. \/ upload'[x].seq = upload[x].seq /\ upload'[x].items = upload[x].items
          \/ upload'[x].seq = upload[x].seq + 1 /\ upload'[x].items = upload[x].items + 1
      BY <1>7
    <2>3. helper[x].size + upload'[x].items <= upload'[x].seq
      BY <2>1, <2>2
    <2>4. upload'[x].line \in Lines
      BY <1>7, <2>1
    <2> QED
      BY <2>3, <2>4
  <1>11. PromisedOnce' /\ \A m \in Lines : Sent(line'[m].toVm) \subseteq Sent(line[m].toVm)
    <2>1. \A m \in Lines : Shortened(line[m].toVm, line'[m].toVm)
      BY <1>3, <1>5 DEF Shortened
    <2> QED
      BY <1>5, <1>8, <2>1, PromiseStays
  <1>12. NothingBefore'
    BY <1>3, <1>5, <1>7, <1>11, NothingBeforeStays
  <1>13. GoodNews'
    BY <1>3, <1>5 DEF GoodNews
  <1>14. ReadsAreWhole' /\ WritesAreThere'
    BY <1>5 DEF ReadsAreWhole, WritesAreThere
  <1> QED
    BY <1>8, <1>9, <1>10, <1>11, <1>12, <1>13, <1>14

LEMMA SaidFacts ==
  ASSUME LineTypes, NEW n \in Lines, NEW frame \in GatewayFrames, line' = OnLine(line, n, frame)
  PROVE  /\ line' \in Connections
         /\ \A m \in Lines : /\ line'[m].vm = line[m].vm /\ line'[m].gateway = line[m].gateway
                             /\ line'[m].toVm = line[m].toVm
                             /\ Sent(line'[m].toGateway) \subseteq Sent(line[m].toGateway) \cup {frame}
  <1>1. PICK next : next = OnLine(line, n, frame)
    OBVIOUS
  <1>2. line \in Connections
    BY DEF LineTypes
  <1>3. /\ next \in Connections
        /\ \A m \in Lines : /\ next[m].vm = line[m].vm /\ next[m].gateway = line[m].gateway
                            /\ next[m].toVm = line[m].toVm
                            /\ Sent(next[m].toGateway) \subseteq Sent(line[m].toGateway) \cup {frame}
    BY ZenonT(30), <1>1, <1>2, OnLineFacts
  <1> QED
    BY <1>1, <1>3

\* Winstond sends a frame that is no untimely good news.
LEMMA SaysStep ==
  ASSUME TransfersInv, NEW n \in Lines, NEW frame \in GatewayFrames,
         line' = OnLine(line, n, frame),
         gatewayLine' = gatewayLine, transfer' = transfer, helper' = helper, file' = file, held' = held,
         DaemonTypes', InOrder',
         transfer[frame.id].state # "none",
         frame.type = "done" /\ frame.id \in Writes => helper[frame.id].state = "renamed",
         frame.type = "done" /\ frame.id \in Reads /\ InFlight(transfer, frame.id)
             => Contents(frame.of, frame.seq) \in held[frame.id],
         \A w \in Writes : ~upload[w].on => ~upload'[w].on,
         \A r \in Reads : reading'[r].line # 0 => reading[r].line # 0 /\ reading'[r].of = reading[r].of
  PROVE  TransfersInv'
  <1> USE DEF TransfersInv
  <1>1. /\ line' \in Connections
        /\ \A m \in Lines : /\ line'[m].vm = line[m].vm /\ line'[m].gateway = line[m].gateway
                            /\ line'[m].toVm = line[m].toVm
                            /\ Sent(line'[m].toGateway) \subseteq Sent(line[m].toGateway) \cup {frame}
    BY SaidFacts
  <1>2. LineTypes' /\ TransferTypes'
    BY <1>1 DEF LineTypes, TransferTypes
  <1>3. OneLine' /\ WaitsOnALine'
    <2>1. gatewayLine # 0 => gatewayLine \in Lines
      BY DEF LineTypes, Lines
    <2> QED
      BY <1>1, <2>1 DEF OneLine, WaitsOnALine
  <1>4. PromisedOnce'
    BY SMTT(30), <1>1 DEF PromisedOnce
  <1>5. NothingBefore'
    <2> SUFFICES ASSUME NEW x \in Transfers, transfer[x].state = "none"
                 PROVE  /\ x \in Writes => helper[x].state = "none" /\ ~upload'[x].on
                        /\ x \in Reads => reading'[x].line = 0
                        /\ \A m \in Lines : /\ \A f \in Sent(line'[m].toVm) : f.id # x
                                            /\ \A f \in Sent(line'[m].toGateway) : f.id # x
      BY DEF NothingBefore
    <2>1. x # frame.id
      OBVIOUS
    <2>2. /\ x \in Writes => helper[x].state = "none" /\ ~upload'[x].on
          /\ x \in Reads => reading'[x].line = 0
      BY DEF NothingBefore
    <2>3. ASSUME NEW m \in Lines
          PROVE  /\ \A f \in Sent(line'[m].toVm) : f.id # x
                 /\ \A f \in Sent(line'[m].toGateway) : f.id # x
      <3>1. /\ \A f \in Sent(line[m].toVm) : f.id # x
            /\ \A f \in Sent(line[m].toGateway) : f.id # x
        BY DEF NothingBefore
      <3> QED
        BY <1>1, <2>1, <3>1
    <2> QED
      BY <2>2, <2>3
  <1>6. GoodNews'
    <2>1. ASSUME NEW m \in Lines, NEW f \in Sent(line'[m].toGateway), f.type = "done"
          PROVE  /\ f.id \in Writes => helper[f.id].state = "renamed"
                 /\ f.id \in Reads /\ InFlight(transfer, f.id) => Contents(f.of, f.seq) \in held[f.id]
      <3>1. CASE f = frame
        BY <2>1, <3>1
      <3>2. CASE f \in Sent(line[m].toGateway)
        BY <2>1, <3>2 DEF GoodNews
      <3> QED
        BY <1>1, <3>1, <3>2
    <2>2. ASSUME NEW r \in Reads, InFlight(transfer, r)
          PROVE  file \in held[r] /\ (reading'[r].line # 0 => reading'[r].of \in held[r])
      BY <2>2 DEF GoodNews
    <2> QED
      BY <2>1, <2>2 DEF GoodNews
  <1>7. ReadsAreWhole' /\ WritesAreThere'
    BY DEF ReadsAreWhole, WritesAreThere
  <1> QED
    BY <1>2, <1>3, <1>4, <1>5, <1>6, <1>7

LEMMA SendsChunkStep ==
  ASSUME TransfersInv, NEW r \in Reads, SendsChunk(r)
  PROVE  TransfersInv'
  <1> USE DEF TransfersInv
  <1>1. /\ reading[r].line \in Lines /\ reading[r].seq \in 0 .. FileChunks - 1
        /\ reading[r].of.of \in Sources
    BY TransfersAssumption DEF SendsChunk, DaemonTypes, WholeFiles, Lines
  <1>2. PICK frame \in GatewayFrames :
           /\ frame = FileFrame("chunk", r, reading[r].seq, reading[r].of.of)
           /\ frame.id = r /\ frame.type = "chunk"
    <2>1. PICK frame : frame = FileFrame("chunk", r, reading[r].seq, reading[r].of.of)
      OBVIOUS
    <2>2. frame \in GatewayFrames /\ frame.id = r /\ frame.type = "chunk"
      BY <1>1, <2>1 DEF FileFrame, GatewayFrames
    <2> QED
      BY <2>1, <2>2
  <1>3. /\ line' = OnLine(line, reading[r].line, frame)
        /\ reading' = [reading EXCEPT ![r].seq = @ + 1]
        /\ gatewayLine' = gatewayLine /\ transfer' = transfer /\ upload' = upload /\ helper' = helper
        /\ file' = file /\ held' = held
    BY <1>2 DEF SendsChunk
  <1>4. reading[r].seq + 1 \in 0 .. FileChunks
    BY <1>1, TransfersAssumption
  <1>5. /\ reading' \in [Reads -> [line : 0 .. MaxLines, of : WholeFiles, seq : 0 .. FileChunks]]
        /\ \A x \in Reads : reading'[x].line = reading[x].line /\ reading'[x].of = reading[x].of
    BY <1>3, <1>4 DEF DaemonTypes
  <1>6. DaemonTypes' /\ InOrder'
    BY <1>3, <1>5 DEF DaemonTypes, InOrder
  <1>7. transfer[r].state # "none"
    BY <1>1, TransfersAssumption DEF NothingBefore, Transfers, Lines
  <1> QED
    BY <1>1, <1>2, <1>3, <1>5, <1>6, <1>7, SaysStep

LEMMA SendsDoneStep ==
  ASSUME TransfersInv, NEW r \in Reads, SendsDone(r)
  PROVE  TransfersInv'
  <1> USE DEF TransfersInv
  <1>1. /\ reading[r].line \in Lines /\ reading[r].seq = FileChunks
        /\ reading[r].of \in WholeFiles /\ reading[r].of.of \in Sources
        /\ Contents(reading[r].of.of, FileChunks) = reading[r].of
    BY TransfersAssumption DEF SendsDone, DaemonTypes, WholeFiles, Lines, Contents
  <1>2. PICK frame \in GatewayFrames :
           /\ frame = FileFrame("done", r, reading[r].seq, reading[r].of.of)
           /\ frame.id = r /\ frame.type = "done" /\ frame.seq = FileChunks /\ frame.of = reading[r].of.of
    <2>1. r \in Transfers /\ FileChunks \in 0 .. FileChunks
      BY TransfersAssumption DEF Transfers
    <2> QED
      BY <1>1, <2>1, FrameFacts
  <1>3. /\ line' = OnLine(line, reading[r].line, frame)
        /\ reading' = [reading EXCEPT ![r] = NoReading]
        /\ gatewayLine' = gatewayLine /\ transfer' = transfer /\ upload' = upload /\ helper' = helper
        /\ file' = file /\ held' = held
    BY <1>2 DEF SendsDone
  <1>4. NoReading \in [line : 0 .. MaxLines, of : WholeFiles, seq : 0 .. FileChunks] /\ NoReading.line = 0
    BY TransfersAssumption DEF NoReading, Contents, WholeFiles, Sources
  <1>5. /\ reading' \in [Reads -> [line : 0 .. MaxLines, of : WholeFiles, seq : 0 .. FileChunks]]
        /\ \A x \in Reads : reading'[x].line # 0 => reading'[x] = reading[x]
    BY <1>3, <1>4 DEF DaemonTypes
  <1>6. DaemonTypes' /\ InOrder'
    BY <1>3, <1>5 DEF DaemonTypes, InOrder
  <1>7. transfer[r].state # "none"
    BY <1>1, TransfersAssumption DEF NothingBefore, Transfers, Lines
  <1>8. InFlight(transfer, r) => Contents(frame.of, frame.seq) \in held[r]
    BY <1>1, <1>2, TransfersAssumption DEF GoodNews, Lines
  <1>9. r \notin Writes
    BY TransfersAssumption
  <1> QED
    BY <1>1, <1>2, <1>3, <1>5, <1>6, <1>7, <1>8, <1>9, SaysStep

LEMMA ReportsEndStep ==
  ASSUME TransfersInv, NEW w \in Writes, ReportsEnd(w)
  PROVE  TransfersInv'
  <1> USE DEF TransfersInv
  <1>1. upload[w].on /\ upload[w].line \in Lines /\ helper[w].state \in {"renamed", "removed"}
    BY DEF ReportsEnd, InOrder
  <1>2. PICK type : type = IF helper[w].state = "renamed" THEN "done" ELSE "error"
    OBVIOUS
  <1>3. PICK frame \in GatewayFrames : /\ frame = FileFrame(type, w, 0, w)
                                       /\ frame.id = w /\ frame.type = type
    <2>1. w \in Transfers /\ 0 \in 0 .. FileChunks /\ w \in Sources /\ type \in {"error", "done"}
      BY <1>2, TransfersAssumption DEF Transfers, Sources
    <2> QED
      BY <2>1, FrameFacts
  <1>4. /\ line' = OnLine(line, upload[w].line, frame)
        /\ upload' = [upload EXCEPT ![w] = NoUpload]
        /\ gatewayLine' = gatewayLine /\ transfer' = transfer /\ reading' = reading /\ helper' = helper
        /\ file' = file /\ held' = held
    BY <1>2, <1>3 DEF ReportsEnd
  <1>5. /\ NoUpload \in [on : BOOLEAN, line : 0 .. MaxLines, seq : 0 .. FileChunks,
                         items : 0 .. FileChunks, closed : BOOLEAN, failed : BOOLEAN]
        /\ ~NoUpload.on
    BY TransfersAssumption DEF NoUpload
  <1>6. /\ upload' \in [Writes -> [on : BOOLEAN, line : 0 .. MaxLines, seq : 0 .. FileChunks,
                                   items : 0 .. FileChunks, closed : BOOLEAN, failed : BOOLEAN]]
        /\ \A x \in Writes : upload'[x].on => upload'[x] = upload[x]
        /\ \A x \in Writes : ~upload[x].on => ~upload'[x].on
    BY <1>4, <1>5 DEF DaemonTypes
  <1>7. DaemonTypes' /\ InOrder'
    BY <1>4, <1>6 DEF DaemonTypes, InOrder
  <1>8. transfer[w].state # "none"
    BY <1>1 DEF NothingBefore, Transfers
  <1>9. type = "done" => helper[w].state = "renamed"
    BY <1>2
  <1>10. w \notin Reads
    BY TransfersAssumption
  <1> QED
    BY <1>1, <1>3, <1>4, <1>6, <1>7, <1>8, <1>9, <1>10, SaysStep

LEMMA HelperWritesStep ==
  ASSUME TransfersInv, NEW w \in Writes, HelperWrites(w)
  PROVE  TransfersInv'
  <1> USE DEF TransfersInv
  <1>1. /\ helper[w].state = "writing" /\ upload[w].on /\ upload[w].items > 0
        /\ upload' = [upload EXCEPT ![w].items = @ - 1]
        /\ helper' = [helper EXCEPT ![w].size = @ + 1]
        /\ line' = line /\ gatewayLine' = gatewayLine /\ transfer' = transfer /\ reading' = reading
        /\ file' = file /\ held' = held
    BY DEF HelperWrites
  <1>2. /\ helper[w].size + upload[w].items <= upload[w].seq /\ helper[w].size \in Nat
        /\ upload[w].items \in Nat /\ upload[w].seq \in 0 .. FileChunks
    BY <1>1 DEF InOrder, DaemonTypes
  <1>3. upload[w].items - 1 \in 0 .. FileChunks /\ helper[w].size + 1 \in 0 .. FileChunks
    BY <1>1, <1>2, TransfersAssumption
  <1>4. DaemonTypes'
    <2>1. upload' \in [Writes -> [on : BOOLEAN, line : 0 .. MaxLines, seq : 0 .. FileChunks,
                                  items : 0 .. FileChunks, closed : BOOLEAN, failed : BOOLEAN]]
      BY <1>1, <1>3 DEF DaemonTypes
    <2>2. helper' \in [Writes -> [state : {"none", "writing", "renamed", "removed", "killed"},
                                  size : 0 .. FileChunks]]
      BY <1>1, <1>3 DEF DaemonTypes
    <2> QED
      BY <1>1, <2>1, <2>2 DEF DaemonTypes
  <1>5. /\ \A x \in Writes : /\ upload'[x].on = upload[x].on /\ upload'[x].line = upload[x].line
                             /\ upload'[x].seq = upload[x].seq /\ helper'[x].state = helper[x].state
        /\ \A x \in Writes : x # w => upload'[x] = upload[x] /\ helper'[x] = helper[x]
        /\ upload'[w].items = upload[w].items - 1 /\ helper'[w].size = helper[w].size + 1
    BY <1>1 DEF DaemonTypes
  <1>6. InOrder'
    <2> SUFFICES ASSUME NEW x \in Writes, upload[x].on
                 PROVE  upload[x].line \in Lines /\ helper'[x].size + upload'[x].items <= upload[x].seq
      BY <1>5 DEF InOrder
    <2>1. CASE x = w
      BY <1>1, <1>2, <1>5, <2>1 DEF InOrder
    <2>2. CASE x # w
      BY <1>5, <2>2 DEF InOrder
    <2> QED
      BY <2>1, <2>2
  <1>7. /\ line' \in Connections /\ file' \in WholeFiles /\ held' \in [Reads -> SUBSET WholeFiles]
        /\ \A r \in Reads : InFlight(transfer, r) => file' \in held'[r]
    BY <1>1 DEF LineTypes, TransferTypes, GoodNews
  <1> QED
    BY <1>1, <1>4, <1>5, <1>6, <1>7, InsideStep

LEMMA HelperEndsStep ==
  ASSUME TransfersInv, NEW w \in Writes, HelperEnds(w) \/ HelperFails(w)
  PROVE  TransfersInv'
  <1> USE DEF TransfersInv
  <1>1. /\ helper[w].state = "writing"
        /\ line' = line /\ gatewayLine' = gatewayLine /\ transfer' = transfer /\ upload' = upload
        /\ reading' = reading
    BY DEF HelperEnds, HelperFails, InputEnds
  <1>2. PICK state \in {"renamed", "removed"} : helper' = [helper EXCEPT ![w].state = state]
    BY DEF HelperEnds, HelperFails
  <1>3. /\ helper' \in [Writes -> [state : {"none", "writing", "renamed", "removed", "killed"},
                                   size : 0 .. FileChunks]]
        /\ \A x \in Writes : helper'[x].size = helper[x].size
        /\ \A x \in Writes : x # w => helper'[x] = helper[x]
    BY <1>2 DEF DaemonTypes
  <1>4. DaemonTypes' /\ InOrder'
    BY <1>1, <1>3 DEF DaemonTypes, InOrder
  <1>5. /\ file' \in WholeFiles /\ held' \in [Reads -> SUBSET WholeFiles]
        /\ \A r \in Reads : held[r] \subseteq held'[r] /\ (InFlight(transfer, r) => file' \in held'[r])
    <2>1. CASE file' = file /\ held' = held
      BY <2>1 DEF TransferTypes, GoodNews
    <2>2. CASE /\ AsPromised(w) /\ file' = Contents(w, helper[w].size)
               /\ held' = [r \in Reads |-> IF InFlight(transfer, r) THEN held[r] \cup {file'} ELSE held[r]]
      <3>1. PICK new \in WholeFiles : new = file'
        BY <2>2 DEF AsPromised, Contents, WholeFiles, Sources
      <3>2. held' = [r \in Reads |-> IF InFlight(transfer, r) THEN held[r] \cup {new} ELSE held[r]]
        BY <2>2, <3>1
      <3> QED
        BY <3>1, <3>2 DEF TransferTypes
    <2> QED
      BY <2>1, <2>2 DEF HelperEnds, HelperFails
  <1>6. line' \in Connections
    BY <1>1 DEF LineTypes
  <1> QED
    BY <1>1, <1>3, <1>4, <1>5, <1>6, InsideStep

LEMMA ExitsStep ==
  ASSUME TransfersInv, WinstondExits
  PROVE  TransfersInv'
  <1> USE DEF TransfersInv
  <1>1. /\ line' = [n \in Lines |-> IF line[n].vm = "open" THEN [line[n] EXCEPT !.vm = "closed"] ELSE line[n]]
        /\ upload' = [w \in Writes |-> NoUpload]
        /\ reading' = [r \in Reads |-> NoReading]
        /\ gatewayLine' = gatewayLine /\ transfer' = transfer /\ file' = file /\ held' = held
    BY DEF WinstondExits
  <1>2. PICK killed \in SUBSET {w \in Writes : helper[w].state = "writing"} :
           helper' = [w \in Writes |-> IF w \in killed THEN [helper[w] EXCEPT !.state = "killed"] ELSE helper[w]]
    BY DEF WinstondExits
  <1>3. /\ line' \in Connections
        /\ \A m \in Lines : /\ line'[m].gateway = line[m].gateway /\ line'[m].toVm = line[m].toVm
                            /\ line'[m].toGateway = line[m].toGateway
                            /\ line'[m].vm = "open" => line[m].vm = "open"
    BY <1>1 DEF LineTypes, Connections
  <1>4. /\ NoUpload \in [on : BOOLEAN, line : 0 .. MaxLines, seq : 0 .. FileChunks,
                         items : 0 .. FileChunks, closed : BOOLEAN, failed : BOOLEAN]
        /\ ~NoUpload.on
    BY TransfersAssumption DEF NoUpload
  <1>5. NoReading \in [line : 0 .. MaxLines, of : WholeFiles, seq : 0 .. FileChunks] /\ NoReading.line = 0
    BY TransfersAssumption DEF NoReading, Contents, WholeFiles, Sources
  <1>6. /\ helper' \in [Writes -> [state : {"none", "writing", "renamed", "removed", "killed"},
                                   size : 0 .. FileChunks]]
        /\ \A w \in Writes : helper[w].state \in {"none", "renamed"} => helper'[w].state = helper[w].state
    BY <1>2 DEF DaemonTypes
  <1>7. DaemonTypes' /\ InOrder'
    BY <1>1, <1>4, <1>5, <1>6 DEF DaemonTypes, InOrder
  <1>8. /\ \A w \in Writes : ~upload'[w].on
        /\ \A r \in Reads : reading'[r].line = 0
    BY <1>1, <1>4, <1>5
  <1>9. /\ file' \in WholeFiles /\ held' \in [Reads -> SUBSET WholeFiles]
        /\ \A r \in Reads : held[r] \subseteq held'[r] /\ (InFlight(transfer, r) => file' \in held'[r])
    BY <1>1 DEF TransferTypes, GoodNews
  <1> QED
    BY <1>1, <1>3, <1>6, <1>7, <1>8, <1>9, InsideStep

-----------------------------------------------------------------------------
LEMMA TransfersInductive == TransfersInv /\ [TransfersNext]_transferVars => TransfersInv'
  <1> SUFFICES ASSUME TransfersInv, [TransfersNext]_transferVars
               PROVE  TransfersInv'
    OBVIOUS
  <1>1. CASE GatewayFileStep
    BY <1>1, StartStep, TimesOutStep, HandlesStep, GatewayClosesStep DEF GatewayFileStep
  <1>2. ASSUME NEW n \in Lines, VmConnects(n) \/ VmSeesClose(n) \/ VmTakesFileFrame(n)
        PROVE  TransfersInv'
    <2>1. CASE VmTakesFileFrame(n)
      <3>1. line[n].toVm # <<>> /\ UNCHANGED <<gatewayLine, transfer, file, held>>
        BY <2>1 DEF VmTakesFileFrame
      <3>2. \/ TakesRead(n, Head(line[n].toVm)) \/ TakesWrite(n, Head(line[n].toVm))
            \/ TakesChunk(n, Head(line[n].toVm)) \/ TakesEnd(n, Head(line[n].toVm))
        BY <2>1 DEF VmTakesFileFrame
      <3> QED
        BY <3>1, <3>2, TakesReadStep, TakesWriteStep, TakesMoreStep
    <2> QED
      BY <1>2, <2>1, ConnectStep, VmClosesStep
  <1>3. CASE VmFileStep
    BY <1>2, <1>3, SendsChunkStep, SendsDoneStep, HelperWritesStep, HelperEndsStep, ReportsEndStep, ExitsStep
       DEF VmFileStep
  <1>4. CASE UNCHANGED transferVars
    <2>1. /\ line' = line /\ gatewayLine' = gatewayLine /\ transfer' = transfer /\ upload' = upload
          /\ helper' = helper /\ reading' = reading /\ file' = file /\ held' = held
      BY <1>4 DEF transferVars
    <2>2. (LineTypes /\ TransferTypes /\ DaemonTypes /\ OneLine /\ InOrder)'
      BY <2>1 DEF TransfersInv, LineTypes, TransferTypes, DaemonTypes, OneLine, InOrder
    <2>3. (NothingBefore /\ PromisedOnce /\ GoodNews /\ WaitsOnALine)'
      BY <2>1 DEF TransfersInv, NothingBefore, PromisedOnce, GoodNews, WaitsOnALine
    <2>4. (ReadsAreWhole /\ WritesAreThere)'
      BY <2>1 DEF TransfersInv, ReadsAreWhole, WritesAreThere
    <2> QED
      BY <2>2, <2>3, <2>4 DEF TransfersInv
  <1> QED
    BY <1>1, <1>3, <1>4 DEF TransfersNext

LEMMA TransfersBegin == TransfersInit => TransfersInv
  <1> SUFFICES ASSUME TransfersInit
               PROVE  TransfersInv
    OBVIOUS
  <1> USE TransfersAssumption DEF TransfersInit
  <1>1. LineTypes
    BY <<>> \in Seq(VmFrames), <<>> \in Seq(GatewayFrames) DEF LineTypes, Connections
  <1>2. TransferTypes
    BY DEF TransferTypes, TransferRecords, NotBegun, WholeFiles, Contents, Sources
  <1>3. DaemonTypes
    BY DEF DaemonTypes, NoUpload, NoReading, WholeFiles, Contents, Sources
  <1>4. OneLine /\ InOrder
    BY DEF OneLine, InOrder, NoUpload
  <1>5. NothingBefore
    BY SentNothing DEF NothingBefore, NoUpload, NoReading, Transfers
  <1>6. PromisedOnce
    BY DEF PromisedOnce
  <1>7. \A t \in Transfers : transfer[t].state = "none"
    BY DEF NotBegun
  <1>8. GoodNews /\ WaitsOnALine
    BY <1>7, SentNothing DEF GoodNews, WaitsOnALine, InFlight, Transfers
  <1>9. ReadsAreWhole /\ WritesAreThere
    BY <1>7 DEF ReadsAreWhole, WritesAreThere, Transfers
  <1> QED
    BY <1>1, <1>2, <1>3, <1>4, <1>5, <1>6, <1>8, <1>9 DEF TransfersInv

LEMMA TransfersInvariance == TransfersSpec => []TransfersInv
  BY TransfersBegin, TransfersInductive, PTL DEF TransfersSpec

-----------------------------------------------------------------------------
\* The VM has at most one connection open, no helper writes more than its file's chunks,
\* and the transfers' state keeps its types.
THEOREM TransfersTyped == TransfersSpec => []TransfersTypeOK
  <1>1. TransfersInv => TransfersTypeOK
    <2> SUFFICES ASSUME TransfersInv
                 PROVE  TransfersTypeOK
      OBVIOUS
    <2>1. Cardinality(LineAtVm) <= 1
      <3>1. CASE LineAtVm = {}
        BY <3>1, FS_EmptySet
      <3>2. CASE \E n \in Lines : LineAtVm = {n}
        <4>1. PICK n \in Lines : LineAtVm = {n}
          BY <3>2
        <4>2. Cardinality({n}) = 1
          BY FS_Singleton
        <4> QED
          BY <4>1, <4>2
      <3> QED
        <4>1. \A x, y \in LineAtVm : x = y /\ x \in Lines
          BY DEF LineAtVm, TransfersInv, OneLine
        <4>2. LineAtVm = {} \/ \E n \in Lines : LineAtVm = {n}
          BY <4>1
        <4> QED
          BY <3>1, <3>2, <4>2
    <2> QED
      BY <2>1 DEF TransfersInv, LineTypes, TransferTypes, DaemonTypes, TransfersTypeOK, TransferRecords, Sources
  <1> QED
    BY <1>1, TransfersInvariance, PTL

\* Whatever closes, crashes, times out or comes late: the file at the path is always one
\* write's whole contents; a read that ends well gives one such file that was there while
\* it was on; a write that ends well is in place; and every caller that waits, waits on a
\* connection that can still answer it or end it.
THEOREM TransfersAreKept == TransfersSpec => []TransfersKept
  <1>1. TransfersInv => TransfersKept
    BY DEF TransfersInv, TransferTypes, WholeFiles, Sources, WaitsOnALine, TransfersKept, FileIsWhole,
           TransfersCanEnd
  <1> QED
    BY <1>1, TransfersInvariance, PTL
=============================================================================
