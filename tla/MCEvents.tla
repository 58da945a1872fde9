------------------------------ MODULE MCEvents ------------------------------
(***************************************************************************)
(* What Winston hears of the world, for TLC: the triggers, a connected     *)
(* account and its sync, the lists of it, a heads-up, and the watches on   *)
(* an account.  They share no variable, so one run explores them side by   *)
(* side: `focus` says which moves, the others stay as they began.          *)
(***************************************************************************)
EXTENDS Triggers, AccountSync, HeadsUps, Watches, Listings,
    RampSession

VARIABLE focus

eventsVars == <<focus, triggersVars, accountVars, headsUpsVars, watchesVars, listingVars,
                rampVars>>

EventsInit ==
    /\ focus \in {"triggers", "account", "headsUps", "watches", "lists", "ramp"}
    /\ TriggersInit /\ AccountInit /\ HeadsUpsInit /\ WatchesInit
    /\ RampSessionInit
    /\ source \in IF focus = "lists" THEN Sources ELSE {"ramp"}
    /\ ListingsInit
    \* The one that moves begins in any of its states, the others in one.
    /\ focus # "triggers" => trigger.kind = "at" /\ trigger.expires = Never
    /\ focus # "account" => domain = "mail"
    /\ focus # "headsUps" => \A s \in Starts : meeting <= s
    /\ focus # "watches" => covered = Calendars
    /\ focus # "lists" => \A t \in Things : thing[t].from = 0
    \* Of lists that only differ in the names of what they hold, one is enough.
    /\ thing[1].from <= thing[2].from /\ thing[2].there /\ thing[3].there
    /\ thing[1].fits /\ thing[3].fits
    /\ source # "calendar" => calendars = [selected |-> {}, readable |-> {1}]
    /\ calendars.selected # {1}
    /\ focus # "lists" => thing[1].there /\ thing[2].fits

\* What stays is said before what moves: TLC then says it once per state.
EventsNext ==
    /\ UNCHANGED focus
    /\ \/ /\ focus = "triggers"
          /\ UNCHANGED <<accountVars, headsUpsVars, watchesVars, listingVars, rampVars>>
          /\ TriggersNext
       \/ /\ focus = "account"
          /\ UNCHANGED <<triggersVars, headsUpsVars, watchesVars, listingVars, rampVars>>
          /\ AccountNext
       \/ /\ focus = "headsUps"
          /\ UNCHANGED <<triggersVars, accountVars, watchesVars, listingVars, rampVars>>
          /\ HeadsUpsNext
       \/ /\ focus = "watches"
          /\ UNCHANGED <<triggersVars, accountVars, headsUpsVars, listingVars, rampVars>>
          /\ WatchesNext
       \/ /\ focus = "lists"
          /\ UNCHANGED <<triggersVars, accountVars, headsUpsVars, watchesVars, rampVars>>
          /\ ListingsNext
       \/ /\ focus = "ramp"
          /\ UNCHANGED <<triggersVars, accountVars, headsUpsVars, watchesVars, listingVars>>
          /\ RampSessionNext

\* For TLC: a state is told apart by the variables that move.
EventsView ==
    <<focus, CASE focus = "triggers" -> <<triggersVars>>
               [] focus = "account" -> <<accountVars>>
               [] focus = "headsUps" -> <<headsUpsVars>>
               [] focus = "watches" -> <<watchesVars>>
               [] focus = "lists" -> <<listingVars>>
               [] focus = "ramp" -> <<rampVars>> >>

EventsSpec == EventsInit /\ [][EventsNext]_eventsVars

\* The variables of the component that moves keep their types.
EventsTypeOK ==
    CASE focus = "triggers" -> TriggersTypeOK
      [] focus = "account" -> AccountTypeOK
      [] focus = "headsUps" -> HeadsUpsTypeOK
      [] focus = "watches" -> WatchesTypeOK
      [] focus = "lists" -> ListingsTypeOK
      [] focus = "ramp" -> RampSessionTypeOK

\* A meeting's heads-up, the watches that would tell of its changes, and what
\* Winston reads when he lists it.
CalendarKept ==
    /\ focus = "headsUps" => HeadsUpsKept
    /\ focus = "watches" => NeverUnwatched
    /\ focus = "lists" => ListsKept
    /\ focus = "ramp" => ActsOnce
=============================================================================
