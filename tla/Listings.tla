------------------------------- MODULE Listings -------------------------------
(***************************************************************************)
(* Reading a connected account page by page: the list and get routes of    *)
(* packages/vm-api (mail.ts, calendar.ts, ramp.ts), the CLI ids they give  *)
(* what they show (packages/db/src/external-refs.ts) and the four          *)
(* providers of packages/connectors, while the account changes.            *)
(*                                                                         *)
(* A thing is a message, an event or a Ramp object; its interval is an     *)
(* event's time, its start a message's date.  `fits` is what the filters   *)
(* ask, which only the calendar's provider applies by itself.              *)
(***************************************************************************)
EXTENDS Integers, Sequences, FiniteSets, SequencesExt, FiniteSetsExt

CONSTANTS
    Readers,         \* CLI calls that list the account, each page by page
    Things,          \* the objects there may be, numbered: the order of their ids
    Clock,           \* the moments of the range listed, 0 .. Clock
    PageSizes,       \* --limit
    DayLength,       \* a day of `calendar free`, its working hours [1, DayLength)
    MaxListingChanges,   \* bound: things that come or go, calls that fail
    MaxPages         \* bound: pages a reader asks for

ASSUME ListingsAssumption ==
    /\ {Clock, DayLength, MaxListingChanges, MaxPages} \subseteq Nat
    /\ Things \subseteq Nat \ {0} /\ PageSizes \subseteq Nat \ {0} /\ DayLength > 1

VARIABLES
    source,          \* gmail, mailbox, calendar or ramp: the account's provider
    access,          \* connections: on, off (no `read`), expired or disconnected
    thing,           \* the account's objects
    calendars,       \* which of its two calendars are selected, which readable
    refs,            \* external_refs: the id each object has been given, 0 for none
    reader,          \* a list and how far it is
    listingChanges

listingVars == <<source, access, thing, calendars, refs, reader, listingChanges>>

Sources == {"gmail", "mailbox", "calendar", "ramp"}

NoCursor == [after |-> 0, shown |-> {}, first |-> TRUE]

NoReader == [pc |-> "idle", limit |-> 1, picky |-> FALSE, cursor |-> NoCursor, page |-> <<>>,
             next |-> NoCursor, more |-> FALSE, seen |-> <<>>, pages |-> 0, always |-> {},
             error |-> "none", got |-> [id |-> 0, thing |-> 0]]

ListingChange == listingChanges < MaxListingChanges /\ listingChanges' = listingChanges + 1

\* An object's calendar: the primary one is 1.
CalendarOf(t) == IF t = Max(Things) THEN 2 ELSE 1

\* listedCalendars: the readable ones the user shows, else the readable primary.
ListedCalendars ==
    LET shown == calendars.readable \cap calendars.selected
    IN  IF shown # {} THEN shown ELSE calendars.readable \cap {1}

Covered == {t \in Things : thing[t].there /\ (source = "calendar" => CalendarOf(t) \in ListedCalendars)}

Fits(t, picky) == picky => thing[t].fits

\* Earliest first in a calendar, newest first elsewhere; the id settles a tie.
Before(s, t) ==
    IF source = "calendar"
    THEN thing[s].from < thing[t].from \/ (thing[s].from = thing[t].from /\ s < t)
    ELSE thing[s].from > thing[t].from \/ (thing[s].from = thing[t].from /\ s > t)

Spans == {i \in (0 .. Clock - 1) \X (1 .. Clock) : i[1] < i[2]}

InOrder(S) == SetToSortSeq(S, Before)
FirstOf(seq, n) == SubSeq(seq, 1, Min({n, Len(seq)}))

-----------------------------------------------------------------------------
\* A page's answer: what it shows, whether there is more, and the cursor for that.
Answer(items, more, cursor) == [items |-> items, more |-> more, cursor |-> cursor]

\* Google gives one calendar's events that end after timeMin, at most as many as the
\* page asks of it: the page, what it has shown at that instant, and one more.
GoogleEvents(c, timeMin, maxResults) ==
    ToSet(FirstOf(InOrder({t \in Covered : CalendarOf(t) = c /\ thing[t].to > timeMin}), maxResults))

\* The calendars merged by start; then the filters, and what was shown at the
\* cursor's instant is left out.
CalendarPage(rd) ==
    LET at == rd.cursor
        asked == rd.limit + Cardinality(at.shown) + 1
        got == UNION {GoogleEvents(c, IF at.first THEN 0 ELSE at.after, asked) : c \in ListedCalendars}
        merged == InOrder({t \in got :
                      /\ Fits(t, rd.picky)
                      /\ ~(~at.first /\ thing[t].from = at.after /\ t \in at.shown)})
        items == FirstOf(merged, rd.limit)
        more == Len(merged) > rd.limit
        after == thing[merged[rd.limit + 1]].from
    IN  IF ~more THEN Answer(items, FALSE, NoCursor)
        ELSE Answer(items, TRUE, [first |-> FALSE, after |-> after,
                                  shown |-> {t \in ToSet(items) : thing[t].from = after}])

\* Older than the last message shown, by date and id.
AfterCursor(t, at) ==
    at.first \/ thing[t].from < at.after \/ (thing[t].from = at.after /\ \A s \in at.shown : t < s)

\* Winston's own mailbox reads one row more than it shows.
MailboxPage(rd) ==
    LET found == FirstOf(InOrder({t \in Covered : /\ Fits(t, rd.picky)
                                                  /\ AfterCursor(t, rd.cursor)}), rd.limit + 1)
        items == FirstOf(found, rd.limit)
    IN  IF Len(found) <= rd.limit THEN Answer(items, FALSE, NoCursor)
        ELSE Answer(items, TRUE, [first |-> FALSE, after |-> thing[Last(items)].from,
                                  shown |-> {Last(items)}])

\* Gmail's and Ramp's own cursors go through unread: what they stand for is the place.
GmailPage(rd) == MailboxPage(rd)
RampPage(rd) == MailboxPage(rd)

PageOf(rd) ==
    CASE source = "calendar" -> CalendarPage(rd)
      [] source = "mailbox"  -> MailboxPage(rd)
      [] source = "gmail"    -> GmailPage(rd)
      [] source = "ramp"     -> RampPage(rd)

-----------------------------------------------------------------------------
\* What the API says of each way a list can fail.
ErrorOf(why) ==
    CASE why = "disconnected" -> "not_found"
      [] why = "expired"      -> "auth_expired"
      [] why = "off"          -> "permission_disabled"
      [] why = "gone"         -> "not_found"
      [] OTHER                -> "unavailable"

\* The route finds the account and checks `read`, on every page.
AskPage(r) ==
    LET rd == reader[r] IN
    /\ rd.pc \in {"idle", "shown"} /\ rd.pages < MaxPages
    /\ \E limit \in IF rd.pc = "idle" THEN PageSizes ELSE {rd.limit},
          picky \in IF rd.pc = "idle" THEN BOOLEAN ELSE {rd.picky} :
          reader' = [reader EXCEPT ![r] = [rd EXCEPT
              !.limit = limit, !.picky = picky, !.cursor = rd.next, !.pages = @ + 1,
              !.always = IF rd.pc = "idle" THEN {t \in Covered : Fits(t, picky)} ELSE @,
              !.pc = IF access = "on" THEN "read" ELSE "failed",
              !.error = IF access = "on" THEN "none" ELSE ErrorOf(access)]]
    /\ UNCHANGED <<source, access, thing, calendars, refs, listingChanges>>

\* What waits on the user in Ramp is one list, without pages.
AskApprovals(r) ==
    /\ source = "ramp" /\ reader[r].pc = "idle" /\ access = "on"
    /\ reader' = [reader EXCEPT ![r] = [@ EXCEPT
           !.pc = "read", !.picky = TRUE, !.limit = Cardinality(Things),
           !.always = {t \in Covered : Fits(t, TRUE)}]]
    /\ UNCHANGED <<source, access, thing, calendars, refs, listingChanges>>

ReadPage(r) ==
    LET page == PageOf(reader[r]) IN
    /\ reader[r].pc = "read"
    /\ reader' = [reader EXCEPT ![r].pc = IF source = "gmail" THEN "each" ELSE "name",
                                ![r].page = page.items, ![r].more = page.more,
                                ![r].next = page.cursor]
    /\ UNCHANGED <<source, access, thing, calendars, refs, listingChanges>>

\* Gmail names ids only: each message's metadata is fetched, and one that went
\* meanwhile fails the whole page.
ReadEach(r) ==
    LET whole == \A t \in ToSet(reader[r].page) : thing[t].there IN
    /\ reader[r].pc = "each"
    /\ reader' = [reader EXCEPT ![r].pc = IF whole THEN "name" ELSE "failed",
                                ![r].error = IF whole THEN "none" ELSE ErrorOf("gone")]
    /\ UNCHANGED <<source, access, thing, calendars, refs, listingChanges>>

ReadFails(r) ==
    /\ reader[r].pc \in {"read", "each"}
    /\ ListingChange
    /\ reader' = [reader EXCEPT ![r].pc = "failed", ![r].error = ErrorOf("busy")]
    /\ UNCHANGED <<source, access, thing, calendars, refs>>

NewestRef == Max({refs[t] : t \in Things} \cup {0})

\* refsFor: each object that has none yet gets an id, one that has keeps it.
GiveIds(wanted) ==
    LET new == {t \in wanted : refs[t] = 0}
    IN  refs' = [t \in Things |-> IF t \in new
                                  THEN NewestRef + Cardinality({s \in new : s <= t}) ELSE refs[t]]

\* The page is answered, by the ids.
NamePage(r) ==
    /\ reader[r].pc = "name"
    /\ GiveIds(ToSet(reader[r].page))
    /\ reader' = [reader EXCEPT ![r].pc = IF reader[r].more THEN "shown" ELSE "done",
                                ![r].page = <<>>,
                                ![r].seen = @ \o [i \in DOMAIN reader[r].page |->
                                    [thing |-> reader[r].page[i], id |-> refs'[reader[r].page[i]]]]]
    /\ UNCHANGED <<source, access, thing, calendars, listingChanges>>

\* The row an id stands for leads back to the object.
Resolve(id) == {t \in Things : refs[t] = id}

StillThere(t) == thing[t].there

\* Once the list is over, a get by an id it showed: the account is checked again and
\* the provider asked for the object, which may be gone by then.
GetOne(r) ==
    LET rd == reader[r] IN
    /\ rd.pc = "done" /\ rd.got.id = 0
    /\ \E i \in DOMAIN rd.seen :
          LET t == CHOOSE t \in Resolve(rd.seen[i].id) : TRUE IN
          reader' = [reader EXCEPT ![r].got =
              [id |-> rd.seen[i].id, thing |-> IF access = "on" /\ StillThere(t) THEN t ELSE 0]]
    /\ UNCHANGED <<source, access, thing, calendars, refs, listingChanges>>

\* The account changes on its own.
ThingComesOrGoes ==
    /\ ListingChange
    /\ \E t \in Things :
          /\ thing' = [thing EXCEPT ![t].there = ~@]
          /\ reader' = [r \in Readers |-> [reader[r] EXCEPT !.always = @ \ {t}]]
    /\ UNCHANGED <<source, access, calendars, refs>>

\* The user switches reading off, or the grant lapses.
AccessChanges ==
    /\ ListingChange
    /\ access = "on" /\ access' \in {"off", "expired", "disconnected"}
    /\ UNCHANGED <<source, thing, calendars, refs, reader>>

ListStep(r) ==
    AskPage(r) \/ AskApprovals(r) \/ ReadPage(r) \/ ReadEach(r) \/ ReadFails(r) \/ NamePage(r) \/ GetOne(r)

ListingsInit ==
    /\ source \in Sources
    /\ access = "on"
    /\ \E times \in [Things -> Spans], absent, fitting \in SUBSET Things :
          /\ \A t \in Things : source # "calendar" => times[t][2] = times[t][1] + 1
          /\ thing = [t \in Things |-> [there |-> t \notin absent, fits |-> t \in fitting,
                                       from |-> times[t][1], to |-> times[t][2]]]
    /\ calendars \in [selected : SUBSET {1, 2}, readable : {{1}, {1, 2}}]
    /\ refs = [t \in Things |-> 0]
    /\ reader = [r \in Readers |-> NoReader]
    /\ listingChanges = 0

ListingsNext == ThingComesOrGoes \/ AccessChanges \/ \E r \in Readers : ListStep(r)

ListingsSpec == ListingsInit /\ [][ListingsNext]_listingVars

-----------------------------------------------------------------------------
(* Free time                                                               *)

\* freeBusy: the user's own time is in the primary calendar and the readable ones
\* they show.
BusyBlocks ==
    {<<thing[t].from, thing[t].to>> :
        t \in {s \in Things : thing[s].there /\ CalendarOf(s) \in {1} \cup
                               (calendars.selected \cap calendars.readable)}}

ByStart(a, b) == a[1] < b[1] \/ (a[1] = b[1] /\ a[2] < b[2])

\* Blocks that touch or overlap become one, earliest first.
MergeIntervals(blocks) ==
    LET join(merged, b) ==
            IF merged # <<>> /\ b[1] <= Last(merged)[2]
            THEN [merged EXCEPT ![Len(merged)] = <<@[1], Max({@[2], b[2]})>>]
            ELSE Append(merged, b)
    IN  FoldLeft(join, <<>>, SetToSortSeq(blocks, ByStart))

WindowOn(day) == <<day * DayLength + 1, day * DayLength + DayLength>>

\* Mutant: a block that is over before the window opens it earlier.
MutNextStretch(s, b, minimum) ==
    [at |-> b[2], slots |-> IF b[1] - s.at >= minimum
                            THEN s.slots \cup {<<s.at, b[1]>>} ELSE s.slots]

\* One block further: the stretch before it, if that is long enough.
NextStretch(s, b, minimum) ==
    IF b[2] <= s.at THEN s
    ELSE [at |-> b[2], slots |-> IF b[1] - s.at >= minimum
                                 THEN s.slots \cup {<<s.at, b[1]>>} ELSE s.slots]

\* The stretches of one day's window.
FreeOn(day, blocks, since, until, minimum) ==
    LET from == Max({WindowOn(day)[1], since})
        end == Min({WindowOn(day)[2], until})
        step(s, b) == IF b[1] >= end THEN s ELSE NextStretch(s, b, minimum)
        over == FoldLeft(step, [at |-> from, slots |-> {}], blocks)
    IN  over.slots \cup IF end - over.at >= minimum THEN {<<over.at, end>>} ELSE {}

FreeSlots(since, until, minimum) ==
    UNION {FreeOn(day, MergeIntervals(BusyBlocks), since, until, minimum) :
               day \in since \div DayLength .. until \div DayLength}

-----------------------------------------------------------------------------
(* Properties                                                              *)

ListingsTypeOK ==
    /\ source \in Sources /\ access \in {"on", "off", "expired", "disconnected"}
    /\ refs \in [Things -> 0 .. Cardinality(Things)]
    /\ \A r \in Readers :
          /\ reader[r].pc \in {"idle", "read", "each", "name", "shown", "done", "failed"}
          /\ reader[r].always \subseteq Things /\ ToSet(reader[r].page) \subseteq Things
          /\ reader[r].error \in {"none", "not_found", "auth_expired", "permission_disabled", "unavailable"}

Shown(r, t) == {i \in DOMAIN reader[r].seen : reader[r].seen[i].thing = t}

\* A calendar no two of whose events overlap.
Apart ==
    \A s, t \in Things : s # t => thing[s].to <= thing[t].from \/ thing[t].to <= thing[s].from

\* "Pass back to get the next page; null when there's no more" (mail.ts): whoever
\* goes on to the end has seen each thing that was there all along, none twice,
\* though things come and go between the pages.  Of a calendar this is so only of
\* a list without filters, and when no two events overlap.
PagesTellAll ==
    \A r \in Readers : (source = "calendar" => Apart /\ ~reader[r].picky) =>
        /\ \A t \in Things : Cardinality(Shown(r, t)) <= 1
        /\ reader[r].pc = "done" => \A t \in reader[r].always : Shown(r, t) # {}

\* "The same object always gets the same id" (external-refs.ts), and any id shown
\* leads back to its object, whoever lists it first, and while it is gone.
IdsKept ==
    \A r \in Readers : \A i \in DOMAIN reader[r].seen :
        LET shown == reader[r].seen[i] IN
        /\ Resolve(shown.id) = {shown.thing}
        /\ reader[r].got.id = shown.id => reader[r].got.thing \in {0, shown.thing}

\* `calendar free` answers exactly the stretches inside working hours that no busy
\* block touches, as long as they can be made, and long enough for the meeting.
FreeTimeIsFree ==
    (source = "calendar" /\ \A r \in Readers : reader[r].pc = "idle") =>
        \A since \in {0, 2}, minimum \in {1, 2} :
            LET open(s, e, day) ==
                    /\ s >= Max({WindowOn(day)[1], since}) /\ e <= Min({WindowOn(day)[2], Clock}) /\ s < e
                    /\ \A b \in BusyBlocks : b[2] <= s \/ e <= b[1]
            IN  FreeSlots(since, Clock, minimum) =
                    {i \in Spans : /\ i[2] - i[1] >= minimum
                                   /\ \E day \in 0 .. Clock \div DayLength :
                                         /\ open(i[1], i[2], day)
                                         /\ ~open(i[1] - 1, i[2], day) /\ ~open(i[1], i[2] + 1, day)}

ListsKept == PagesTellAll /\ IdsKept /\ FreeTimeIsFree

\* A list without an end shows a calendar that did not change more than once: an
\* event longer than the gap to the next is shown on each page.
ListEnds ==
    \A r \in Readers : (source = "calendar" /\ listingChanges = 0) =>
        Len(reader[r].seen) <= Cardinality(Things)

\* The page's cursor is null though events that fit were never read.
NothingWithheld ==
    \A r \in Readers : reader[r].pc = "done" => \A t \in reader[r].always : Shown(r, t) # {}
=============================================================================
