--------------------------------- MODULE Cli ---------------------------------
(***************************************************************************)
(* The winston command (apps/cli): one invocation, from its line to its    *)
(* exit code.  Each verb says which flags it takes, which lines it refuses *)
(* before it calls anything, and how many parts there are to what it asks  *)
(* of the backend or of winstond; what each part does there is the other   *)
(* modules' matter.                                                        *)
(*                                                                         *)
(* A flag of this module stands for all of its verb's flags that a line is *)
(* judged by in the same way; --json, which only changes the wording, is   *)
(* left out.                                                               *)
(***************************************************************************)
EXTENDS Naturals, FiniteSets

CONSTANTS
    Invocations,     \* winston commands; side by side only those that share the disk
    MaxNames,        \* bound: names a download may take (lease.pdf, lease (2).pdf, ...)
    Stamps,          \* milliseconds, as a tar's name has them
    MaxCliFaults     \* bound: lost connections, kills, failures half-way, files of others

ASSUME CliAssumption == {MaxNames, MaxCliFaults} \subseteq Nat

VARIABLES
    invoked,         \* Invocations -> the process
    request,         \* Invocations -> its request at the backend, with the answer
    made,            \* Invocations -> parts that took effect
    downloads,       \* names -> the file there and which commands
                     \* had chosen the name before it came
    tars,            \* Stamps -> the command whose bundle the tar holds
    spoiled,         \* history: files a download wrote over
    cliFaults

cliVars == <<invoked, request, made, downloads, tars, spoiled, cliFaults>>

-----------------------------------------------------------------------------
(* What the verbs make of a line: the flags given, how many words follow   *)
(* the verb, and the one flag or word that is empty or not understood.     *)

Plan(kind, flags, parts, dry) == [kind |-> kind, flags |-> flags, parts |-> parts, dry |-> dry]
Refused(flags) == Plan("refuse", flags, 0, FALSE)

\* A verb that reads; one that does something; one that also takes --dry-run and
\* hands it on; one that reports how far it got.
Reading(flags, refused) == IF refused THEN Refused(flags) ELSE Plan("call", flags, 0, FALSE)
Acting(flags, refused) == IF refused THEN Refused(flags) ELSE Plan("call", flags, 1, FALSE)
Writing(line, flags, parts, refused) ==
    IF refused THEN Refused(flags \cup {"dry-run"})
    ELSE Plan("call", flags \cup {"dry-run"}, parts, "dry-run" \in line.given)

Both(line, yes, no) == {yes, no} \subseteq line.given
\* A value that is checked here: a duration, a word of a few, a path, a text's source.
Misread(line, flags) == line.odd \in flags \cap line.given
OddWord(line) == line.words > 0 /\ line.odd = "word"
NoWord(line) == line.words = 0
Given(line, flags) == line.given \cap flags # {}

\* Mail.
MailFilter(line) == Both(line, "unread", "read") \/ Misread(line, {"limit"})
MailQuery(line) == Reading({"unread", "read", "limit"}, MailFilter(line))
MailGet(line) == Reading({"full"}, NoWord(line))
MailDownload(line) ==
    IF NoWord(line) \/ Misread(line, {"to"}) THEN Refused({"to"})
    ELSE Plan("download", {"to"}, line.words, FALSE)
\* What a message is written with.
WriteFlags == {"to", "body", "attach", "draft"}
MisreadBody(line) == Misread(line, {"body", "attach"})
\* A draft's id needs nothing else; --draft only saves one.
MailSend(line) ==
    Writing(line, WriteFlags \cup {"subject"}, 1,
            /\ NoWord(line)
            /\ ~({"to", "subject", "body"} \subseteq line.given) \/ MisreadBody(line))
MailReply(line) ==
    Writing(line, WriteFlags \cup {"all"}, 1,
            NoWord(line) \/ "body" \notin line.given \/ MisreadBody(line))
MailForward(line) ==
    Writing(line, WriteFlags, 1,
            NoWord(line) \/ "to" \notin line.given \/ MisreadBody(line))
\* The backend goes account by account.
MailUpdate(line) ==
    Writing(line, {"read", "unread", "archive", "inbox", "add-label"}, line.words,
            NoWord(line) \/ Both(line, "read", "unread") \/ Both(line, "archive", "inbox"))
MailDelete(line) == Writing(line, {}, line.words, NoWord(line))

\* Calendar.
EventFlags == {"title", "duration", "description", "notify", "no-notify"}
NotifyOf(line) == Both(line, "notify", "no-notify")
ScopeOf(line) == Misread(line, {"scope"})
CalendarFilter(line) == Misread(line, {"limit"})
CalendarList(line) == Reading({"since", "limit"}, CalendarFilter(line))
CalendarSearch(line) == Reading({"since", "limit"}, NoWord(line) \/ OddWord(line) \/ CalendarFilter(line))
CalendarGet(line) == Reading({"full"}, NoWord(line))
CalendarFree(line) == Reading({"duration", "attendee"}, Misread(line, {"duration"}))
CalendarCreate(line) ==
    Writing(line, EventFlags \cup {"start", "end", "all-day"}, 1,
            \/ ~({"title", "start"} \subseteq line.given)
            \/ Cardinality(line.given \cap {"end", "duration", "all-day"}) # 1
            \/ Misread(line, {"duration", "description"})
            \/ NotifyOf(line))
\* An empty title, start, end or repeat is no change; an empty place is one.  "This
\* and following" is two changes.
CalendarUpdate(line) ==
    Writing(line, EventFlags \cup {"location", "add-attendee", "scope"},
            IF "scope" \in line.given THEN 2 ELSE 1,
            \/ NoWord(line)
            \/ Misread(line, {"duration", "description"}) \/ ScopeOf(line)
            \/ (line.given \ (IF line.odd = "title" THEN {"title"} ELSE {}))
                   \cap {"title", "location", "description", "duration", "add-attendee"} = {}
            \/ NotifyOf(line))
CalendarDelete(line) ==
    Writing(line, {"scope", "notify", "no-notify"}, 1,
            NoWord(line) \/ ScopeOf(line) \/ NotifyOf(line))
CalendarRsvp(line) ==
    Writing(line, {"accept", "decline", "tentative", "note", "scope"}, 1,
            \/ NoWord(line) \/ ScopeOf(line)
            \/ Cardinality(line.given \cap {"accept", "decline", "tentative"}) # 1)

\* Ramp.
RampScope(line) == Both(line, "company", "to-approve")
RampList(line) == Reading({"company", "to-approve", "limit"}, RampScope(line) \/ Misread(line, {"limit"}))
RampSearch(line) ==
    Reading({"company", "to-approve", "limit"},
            RampScope(line) \/ NoWord(line) \/ OddWord(line) \/ Misread(line, {"limit"}))
RampGet(line) == Reading({}, NoWord(line))
\* The memo is set, then the comment posted.
RampUpdate(line) ==
    Writing(line, {"memo", "comment"}, Cardinality(line.given \cap {"memo", "comment"}),
            NoWord(line) \/ ~Given(line, {"memo", "comment"}))
RampDecide(line) == Writing(line, {"note"}, 1, NoWord(line))
RampSubmit(line) == Writing(line, {}, 1, NoWord(line))
RampApprovals(line) == Reading({"account"}, FALSE)
RampRequests(line) == Reading({"limit"}, Misread(line, {"limit"}))
RampBills(line, search) ==
    Reading({"unpaid", "limit"}, (search /\ (NoWord(line) \/ OddWord(line))) \/ Misread(line, {"limit"}))

\* Sites.
NoFolder(line) == NoWord(line) \/ OddWord(line)
\* Its claim, its database, then migrations and the version.
SiteDeploy(line) ==
    LET flags == {"name", "dry-run"} IN
    IF NoFolder(line) THEN Refused(flags)
    ELSE Plan("deploy", flags, 3, "dry-run" \in line.given)
SiteList(line) == Reading({}, FALSE)
SiteGet(line) == Reading({}, NoWord(line))
SiteFetch(line) == Acting({"method", "data", "type"}, NoWord(line) \/ Misread(line, {"method", "data"}))
SiteVersions(line) == Reading({}, NoWord(line))
\* The row, then the host's route.
SiteRollback(line) == Writing(line, {"to"}, 2, NoWord(line) \/ Misread(line, {"to"}))
SiteShare(line) == Writing(line, {}, 2, NoWord(line))
SiteUnshare(line) == Writing(line, {}, 2, NoWord(line))
SiteDelete(line) == Writing(line, {}, 2, NoWord(line))

\* Triggers, tasks, accounts, the past, the user: no dry runs.
TriggerFlags == {"at", "note", "on-expire", "lead", "max-fires", "from"}
TriggerRequest(line) == Misread(line, {"note", "on-expire", "lead", "max-fires"})
TriggerCreate(line) == Acting(TriggerFlags, TriggerRequest(line) \/ "note" \notin line.given)
TriggerList(line) == Reading({"kind", "all"}, FALSE)
TriggerGet(line) == Reading({}, NoWord(line))
TriggerUpdate(line) == Acting(TriggerFlags, NoWord(line) \/ TriggerRequest(line) \/ line.given = {})
TriggerDelete(line) == Acting({}, NoWord(line))

TaskList(line) == Reading({"status", "limit"}, Misread(line, {"limit"}))
TaskGet(line) == Reading({}, NoWord(line))
TaskCancel(line) == Acting({}, NoWord(line))
\* Without an id, the task the command runs in.
TaskUpdate(line) == Acting({"effort"}, "effort" \notin line.given \/ Misread(line, {"effort"}))
TaskResume(line) == Acting({"note"}, NoWord(line))
TaskLink(line) == Acting({}, NoWord(line))

AccountsList(line) == Reading({}, FALSE)
AccountsConnect(line) == Reading({}, NoWord(line) \/ OddWord(line))
AccountsGet(line) == Reading({}, NoWord(line))
HistorySearch(line) == Reading({"type", "limit"}, Misread(line, {"type", "limit"}))
HistoryGet(line) == Reading({"context"}, NoWord(line) \/ OddWord(line) \/ Misread(line, {"context"}))
EventsCatalog(line) == Reading({}, FALSE)
MeGet(line) == Reading({}, FALSE)
MeUpdate(line) == Acting({"timezone"}, "timezone" \notin line.given)

\* The browser: winstond's own calls.
BrowserWindows(line) == Reading({}, FALSE)
BrowserGet(line) == Reading({}, NoWord(line))
BrowserOpen(line) == Acting({}, FALSE)
BrowserNavigate(line) ==
    Acting({"back", "forward", "window"},
         Cardinality((line.given \cap {"back", "forward"}) \cup (IF NoWord(line) THEN {} ELSE {"url"})) # 1)
BrowserClickXy(line) == Acting({"window"}, line.words < 2 \/ OddWord(line))
BrowserWait(line) == Acting({"for", "timeout", "window"}, Misread(line, {"timeout"}))
BrowserDialog(line) == Acting({"window"}, NoWord(line) \/ OddWord(line))
BrowserUpload(line) == Acting({"window"}, NoWord(line))
BrowserScreenshot(line) == Acting({"full-page", "window"}, FALSE)
BrowserPdf(line) == Acting({"window"}, NoWord(line))
BrowserEval(line) == Acting({"page-world", "window"}, NoWord(line) \/ OddWord(line))
\* It ends well wherever it stops, and tells.
BrowserAct(line) ==
    LET flags == {"max-steps", "max-seconds", "commit", "window"} IN
    IF NoWord(line) \/ OddWord(line) \/ Misread(line, {"max-steps", "max-seconds"}) THEN Refused(flags)
    ELSE Plan("drive", flags, 2, FALSE)
BrowserSnapshot(line) == Reading({"full", "window"}, FALSE)
BrowserClose(line) == Acting({"window"}, FALSE)


-----------------------------------------------------------------------------
(* The lines, and what run makes of each.                                  *)

\* "winston" alone has its help, and "mistyped" is no verb of anything.
RampObjects == {"ramp transactions", "ramp reimbursements", "ramp requests", "ramp bills", "ramp approvals"}
Resources ==
    {"winston", "get", "me", "mail", "calendar", "accounts", "task", "trigger", "events", "history", "browser",
     "site"} \cup RampObjects
Verbs(resource) ==
    CASE resource = "winston" -> {"help", "mistyped"}
      [] resource = "get" -> {"mail", "calendar", "ramp", "accounts", "task", "trigger", "history", "browser", "site"}
      [] resource = "me" -> {"get", "update"}
      [] resource = "mail" ->
             {"list", "search", "get", "download", "send", "reply", "forward", "update", "delete"}
      [] resource = "calendar" -> {"list", "search", "get", "free", "create", "update", "delete", "rsvp"}
      [] resource = "ramp transactions" -> {"list", "search", "get", "update", "approve", "reject"}
      [] resource = "ramp reimbursements" -> {"list", "search", "get", "update", "submit", "approve", "reject"}
      [] resource = "ramp requests" -> {"list", "get", "approve", "reject"}
      [] resource = "ramp bills" -> {"list", "search", "get"}
      [] resource = "ramp approvals" -> {"list"}
      [] resource = "accounts" -> {"list", "connect", "get"}
      [] resource = "task" -> {"list", "get", "cancel", "update", "resume", "link"}
      [] resource = "trigger" -> {"create", "list", "get", "update", "delete"}
      [] resource = "events" -> {"catalog"}
      [] resource = "history" -> {"search", "get"}
      [] resource = "browser" ->
             {"windows", "get", "open", "navigate", "click-xy", "wait", "dialog", "upload", "screenshot", "pdf",
              "eval", "act", "snapshot", "close"}
      [] resource = "site" ->
             {"deploy", "list", "get", "fetch", "versions", "rollback", "share", "unshare", "delete"}

MailPlan(line) ==
    CASE line.verb \in {"list", "search"} -> MailQuery(line)
      [] line.verb = "get" -> MailGet(line)
      [] line.verb = "download" -> MailDownload(line)
      [] line.verb = "send" -> MailSend(line)
      [] line.verb = "reply" -> MailReply(line)
      [] line.verb = "forward" -> MailForward(line)
      [] line.verb = "update" -> MailUpdate(line)
      [] line.verb = "delete" -> MailDelete(line)
CalendarPlan(line) ==
    CASE line.verb = "list" -> CalendarList(line)
      [] line.verb = "search" -> CalendarSearch(line)
      [] line.verb = "get" -> CalendarGet(line)
      [] line.verb = "free" -> CalendarFree(line)
      [] line.verb = "create" -> CalendarCreate(line)
      [] line.verb = "update" -> CalendarUpdate(line)
      [] line.verb = "delete" -> CalendarDelete(line)
      [] line.verb = "rsvp" -> CalendarRsvp(line)
RampReads(line) ==
    CASE line.verb = "list" -> RampList(line)
      [] line.verb = "search" -> RampSearch(line)
      [] line.verb = "get" -> RampGet(line)
TransactionsPlan(line) ==
    CASE line.verb \in {"list", "search", "get"} -> RampReads(line)
      [] line.verb = "update" -> RampUpdate(line)
      [] line.verb \in {"approve", "reject"} -> RampDecide(line)
ReimbursementsPlan(line) ==
    IF line.verb = "submit" THEN RampSubmit(line) ELSE TransactionsPlan(line)
RequestsPlan(line) ==
    CASE line.verb = "list" -> RampRequests(line)
      [] line.verb = "get" -> RampGet(line)
      [] line.verb \in {"approve", "reject"} -> RampDecide(line)
BillsPlan(line) ==
    IF line.verb = "get" THEN RampGet(line) ELSE RampBills(line, line.verb = "search")
RampPlan(line) ==
    CASE line.resource = "ramp transactions" -> TransactionsPlan(line)
      [] line.resource = "ramp reimbursements" -> ReimbursementsPlan(line)
      [] line.resource = "ramp requests" -> RequestsPlan(line)
      [] line.resource = "ramp bills" -> BillsPlan(line)
      [] line.resource = "ramp approvals" -> RampApprovals(line)
SitePlan(line) ==
    CASE line.verb = "deploy" -> SiteDeploy(line)
      [] line.verb = "list" -> SiteList(line)
      [] line.verb = "get" -> SiteGet(line)
      [] line.verb = "fetch" -> SiteFetch(line)
      [] line.verb = "versions" -> SiteVersions(line)
      [] line.verb = "rollback" -> SiteRollback(line)
      [] line.verb = "share" -> SiteShare(line)
      [] line.verb = "unshare" -> SiteUnshare(line)
      [] line.verb = "delete" -> SiteDelete(line)
TriggerPlan(line) ==
    CASE line.verb = "create" -> TriggerCreate(line)
      [] line.verb = "list" -> TriggerList(line)
      [] line.verb = "get" -> TriggerGet(line)
      [] line.verb = "update" -> TriggerUpdate(line)
      [] line.verb = "delete" -> TriggerDelete(line)
TaskPlan(line) ==
    CASE line.verb = "list" -> TaskList(line)
      [] line.verb = "get" -> TaskGet(line)
      [] line.verb = "cancel" -> TaskCancel(line)
      [] line.verb = "update" -> TaskUpdate(line)
      [] line.verb = "resume" -> TaskResume(line)
      [] line.verb = "link" -> TaskLink(line)
BrowserPlan(line) ==
    CASE line.verb = "windows" -> BrowserWindows(line)
      [] line.verb = "get" -> BrowserGet(line)
      [] line.verb = "open" -> BrowserOpen(line)
      [] line.verb = "navigate" -> BrowserNavigate(line)
      [] line.verb = "click-xy" -> BrowserClickXy(line)
      [] line.verb = "wait" -> BrowserWait(line)
      [] line.verb = "dialog" -> BrowserDialog(line)
      [] line.verb = "upload" -> BrowserUpload(line)
      [] line.verb = "screenshot" -> BrowserScreenshot(line)
      [] line.verb = "pdf" -> BrowserPdf(line)
      [] line.verb = "eval" -> BrowserEval(line)
      [] line.verb = "act" -> BrowserAct(line)
      [] line.verb = "snapshot" -> BrowserSnapshot(line)
      [] line.verb = "close" -> BrowserClose(line)
SmallPlan(line) ==
    CASE line.resource = "me" -> IF line.verb = "get" THEN MeGet(line) ELSE MeUpdate(line)
      [] line.resource = "events" -> EventsCatalog(line)
      [] line.resource = "history" -> IF line.verb = "get" THEN HistoryGet(line) ELSE HistorySearch(line)
      [] line.resource = "accounts" ->
             (CASE line.verb = "list" -> AccountsList(line)
                [] line.verb = "connect" -> AccountsConnect(line)
                [] line.verb = "get" -> AccountsGet(line))

VerbPlan(line) ==
    CASE line.resource = "mail" -> MailPlan(line)
      [] line.resource = "calendar" -> CalendarPlan(line)
      [] line.resource \in RampObjects -> RampPlan(line)
      [] line.resource = "site" -> SitePlan(line)
      [] line.resource = "trigger" -> TriggerPlan(line)
      [] line.resource = "task" -> TaskPlan(line)
      [] line.resource = "browser" -> BrowserPlan(line)
      [] line.resource \in {"me", "events", "history", "accounts"} -> SmallPlan(line)

Helped == Plan("help", {}, 0, FALSE)

\* An id's prefix says whose `get` shows it.
OwnerPlan(line) ==
    IF OddWord(line) THEN Refused({})
    ELSE VerbPlan([line EXCEPT !.resource = IF line.verb = "ramp" THEN "ramp transactions" ELSE line.verb,
                               !.verb = "get"])
ResourcePlan(line) ==
    CASE line.resource = "winston" -> IF line.verb = "help" THEN Helped ELSE Refused({})
      [] line.resource = "get" -> IF NoWord(line) THEN Helped ELSE OwnerPlan(line)
      [] OTHER -> VerbPlan(line)
\* A flag the verb does not take and one without its value are refused first, then
\* --help asks for nothing else.
RunVerb(line) ==
    LET plan == ResourcePlan(line) IN
    IF ~(line.given \subseteq plan.flags \cup {"help"}) \/ line.odd = "flag" THEN Refused(plan.flags)
    ELSE IF "help" \in line.given THEN Helped
    ELSE plan

LinesOf(resource, verb) ==
    LET bare == [resource |-> resource, verb |-> verb, given |-> {}, words |-> 1, odd |-> "nothing"]
        flags == ResourcePlan(bare).flags \cup {"dry-run"}
    IN  UNION {[resource : {resource}, verb : {verb}, given : {given}, words : 0 .. 2,
                odd : given \cup {"nothing", "word", "flag"}] : given \in SUBSET flags \cup {{"help"}}}

-----------------------------------------------------------------------------
(* An invocation.                                                          *)

ApiCodes ==
    {"invalid_request", "unauthorized", "not_found", "permission_disabled", "auth_expired", "unavailable",
     "internal", "conflict", "not_supported"}
ExitCode(code) ==
    CASE code = "ok" -> 0
      [] code \in {"invalid_request", "unauthorized"} -> 1
      [] code = "not_found" -> 2
      [] code = "permission_disabled" -> 3
      [] code = "auth_expired" -> 4
      [] code \in {"unavailable", "internal"} -> 5
      [] code = "conflict" -> 6
      [] code = "not_supported" -> 7
Running == 8
KilledExit == 9

\* `steps` are the attachments saved so far, `name` the file chosen for the next, `exit`
\* the code so far; `broke` says that an error other than a CliError ended it.
NoProcess ==
    [pc |-> "none", kind |-> "none", parts |-> 0, dry |-> FALSE, preview |-> FALSE, asks |-> "nothing",
     steps |-> 0, name |-> 0, stamp |-> CHOOSE s \in Stamps : TRUE, exit |-> Running, broke |-> FALSE]
NotAsked == [state |-> "none", what |-> "nothing", answer |-> "ok", bundle |-> "none"]

\* A file, "none" or whose, and the commands that had chosen its name before it came.
NoFile == [of |-> "none", unseen |-> {}]

CliInit ==
    /\ invoked = [i \in Invocations |-> NoProcess]
    /\ request = [i \in Invocations |-> NotAsked]
    /\ made = [i \in Invocations |-> 0]
    /\ downloads \in {[n \in 1 .. MaxNames |-> IF n \in old THEN [NoFile EXCEPT !.of = "old"] ELSE NoFile] :
                          old \in {{}, {1}}}
    /\ tars = [s \in Stamps |-> "none"]
    /\ spoiled = {}
    /\ cliFaults = 0

Fault == cliFaults < MaxCliFaults /\ cliFaults' = cliFaults + 1
Over(process, code) == [process EXCEPT !.pc = "over", !.exit = code]

\* run: the line is read and its plan made; only a call goes on.
ProcessOf(line) ==
    LET plan == RunVerb(line)
        process ==
            [NoProcess EXCEPT !.kind = plan.kind, !.parts = plan.parts, !.dry = plan.dry,
                              !.preview = "dry-run" \in line.given]
    IN  CASE plan.kind = "refuse" -> Over(process, 1)
          [] plan.kind = "help" -> Over(process, 0)
          [] plan.kind = "deploy" -> [process EXCEPT !.pc = "packs"]
          [] plan.kind = "download" -> [process EXCEPT !.pc = "asks", !.asks = "info"]
          [] OTHER -> [process EXCEPT !.pc = "asks", !.asks = "verb"]
\* What the lines of a verb come to: those that come to the same are one.
Processes ==
    [resource \in Resources |->
        [verb \in Verbs(resource) |-> {ProcessOf(line) : line \in LinesOf(resource, verb)}]]

Invoke(i, process) ==
    /\ invoked[i].pc = "none"
    /\ invoked' = [invoked EXCEPT ![i] = process]
    /\ UNCHANGED <<request, made, downloads, tars, spoiled, cliFaults>>

\* Nothing to deploy, or too much.
PackRefused(i) ==
    /\ invoked[i].pc = "packs"
    /\ invoked' = [invoked EXCEPT ![i] = Over(@, 1)]
    /\ UNCHANGED <<request, made, downloads, tars, spoiled, cliFaults>>
\* pack: the tar has the site's name and the time.
Pack(i, stamp) ==
    /\ invoked[i].pc = "packs"
    /\ invoked' = [invoked EXCEPT ![i] = [@ EXCEPT !.pc = "asks", !.asks = "deploy", !.stamp = stamp]]
    /\ tars' = [tars EXCEPT ![stamp] = i]
    /\ UNCHANGED <<request, made, downloads, spoiled, cliFaults>>
\* Reading the folder or writing the tar fails, which may leave some of it: not yet tried.
PackFails(i, stamp) ==
    /\ invoked[i].pc = "packs" /\ Fault
    /\ invoked' = [invoked EXCEPT ![i] = Over([@ EXCEPT !.stamp = stamp, !.broke = TRUE], 1)]
    /\ tars' \in {tars, [tars EXCEPT ![stamp] = i]}
    /\ UNCHANGED <<request, made, downloads, spoiled>>

\* freePath, one look at the disk at a time.
ChooseName(i) ==
    LET tried == invoked[i].name + 1 IN
    /\ invoked[i].pc = "chooses" /\ tried \in 1 .. MaxNames
    /\ invoked' = [invoked EXCEPT ![i] =
                  [@ EXCEPT !.name = tried,
                            !.pc = IF downloads[tried].of = "none" THEN "asks" ELSE "chooses",
                            !.asks = "save"]]
    /\ UNCHANGED <<request, made, downloads, tars, spoiled, cliFaults>>

\* call: the request reaches winstond, which sends it on.
Calls(i) ==
    /\ invoked[i].pc = "asks"
    /\ invoked' = [invoked EXCEPT ![i].pc = "waits"]
    /\ request' = [request EXCEPT ![i] = [NotAsked EXCEPT !.state = "sent", !.what = invoked[i].asks]]
    /\ UNCHANGED <<made, downloads, tars, spoiled, cliFaults>>

\* The answer: the next attachment, or the end of it.
Answered(process) ==
    CASE process.asks = "info" -> [process EXCEPT !.pc = "chooses", !.name = 0]
      [] process.asks = "save" /\ process.steps + 1 < process.parts ->
             [process EXCEPT !.pc = "asks", !.asks = "info", !.steps = @ + 1]
      [] process.asks = "save" /\ process.steps + 1 = process.parts -> Over([process EXCEPT !.steps = @ + 1], 0)
      [] process.asks = "verb" -> Over(process, 0)
      [] process.asks = "deploy" -> [process EXCEPT !.pc = "cleans", !.exit = 0]
\* A deploy removes its tar before its error is told.
Throws(process, code) ==
    IF process.asks = "deploy" THEN [process EXCEPT !.pc = "cleans", !.exit = code] ELSE Over(process, code)

Hears(i) ==
    /\ invoked[i].pc = "waits" /\ request[i].state = "answered"
    /\ invoked' = [invoked EXCEPT ![i] =
                  IF request[i].answer = "ok" THEN Answered(@) ELSE Throws(@, ExitCode(request[i].answer))]
    /\ request' = [request EXCEPT ![i] = NotAsked]
    /\ UNCHANGED <<made, downloads, tars, spoiled, cliFaults>>
\* winstond is out of reach, or gave up on the backend; the request may go on.
CallUnanswered(i) ==
    /\ invoked[i].pc = "waits" /\ Fault
    /\ invoked' = [invoked EXCEPT ![i] = Throws(@, 5)]
    /\ \/ request[i].state = "sent" /\ UNCHANGED request
       \/ request' = [request EXCEPT ![i] = NotAsked]
    /\ UNCHANGED <<made, downloads, tars, spoiled>>
\* An answer's body is cut off: json() throws, and run does not know the error.
Cut(i) ==
    /\ invoked[i].pc = "waits" /\ request[i].state = "answered" /\ request[i].answer = "ok" /\ Fault
    /\ invoked' = [invoked EXCEPT ![i] = Throws([@ EXCEPT !.broke = TRUE], 1)]
    /\ request' = [request EXCEPT ![i] = NotAsked]
    /\ UNCHANGED <<made, downloads, tars, spoiled>>

\* deploy's finally.
Unpack(i) ==
    /\ invoked[i].pc = "cleans"
    /\ invoked' = [invoked EXCEPT ![i].pc = "over"]
    /\ tars' = [tars EXCEPT ![invoked[i].stamp] = "none"]
    /\ UNCHANGED <<request, made, downloads, spoiled, cliFaults>>

\* The command that runs it is over, and it with it.
CliKilled(i) ==
    /\ invoked[i].pc \notin {"none", "over"} /\ Fault
    /\ invoked' = [invoked EXCEPT ![i] = Over(@, KilledExit)]
    /\ UNCHANGED <<request, made, downloads, tars, spoiled>>

-----------------------------------------------------------------------------
(* The backend: what it does of a request, which no one may wait for any   *)
(* more.                                                                   *)

Awaited(i) == invoked[i].pc = "waits" /\ request[i].state = "sent"
SentFor(i, what) == request[i].state = "sent" /\ request[i].what \in what

\* The parts this request has to make, with those made before.
Asks(i) == CASE request[i].what = "info" -> made[i]
             [] request[i].what = "save" -> invoked[i].steps + 1
             [] OTHER -> IF invoked[i].dry THEN 0 ELSE invoked[i].parts

\* The bundle is read before anything is claimed.
ReadBundle(i) ==
    /\ SentFor(i, {"deploy"}) /\ request[i].bundle = "none" /\ tars[invoked[i].stamp] # "none"
    /\ request' = [request EXCEPT ![i].bundle = tars[invoked[i].stamp]]
    /\ UNCHANGED <<invoked, made, downloads, tars, spoiled, cliFaults>>
BundleGone(i) ==
    /\ SentFor(i, {"deploy"}) /\ request[i].bundle = "none" /\ tars[invoked[i].stamp] = "none"
    /\ request' = [request EXCEPT ![i] = [@ EXCEPT !.state = "answered", !.answer = "invalid_request"]]
    /\ UNCHANGED <<invoked, made, downloads, tars, spoiled, cliFaults>>

Does(i) ==
    /\ SentFor(i, {"verb", "deploy"}) /\ (request[i].what = "deploy" => request[i].bundle # "none")
    /\ made[i] < Asks(i)
    /\ made' = [made EXCEPT ![i] = @ + 1]
    /\ UNCHANGED <<invoked, request, downloads, tars, spoiled, cliFaults>>

\* A file comes to a name; a command that had chosen it does not know.
Lands(name, of) ==
    downloads' = [downloads EXCEPT ![name] =
        [of |-> of, unseen |-> {j \in Invocations : invoked[j].name = name /\ invoked[j].asks = "save" /\ j # of}]]
SaveLands(i) ==
    LET name == invoked[i].name IN
    /\ SentFor(i, {"save"}) /\ made[i] < Asks(i)
    /\ made' = [made EXCEPT ![i] = @ + 1]
    /\ spoiled' = IF downloads[name].of = "none" \/ i \in downloads[name].unseen THEN spoiled
                  ELSE spoiled \cup {name}
    /\ Lands(name, i)
    /\ UNCHANGED <<invoked, request, tars, cliFaults>>
OthersWrite(name) ==
    /\ downloads[name].of = "none" /\ Fault
    /\ Lands(name, "other")
    /\ UNCHANGED <<invoked, request, made, tars, spoiled>>

BackendAnswer(i, code) ==
    /\ request' = [request EXCEPT ![i] = [@ EXCEPT !.state = "answered", !.answer = code]]
    /\ UNCHANGED <<invoked, made, downloads, tars, spoiled>>
\* act says itself how far it got.
SaysDone(i) ==
    /\ Awaited(i) /\ (request[i].what = "deploy" => request[i].bundle # "none")
    /\ made[i] = Asks(i) \/ invoked[i].kind = "drive"
    /\ BackendAnswer(i, "ok") /\ UNCHANGED cliFaults
\* A refusal before the first part; a part that fails; and an error once all is done,
\* which is the backend's own.
RefusesRequest(i, code) ==
    LET before == CASE request[i].what = "save" -> invoked[i].steps
                    [] request[i].what = "info" -> made[i]
                    [] OTHER -> 0
    IN
    /\ Awaited(i)
    /\ \/ made[i] = before /\ UNCHANGED cliFaults
       \/ before < made[i] /\ made[i] < Asks(i) /\ Fault
       \/ before < made[i] /\ made[i] = Asks(i) /\ code \in {"unavailable", "internal"} /\ Fault
    /\ BackendAnswer(i, code)
\* A request no one waits for is over, or was lost.
Forgotten(i) ==
    /\ request[i].state # "none" /\ invoked[i].pc # "waits"
    /\ request' = [request EXCEPT ![i] = NotAsked]
    /\ UNCHANGED <<invoked, made, downloads, tars, spoiled, cliFaults>>

-----------------------------------------------------------------------------
\* Two side by side: both download, or both deploy.
MayRunBeside(i, resource, verb) ==
    \A j \in Invocations \ {i} :
        invoked[j].pc # "none" =>
            <<invoked[j].kind, resource, verb>> \in {<<"download", "mail", "download">>,
                                                     <<"deploy", "site", "deploy">>}

CliStep(i) ==
    \/ PackRefused(i) \/ (\E s \in Stamps : Pack(i, s) \/ PackFails(i, s))
    \/ ChooseName(i) \/ Calls(i) \/ Hears(i) \/ CallUnanswered(i) \/ Cut(i) \/ Unpack(i) \/ CliKilled(i)
BackendStep(i) ==
    \/ ReadBundle(i) \/ BundleGone(i) \/ Does(i) \/ SaveLands(i)
    \/ SaysDone(i) \/ (Awaited(i) /\ \E code \in ApiCodes : RefusesRequest(i, code)) \/ Forgotten(i)
CliNext ==
    \/ \E i \in Invocations :
            \/ /\ invoked[i].pc = "none"
               /\ \E resource \in Resources : \E verb \in Verbs(resource) :
                    /\ MayRunBeside(i, resource, verb)
                    /\ \E process \in Processes[resource][verb] : Invoke(i, process)
            \/ CliStep(i) \/ BackendStep(i)
    \/ \E n \in 1 .. MaxNames : OthersWrite(n)

CliSpec == CliInit /\ [][CliNext]_cliVars

-----------------------------------------------------------------------------
CliTypeOK ==
    /\ invoked \in [Invocations -> [pc : {"none", "packs", "chooses", "asks", "waits", "cleans", "over"},
                                kind : {"none", "refuse", "help", "call", "drive", "download", "deploy"},
                                parts : 0 .. 3, dry : BOOLEAN, preview : BOOLEAN,
                                asks : {"nothing", "verb", "info", "save", "deploy"}, steps : 0 .. 2,
                                name : 0 .. MaxNames, stamp : Stamps, exit : 0 .. KilledExit, broke : BOOLEAN]]
    /\ request \in [Invocations -> [state : {"none", "sent", "answered"},
                                  what : {"nothing", "verb", "info", "save", "deploy"},
                                  answer : ApiCodes \cup {"ok"}, bundle : Invocations \cup {"none"}]]
    /\ made \in [Invocations -> 0 .. 3]
    /\ downloads \in [1 .. MaxNames -> [of : Invocations \cup {"none", "old", "other"}, unseen : SUBSET Invocations]]
    /\ tars \in [Stamps -> Invocations \cup {"none"}]
    /\ spoiled \subseteq 1 .. MaxNames
    /\ cliFaults \in 0 .. MaxCliFaults

\* What a line with --dry-run asks for is not done, whichever verb it was and however it ends.
DryRunsChangeNothing == \A i \in Invocations : invoked[i].preview => made[i] = 0

\* The exit code is true of what was done: 0 says all of it (act tells itself how far
\* it got); a refusal says nothing was, or, of a line with several parts, not all; 5
\* and an error the program does not know leave it open.
ExitIsTrue ==
    \A i \in Invocations :
        invoked[i].pc = "over" =>
            /\ invoked[i].exit # Running
            /\ invoked[i].exit = 0 /\ ~invoked[i].preview /\ invoked[i].kind # "drive" => made[i] = invoked[i].parts
            /\ invoked[i].exit \notin {0, 5, KilledExit} /\ ~invoked[i].broke =>
                   /\ made[i] = 0 \/ made[i] < invoked[i].parts
                   /\ request[i].state = "none"

\* A download writes over no file that was there when it chose its name.
NothingThereIsOverwritten == spoiled = {}

\* A deploy puts up its own folder unless another of the site was packed in the same
\* millisecond, and its tar is gone once it is over and was neither killed nor failed to write it.
BundlesKept ==
    \A i \in Invocations :
        /\ request[i].bundle \in Invocations \ {i} =>
               invoked[request[i].bundle].stamp = invoked[i].stamp
        /\ invoked[i].pc = "over" /\ invoked[i].exit # KilledExit /\ ~invoked[i].broke =>
               \A s \in Stamps : tars[s] # i

CliKept == DryRunsChangeNothing /\ ExitIsTrue /\ NothingThereIsOverwritten /\ BundlesKept

\* Exit 5 is "safe to retry" (docs/design.md:1006): nothing was done.  A write whose answer
\* is lost, or of which only a part failed, was.
FiveLeavesNothing == \A i \in Invocations : invoked[i].exit = 5 => made[i] = 0

\* "Every write accepts `--dry-run`" (docs/design.md:1017).  Those of triggers, tasks, the
\* user and the browser do not, nor does fetch.
WritesTakeDryRun ==
    \A resource \in Resources \ {"winston", "get"} : \A verb \in Verbs(resource) :
        \A line \in LinesOf(resource, verb) :
            LET plan == VerbPlan(line) IN
            plan.kind \in {"call", "deploy"} /\ plan.parts > 0 => "dry-run" \in plan.flags

\* A download is saved under "a name that isn't taken" (mail.ts:224), so it stays: two
\* beside each other may take the same one.
SavedFilesStay ==
    \A i \in Invocations :
        invoked[i].kind = "download" /\ invoked[i].exit = 0 =>
            Cardinality({n \in 1 .. MaxNames : downloads[n].of = i}) = invoked[i].parts
=============================================================================
