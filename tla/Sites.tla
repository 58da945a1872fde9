-------------------------------- MODULE Sites --------------------------------
(***************************************************************************)
(* A site Winston deploys for the user: its row and its versions, and what *)
(* the host (Cloudflare) has of it: the script that answers, the route of  *)
(* its name, the bundles in the blob store.  Deploys, sharing, rollbacks   *)
(* and the hourly usage work under the row's lock and write to the host    *)
(* before they commit; the kill switch and a removal hold no lock.         *)
(* (packages/vm-api/src/sites.ts, packages/site-host, apps/sites/dispatch) *)
(***************************************************************************)
EXTENDS Naturals, FiniteSets

CONSTANTS
    Bundles,         \* what is deployed
    SiteIds,         \* bound: rows the name has, one after the other
    SiteSlots,       \* operations under way at once
    KeptVersions,    \* versions kept for a rollback
    MaxVersion,      \* bound: deploys of a row
    MaxKeys,         \* bound: share keys
    LastHour,        \* bound: hours of usage
    MaxSwitches,     \* bound: uses of the kill switch
    MaxSiteFaults    \* bound: crashes and failed calls

ASSUME SitesAssumption ==
    /\ SiteIds \subseteq Nat \ {0} /\ "free" \notin SiteSlots
    /\ {"none", "gone"} \cap Bundles = {}
    /\ {KeptVersions, MaxVersion, MaxKeys, LastHour, MaxSwitches, MaxSiteFaults} \subseteq Nat

VARIABLES
    site,        \* the row of sites that has the name
    versions,    \* its site_versions
    siteLock,    \* the slot whose transaction holds the row
    route,       \* the host: what the name leads to
    script,      \* the host: the bundle each site's Worker runs
    bundles,     \* the blob store
    op,          \* an operation under way
    siteHour,    \* the clock
    charged,     \* how often each hour was charged
    lastKey,     \* share keys given out
    unshared,    \* history: keys whose unsharing was answered
    tangled,     \* history: an operation without the lock met another, or one failed
    switches, siteFaults

sitesVars == <<site, versions, siteLock, route, script, bundles, op, siteHour, charged, lastKey,
               unshared, tangled, switches, siteFaults>>

hostVars == <<route, script, bundles>>
clockVars == <<siteHour, charged>>
boundVars == <<switches, siteFaults>>

NoSite == [id |-> 0, access |-> "private", key |-> 0, paused |-> "no", current |-> 0, accrued |-> 0]
NoRoute == [script |-> 0, access |-> "private", key |-> 0, paused |-> FALSE]
NoOp == [pc |-> "idle", row |-> NoSite, bundle |-> "none", unused |-> {}]

SiteRows == [id : SiteIds \cup {0}, access : {"private", "link"}, key : 0 .. MaxKeys,
             paused : {"no", "cap", "kill_switch"}, current : 0 .. MaxVersion,
             accrued : 0 .. LastHour]

\* A site's entry in the routes map.
RouteOf(row) == [script |-> row.id, access |-> row.access, key |-> row.key,
                 paused |-> row.paused # "no"]

\* The dispatch Worker lets a browser with this share key in.
LinkOpens(key) ==
    /\ route.script # 0 /\ ~route.paused
    /\ route.access = "link" /\ route.key = key
    /\ script[route.script] # "none"

Deployed == site.current # 0
BundleOf(number) == (CHOOSE v \in versions : v.number = number).bundle
LatestVersion == Cardinality({n \in 1 .. MaxVersion : \E v \in versions : v.number >= n})
Go(s, pc) == op' = [op EXCEPT ![s].pc = pc]
TakeLock(s) == siteLock = "free" /\ siteLock' = s

-----------------------------------------------------------------------------
(* Deploying                                                               *)

\* claim: the user's own site of this name, or a new one.
ClaimSite(s) ==
    /\ op[s] = NoOp /\ siteLock = "free"
    /\ \/ site.id # 0 /\ UNCHANGED site
       \/ /\ site.id = 0
          /\ \E id \in SiteIds : /\ \A other \in SiteIds : other < id => script[other] = "gone"
                                 /\ script[id] = "none"
                                 /\ site' = [NoSite EXCEPT !.id = id, !.accrued = siteHour]
    /\ \E b \in Bundles : op' = [op EXCEPT ![s] = [NoOp EXCEPT !.pc = "deploy", !.row = site',
                                                              !.bundle = b]]
    /\ UNCHANGED <<versions, siteLock, hostVars, clockVars, lastKey, unshared, boundVars>>

\* The row is read again under its lock; when it is gone, the claimed one is used.
LockForDeploy(s) ==
    /\ op[s].pc = "deploy" /\ LatestVersion < MaxVersion
    /\ IF site.id = op[s].row.id
       THEN TakeLock(s) /\ op' = [op EXCEPT ![s].pc = "put", ![s].row = site]
       ELSE UNCHANGED siteLock /\ Go(s, "put")
    /\ UNCHANGED <<site, versions, hostVars, clockVars, lastKey, unshared, boundVars>>

PutScript(s) ==
    /\ op[s].pc = "put"
    /\ bundles' = bundles \cup {op[s].bundle}
    /\ script' = [script EXCEPT ![op[s].row.id] = op[s].bundle]
    /\ Go(s, "route")
    /\ UNCHANGED <<site, versions, siteLock, route, clockVars, lastKey, unshared, boundVars>>

DeployRoute(s) ==
    /\ op[s].pc = "route"
    /\ route' = RouteOf(op[s].row)
    /\ Go(s, "version")
    /\ UNCHANGED <<site, versions, siteLock, script, bundles, clockVars, lastKey, unshared,
                   boundVars>>

\* The versions a new one leaves behind.
Pruned(number) == {v \in versions : v.number + KeptVersions <= number}

\* The new version is recorded; a version of a row that is gone cannot be.
CommitDeploy(s) ==
    LET number == 1 + LatestVersion
    IN  /\ op[s].pc = "version"
        /\ siteLock' = IF siteLock = s THEN "free" ELSE siteLock
        /\ IF site.id = op[s].row.id
           THEN /\ versions' = (versions \ Pruned(number))
                                   \cup {[number |-> number, bundle |-> op[s].bundle]}
                /\ site' = [site EXCEPT !.current = number]
                /\ op' = [op EXCEPT ![s] = [NoOp EXCEPT !.pc = "prune",
                                            !.unused = {v.bundle : v \in Pruned(number)}]]
           ELSE op' = [op EXCEPT ![s] = NoOp] /\ UNCHANGED <<site, versions>>
        /\ UNCHANGED <<hostVars, clockVars, lastKey, unshared, boundVars>>

DeleteUnusedBundles(s) ==
    /\ op[s].pc = "prune"
    /\ bundles' = bundles \ {b \in op[s].unused : \A v \in versions : v.bundle # b}
    /\ op' = [op EXCEPT ![s] = NoOp]
    /\ UNCHANGED <<site, versions, siteLock, route, script, clockVars, lastKey, unshared,
                   boundVars>>

\* An earlier version's files are put back, under the lock.
LockForRollback(s) ==
    /\ op[s] = NoOp /\ Deployed /\ TakeLock(s)
    /\ \E v \in versions :
          /\ v.number # site.current /\ v.bundle \in bundles
          /\ op' = [op EXCEPT ![s] = [NoOp EXCEPT !.pc = "roll", !.bundle = v.bundle,
                                                  !.row = [site EXCEPT !.current = v.number]]]
    /\ UNCHANGED <<site, versions, hostVars, clockVars, lastKey, unshared, boundVars>>

RollBack(s) ==
    /\ op[s].pc = "roll"
    /\ script' = [script EXCEPT ![op[s].row.id] = op[s].bundle]
    /\ Go(s, "commit")
    /\ UNCHANGED <<site, versions, siteLock, route, bundles, clockVars, lastKey, unshared,
                   boundVars>>

-----------------------------------------------------------------------------
(* Sharing, usage and the kill switch                                      *)

\* setAccess updates the row, which locks it; others see it once it commits.
Share(s) ==
    /\ op[s] = NoOp /\ Deployed /\ site.access = "private" /\ lastKey < MaxKeys /\ TakeLock(s)
    /\ lastKey' = lastKey + 1
    /\ op' = [op EXCEPT ![s] = [NoOp EXCEPT !.pc = "announce",
                                !.row = [site EXCEPT !.access = "link", !.key = lastKey + 1]]]
    /\ UNCHANGED <<site, versions, hostVars, clockVars, unshared, boundVars>>

Unshare(s) ==
    /\ op[s] = NoOp /\ Deployed /\ site.access = "link" /\ TakeLock(s)
    /\ op' = [op EXCEPT ![s] = [NoOp EXCEPT !.pc = "announce",
                                !.row = [site EXCEPT !.access = "private", !.key = 0]]]
    /\ UNCHANGED <<site, versions, hostVars, clockVars, lastKey, unshared, boundVars>>

\* Mutant: the hours counted are not written down with what they cost.
MutAccrueUsage(s) ==
    /\ op[s] = NoOp /\ Deployed /\ site.accrued < siteHour /\ TakeLock(s)
    /\ op' = [op EXCEPT ![s] = [NoOp EXCEPT !.pc = "announce",
                                !.row = [site EXCEPT !.paused = "cap"]]]
    /\ charged' = [h \in DOMAIN charged |->
                      IF site.accrued <= h /\ h < siteHour THEN charged[h] + 1 ELSE charged[h]]
    /\ UNCHANGED <<site, versions, hostVars, siteHour, lastKey, unshared, boundVars>>

\* The hourly count: hours since the last one are charged, and the caps applied.
\* Over a cap it is paused; a new month or a smaller database lifts that.
AccrueUsage(s) ==
    /\ op[s] = NoOp /\ Deployed /\ site.accrued < siteHour /\ TakeLock(s)
    /\ \E pause \in {site.paused, "no", "cap"} :
          /\ site.paused = "kill_switch" => pause = "kill_switch"
          /\ op' = [op EXCEPT ![s] = [NoOp EXCEPT
                 !.pc = IF pause = site.paused THEN "commit" ELSE "announce",
                 !.row = [site EXCEPT !.accrued = siteHour, !.paused = pause]]]
    /\ UNCHANGED <<site, versions, hostVars, clockVars, lastKey, unshared, boundVars>>

\* The host's route follows before the transaction commits.
Announce(s) ==
    /\ op[s].pc = "announce"
    /\ route' = RouteOf(op[s].row)
    /\ Go(s, "commit")
    /\ UNCHANGED <<site, versions, siteLock, script, bundles, clockVars, lastKey, unshared,
                   boundVars>>

CommitRow(s) ==
    LET row == op[s].row IN
    /\ op[s].pc = "commit"
    /\ site' = row /\ siteLock' = "free"
    /\ charged' = [h \in DOMAIN charged |->
                      IF site.accrued <= h /\ h < row.accrued THEN charged[h] + 1 ELSE charged[h]]
    /\ unshared' = IF row.access = "private" THEN unshared \cup ({site.key} \ {0}) ELSE unshared
    /\ op' = [op EXCEPT ![s] = NoOp]
    /\ UNCHANGED <<versions, hostVars, siteHour, lastKey, boundVars>>

\* pauseAllSites, resumeAllSites and the monthly spend: each row is updated ...
Switch(s) ==
    /\ op[s] = NoOp /\ Deployed /\ siteLock = "free"
    /\ switches < MaxSwitches /\ switches' = switches + 1
    /\ \/ site.paused = "no" /\ \E reason \in {"cap", "kill_switch"} :
                                     site' = [site EXCEPT !.paused = reason]
       \/ site.paused = "kill_switch" /\ site' = [site EXCEPT !.paused = "no"]
    /\ op' = [op EXCEPT ![s] = [NoOp EXCEPT !.pc = "switched", !.row = site']]
    /\ UNCHANGED <<versions, siteLock, hostVars, clockVars, lastKey, unshared, siteFaults>>

\* ... and the route follows later, without the lock.
SwitchRoute(s) ==
    /\ op[s].pc = "switched"
    /\ route' = RouteOf(op[s].row)
    /\ op' = [op EXCEPT ![s] = NoOp]
    /\ UNCHANGED <<site, versions, siteLock, script, bundles, clockVars, lastKey, unshared,
                   boundVars>>

-----------------------------------------------------------------------------
(* Removing                                                                *)

\* removeSite reads the row; then its address goes, its Worker, and its row.
RemoveRoute(s) ==
    /\ op[s] = NoOp /\ site.id # 0
    /\ op' = [op EXCEPT ![s] = [NoOp EXCEPT !.pc = "remove", !.row = site]]
    /\ route' = NoRoute
    /\ UNCHANGED <<site, versions, siteLock, script, bundles, clockVars, lastKey, unshared,
                   boundVars>>

RemoveScript(s) ==
    /\ op[s].pc = "remove"
    /\ script' = [script EXCEPT ![op[s].row.id] = "gone"]
    /\ Go(s, "delete")
    /\ UNCHANGED <<site, versions, siteLock, route, bundles, clockVars, lastKey, unshared,
                   boundVars>>

RemoveRow(s) ==
    /\ op[s].pc = "delete"
    /\ IF site.id = op[s].row.id
       THEN /\ siteLock = "free" /\ site' = NoSite /\ versions' = {}
            /\ op' = [op EXCEPT ![s] = [NoOp EXCEPT !.pc = "prune",
                                        !.unused = {v.bundle : v \in versions}]]
       ELSE op' = [op EXCEPT ![s] = NoOp] /\ UNCHANGED <<site, versions>>
    /\ UNCHANGED <<siteLock, hostVars, clockVars, lastKey, unshared, boundVars>>

-----------------------------------------------------------------------------
\* The process dies or a call to the host fails: the transaction is undone, what
\* the host was told is not.
OpFails(s) ==
    /\ op[s] # NoOp
    /\ siteFaults < MaxSiteFaults /\ siteFaults' = siteFaults + 1
    /\ siteLock' = IF siteLock = s THEN "free" ELSE siteLock
    /\ op' = [op EXCEPT ![s] = NoOp]
    /\ UNCHANGED <<site, versions, hostVars, clockVars, lastKey, unshared, switches>>

HourPasses ==
    /\ siteHour < LastHour /\ siteHour' = siteHour + 1
    /\ UNCHANGED <<site, versions, siteLock, hostVars, op, charged, lastKey, unshared, boundVars>>

Unlocked(s) == \/ op[s].pc \in {"switched", "remove", "delete", "prune"}
               \/ op[s].pc \in {"put", "route", "version"} /\ siteLock # s
Meets == \E s, t \in SiteSlots : s # t /\ op[t] # NoOp /\ Unlocked(s)

SitesInit ==
    /\ site = NoSite /\ versions = {} /\ siteLock = "free"
    /\ route = NoRoute /\ script = [id \in SiteIds |-> "none"] /\ bundles = {}
    /\ op = [s \in SiteSlots |-> NoOp]
    /\ siteHour = 0 /\ charged = [h \in 0 .. LastHour |-> 0] /\ lastKey = 0
    /\ unshared = {} /\ tangled = FALSE /\ switches = 0 /\ siteFaults = 0

SiteStep(s) ==
    \/ ClaimSite(s) \/ LockForDeploy(s) \/ PutScript(s) \/ DeployRoute(s) \/ CommitDeploy(s)
    \/ DeleteUnusedBundles(s) \/ LockForRollback(s) \/ RollBack(s)
    \/ Share(s) \/ Unshare(s) \/ AccrueUsage(s) \/ Announce(s) \/ CommitRow(s)
    \/ Switch(s) \/ SwitchRoute(s)
    \/ RemoveRoute(s) \/ RemoveScript(s) \/ RemoveRow(s) \/ OpFails(s)

SitesNext ==
    /\ HourPasses \/ \E s \in SiteSlots : SiteStep(s)
    /\ tangled' = (tangled \/ Meets' \/ siteFaults' # 0)

SitesSpec == SitesInit /\ [][SitesNext]_sitesVars

-----------------------------------------------------------------------------
(* Properties                                                              *)

SitesTypeOK ==
    /\ site \in SiteRows /\ \A s \in SiteSlots : op[s].row \in SiteRows
    /\ \A v \in versions : v.number \in 1 .. MaxVersion /\ v.bundle \in Bundles
    /\ siteLock \in SiteSlots \cup {"free"}
    /\ script \in [SiteIds -> Bundles \cup {"none", "gone"}] /\ bundles \subseteq Bundles
    /\ route.script \in SiteIds \cup {0}

\* Deploys, rollbacks, sharing and the hourly count, under their lock, and
\* removals and switches when they meet no other operation, leave the host
\* with what the rows say: the route of the site, the script of its current
\* version, a bundle for every version kept, and nothing of a site removed.
HostFollowsRows ==
    (~tangled /\ \A s \in SiteSlots : op[s] = NoOp) =>
        /\ \A v \in versions : v.bundle \in bundles
        /\ IF Deployed
           THEN route = RouteOf(site) /\ script[site.id] = BundleOf(site.current)
           ELSE site.id = 0 => route = NoRoute /\ \A id \in SiteIds : script[id] \notin Bundles

\* "Two agents tasks (a deploy) never count the same hour twice" (usage.ts),
\* nor do counts that failed and were tried again: an hour is charged once at most.
HoursChargedOnce == \A h \in DOMAIN charged : charged[h] <= 1

\* What is served, and what is charged for it, is what the rows say.
SiteKept == HostFollowsRows /\ HoursChargedOnce

\* "Makes a site private again: its share link and anyone who opened it stop
\* working" (manage.ts).  But a switch's route, written late, brings the old
\* key back.
UnsharedStaysShut == \A key \in unshared : ~LinkOpens(key)
=============================================================================
