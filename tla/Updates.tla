------------------------------- MODULE Updates -------------------------------
(***************************************************************************)
(* Keeping a computer's binaries current: the gateway's offers, and the    *)
(* work it holds for them (apps/gateway/src/updates.ts); winstond fetching *)
(* the CLI and itself and waiting to restart (apps/winstond/src/daemon.ts, *)
(* updater.ts); systemd and the pre-start script that rolls a version back *)
(* (image/scripts/winstond.sh).                                            *)
(*                                                                         *)
(* A version is its build number; one that is Broken never connects.  A    *)
(* process reports the versions it read when it started, and the CLI's as  *)
(* it swaps it.  Frames are in order on a connection; what the gateway     *)
(* awaits in between (a presigned URL, the row's update) is not.           *)
(***************************************************************************)
EXTENDS Naturals, Sequences

CONSTANTS
    MaxVersion,         \* bound: versions published after version 0
    Broken,             \* versions whose winstond doesn't start
    Works,              \* calls for exec work
    RollbackStarts,     \* starts before a version is rolled back: 3
    MaxConnects         \* bound: connections made

ASSUME UpdatesAssumption ==
    /\ {MaxVersion, MaxConnects} \subseteq Nat
    /\ RollbackStarts \in Nat \ {0}
    /\ Broken \subseteq 1 .. MaxVersion

VARIABLES
    published,          \* vm/latest.json
    manifest, reported, offering, waited,
    hellos,             \* the gateway: hellos whose row is being updated
    work,               \* the gateway: calls held until the CLI is current
    connected, connects,
    offered,            \* frames to winstond
    process, updating,  \* winstond, and its one update at work
    bin, cli, previous, marker, starts, failed,   \* on the VM's disk
    \* history
    confirmedEarly      \* versions whose marker the winstond being replaced removed

gatewayUpdateVars == <<published, manifest, reported, offering, waited, hellos, work>>
diskVars == <<bin, cli, previous, marker, starts, failed>>
updateVars == <<gatewayUpdateVars, connected, connects, offered, process, updating, diskVars, confirmedEarly>>

Versions == 0 .. MaxVersion
Nothing == MaxVersion + 1       \* no such file, or nothing reported
Reports == [cli |-> process.cli, winstond |-> process.version]
NoReport == [cli |-> Nothing, winstond |-> Nothing]
NotUpdating == [at |-> "no", version |-> 0]

(***************************************************************************)
(* The gateway.                                                            *)
(***************************************************************************)
CliCurrent(report) == report = NoReport \/ report.cli >= manifest
Outdated(report) == report # NoReport /\ (report.cli < manifest \/ report.winstond < manifest)
Let(report) == IF CliCurrent(report) THEN [w \in Works |-> IF work[w] = "held" THEN "ready" ELSE work[w]] ELSE work

PublishVersion ==
    /\ published < MaxVersion
    /\ published' = published + 1
    /\ UNCHANGED <<manifest, reported, offering, waited, hellos, work, connected, connects, offered,
                   process, updating, diskVars, confirmedEarly>>

\* refresh: a new version is offered to a connected VM.
Refresh ==
    /\ manifest # published
    /\ manifest' = published
    /\ offering' = IF reported # NoReport /\ (reported.cli < published \/ reported.winstond < published)
                   THEN offering \cup {published} ELSE offering
    /\ UNCHANGED <<published, reported, waited, hellos, work, connected, connects, offered,
                   process, updating, diskVars, confirmedEarly>>

\* hello: the row is updated first, so two of them, or a disconnection, can pass it.
StoredHello(report) ==
    /\ report \in hellos
    /\ hellos' = hellos \ {report}
    /\ reported' = report
    /\ work' = Let(report)
    /\ offering' = IF Outdated(report) THEN offering \cup {manifest} ELSE offering
    /\ UNCHANGED <<published, manifest, waited, connected, connects, offered, process, updating, diskVars, confirmedEarly>>

\* offer: the URLs are signed, and the frame sent if the VM is still connected.
SendOffer(v) ==
    /\ v \in offering
    /\ offering' = offering \ {v}
    /\ offered' = IF connected THEN Append(offered, v) ELSE offered
    /\ UNCHANGED <<published, manifest, reported, waited, hellos, work, connected, connects,
                   process, updating, diskVars, confirmedEarly>>

AskReady(w) ==
    /\ work[w] = "none"
    /\ work' = [work EXCEPT ![w] = IF CliCurrent(reported) \/ waited = manifest THEN "ready" ELSE "held"]
    /\ UNCHANGED <<published, manifest, reported, offering, waited, hellos, connected, connects, offered,
                   process, updating, diskVars, confirmedEarly>>

\* holdMs ran out: the work goes on, and no other waits for the manifest of now.
HeldTooLong(w) ==
    /\ work[w] = "held"
    /\ work' = [work EXCEPT ![w] = "late"]
    /\ waited' = manifest
    /\ UNCHANGED <<published, manifest, reported, offering, hellos, connected, connects, offered,
                   process, updating, diskVars, confirmedEarly>>

(***************************************************************************)
(* The connection.                                                         *)
(***************************************************************************)
Confirmed ==
    /\ marker' = Nothing /\ starts' = 0
    /\ confirmedEarly' = IF updating.at \in {"swap", "swapped", "idle"} THEN confirmedEarly \cup {updating.version}
                         ELSE confirmedEarly

\* Accepted: winstond says hello, and what started has worked.
VmAccepted ==
    /\ process.up /\ process.version \notin Broken /\ ~connected /\ connects < MaxConnects
    /\ connected' = TRUE /\ connects' = connects + 1
    /\ hellos' = hellos \cup {Reports}
    /\ offered' = <<>>
    /\ Confirmed
    /\ UNCHANGED <<published, manifest, reported, offering, waited, work, process, updating,
                   bin, cli, previous, failed>>

Lost == connected' = FALSE /\ reported' = NoReport /\ offered' = <<>>

VmDisconnected ==
    /\ connected /\ Lost
    /\ UNCHANGED <<published, manifest, offering, waited, hellos, work, connects, process, updating, diskVars, confirmedEarly>>

(***************************************************************************)
(* Winstond's update: the CLI, then itself, then the wait until it is idle.*)
(***************************************************************************)
TakeOffer ==
    /\ process.up /\ offered # <<>>
    /\ offered' = Tail(offered)
    /\ updating' = IF updating.at = "no" THEN [at |-> "cli", version |-> Head(offered)] ELSE updating
    /\ UNCHANGED <<gatewayUpdateVars, connected, connects, process, diskVars, confirmedEarly>>

SwapCli ==
    /\ updating.at = "cli"
    /\ cli' = IF process.cli # updating.version THEN updating.version ELSE cli
    /\ updating' = [updating EXCEPT !.at = "winstond"]
    /\ UNCHANGED <<gatewayUpdateVars, connected, connects, offered, process, bin, previous, marker, starts, failed,
                   confirmedEarly>>

\* A failed version isn't installed again; the marker and the old binary are put by first.
NeedsWinstond == process.version # updating.version /\ failed # updating.version

MutPutBy ==
    /\ updating.at = "winstond" /\ NeedsWinstond
    /\ previous' = previous /\ marker' = updating.version /\ starts' = 0
    /\ updating' = [updating EXCEPT !.at = "swap"]
    /\ UNCHANGED <<gatewayUpdateVars, connected, connects, offered, process, bin, cli, failed, confirmedEarly>>
PutBy ==
    /\ updating.at = "winstond" /\ NeedsWinstond
    /\ previous' = bin /\ marker' = updating.version /\ starts' = 0
    /\ updating' = [updating EXCEPT !.at = "swap"]
    /\ UNCHANGED <<gatewayUpdateVars, connected, connects, offered, process, bin, cli, failed, confirmedEarly>>

SwapWinstond ==
    /\ updating.at = "swap"
    /\ bin' = updating.version
    /\ updating' = [updating EXCEPT !.at = "swapped"]
    /\ UNCHANGED <<gatewayUpdateVars, connected, connects, offered, process, cli, previous, marker, starts, failed,
                   confirmedEarly>>

\* apply returns: the gateway hears of a new CLI at once, and winstond waits to be idle.
Applied ==
    /\ updating.at = "swapped" \/ (updating.at = "winstond" /\ ~NeedsWinstond)
    /\ process' = [process EXCEPT !.cli = updating.version]
    /\ hellos' = IF connected /\ process.cli # updating.version THEN hellos \cup {Reports'} ELSE hellos
    /\ updating' = IF updating.at = "swapped" THEN [updating EXCEPT !.at = "idle"] ELSE NotUpdating
    /\ UNCHANGED <<published, manifest, reported, offering, waited, work, connected, connects, offered, diskVars,
                   confirmedEarly>>

\* A download failed, or a signature: the CLI swapped in already goes unreported.
ApplyFails ==
    /\ updating.at \in {"cli", "winstond"}
    /\ updating' = NotUpdating
    /\ UNCHANGED <<gatewayUpdateVars, connected, connects, offered, process, diskVars, confirmedEarly>>

Down == process' = [process EXCEPT !.up = FALSE] /\ updating' = NotUpdating

RestartForUpdate ==
    /\ updating.at = "idle" /\ Down
    /\ IF connected THEN Lost ELSE UNCHANGED <<connected, reported, offered>>
    /\ UNCHANGED <<published, manifest, offering, waited, hellos, work, connects, diskVars, confirmedEarly>>

\* It crashes, or the VM restarts; a broken version does so whenever it starts.
VmCrashes ==
    /\ process.up /\ Down
    /\ IF connected THEN Lost ELSE UNCHANGED <<connected, reported, offered>>
    /\ UNCHANGED <<published, manifest, offering, waited, hellos, work, connects, diskVars, confirmedEarly>>

(***************************************************************************)
(* systemd: prestart.sh, then the binary that is there.                    *)
(***************************************************************************)
RollsBack == starts + 1 > RollbackStarts /\ previous # Nothing

Started == process' = [up |-> TRUE, version |-> bin', cli |-> cli]

PlainStart ==
    /\ ~process.up /\ (marker = Nothing \/ ~RollsBack)
    /\ starts' = IF marker = Nothing \/ starts > RollbackStarts THEN starts ELSE starts + 1
    /\ bin' = bin /\ Started
    /\ UNCHANGED <<gatewayUpdateVars, connected, connects, offered, updating, cli, previous, marker, failed, confirmedEarly>>

Rollback ==
    /\ ~process.up /\ marker # Nothing /\ RollsBack
    /\ bin' = previous /\ previous' = Nothing
    /\ failed' = marker /\ marker' = Nothing /\ starts' = 0
    /\ Started
    /\ UNCHANGED <<gatewayUpdateVars, connected, connects, offered, updating, cli, confirmedEarly>>

\* The VM goes down between the script's two renames: the marker outlives the rollback.
RollbackCutShort ==
    /\ ~process.up /\ marker # Nothing /\ RollsBack
    /\ bin' = previous /\ previous' = Nothing
    /\ UNCHANGED <<gatewayUpdateVars, connected, connects, offered, process, updating, cli, marker, starts, failed,
                   confirmedEarly>>

UpdatesInit ==
    /\ published = 0 /\ manifest = 0 /\ reported = NoReport /\ offering = {} /\ waited = Nothing
    /\ hellos = {} /\ work = [w \in Works |-> "none"]
    /\ connected = FALSE /\ connects = 0 /\ offered = <<>>
    /\ process = [up |-> TRUE, version |-> 0, cli |-> 0] /\ updating = NotUpdating
    /\ bin = 0 /\ cli = 0 /\ previous = Nothing /\ marker = Nothing /\ starts = 0 /\ failed = Nothing
    /\ confirmedEarly = {}

GatewayUpdateStep ==
    \/ PublishVersion \/ Refresh
    \/ \E report \in hellos : StoredHello(report)
    \/ \E v \in Versions : SendOffer(v)
    \/ \E w \in Works : AskReady(w) \/ HeldTooLong(w)

VmUpdateStep ==
    \/ VmAccepted \/ VmDisconnected
    \/ TakeOffer \/ SwapCli \/ PutBy \/ SwapWinstond \/ Applied \/ ApplyFails
    \/ RestartForUpdate \/ VmCrashes \/ PlainStart \/ Rollback \/ RollbackCutShort

UpdatesNext == GatewayUpdateStep \/ VmUpdateStep

UpdatesSpec == UpdatesInit /\ [][UpdatesNext]_updateVars

(***************************************************************************)
(* Properties.                                                             *)
(***************************************************************************)
UpdatesTypeOK ==
    /\ {published, manifest, bin, cli} \subseteq Versions
    /\ {previous, marker, failed, waited} \subseteq Versions \cup {Nothing}
    /\ starts \in 0 .. RollbackStarts + 1
    /\ work \in [Works -> {"none", "held", "ready", "late"}]
    /\ updating.at \in {"no", "cli", "winstond", "swap", "swapped", "idle"}
    /\ connected => process.up

\* While a broken version is in place and its marker there, the binary to go back to is
\* there too, and works: no crash between the steps of a swap loses it (updater.ts:12-16).
RollbackWorks == bin \in Broken /\ marker # Nothing => previous # Nothing /\ previous \notin Broken

\* A version that failed here is not installed a second time (updater.ts:15).
NotTriedAgain == failed # Nothing => bin # failed

\* A broken version keeps its marker until it is rolled back, unless the winstond it
\* replaces removed it, reconnecting while it waited to be idle.
BrokenIsMarked == bin \in Broken \ confirmedEarly => marker = bin /\ starts <= RollbackStarts

\* Work is held only for a CLI that is behind: once the gateway knows of the current one,
\* nothing waits (updates.ts, release).
HeldForTheCli == \A w \in Works : work[w] = "held" => reported = NoReport \/ reported.cli < manifest

UpdatesKept == RollbackWorks /\ NotTriedAgain /\ BrokenIsMarked /\ HeldForTheCli

\* A new version that never starts is rolled back: its marker stays until it connects.
\* "A new winstond that connects removes the marker" (updater.ts:16-17); the old one does
\* too, when it reconnects before it is replaced.
BrokenVersionsGoBack == bin \in Broken => marker # Nothing

\* The CLI never goes back to an older version.  It can: a slow signature sends the older
\* offer last (updates.ts:90-99).
CliOnlyAdvances == [][cli' >= cli]_updateVars
=============================================================================
