------------------------------ MODULE WanHealth ------------------------------
(***************************************************************************)
(* What the integration concludes about the router's uplinks: the          *)
(* reachability of each WAN (api/domains/wan.py, api/parsers/wan.py), the  *)
(* payload a tick publishes from it (coordinator.py,                       *)
(* coordinator_parts/enrichment.py), and the entities that accumulate over *)
(* many payloads: the downtime clocks of the router and of each provider   *)
(* and the failover counter (sensor/network.py), with what Home Assistant  *)
(* stores of them across restarts.                                         *)
(*                                                                         *)
(* Time is counted in fractions of a second: a whole second is a rounding. *)
(* What a tick reads is any report of `Reports`; which ticks fail, and how *)
(* many failures are tolerated, is RefreshCoordinator's business: here any *)
(* tick may fail and any tick with a snapshot may be tolerated.            *)
(***************************************************************************)
EXTENDS Integers, FiniteSets

CONSTANTS
    Wan,          \* the uplinks, numbered in the router's listing order
    Reports,      \* Reports[w]: what the router may answer about w
    Second,       \* steps of the clock in a second
    BootGrace,    \* _BOOT_GRACE, in clock steps
    PublishStep,  \* _PUBLISH_STEP, in seconds
    MaxStep,      \* bound: clock steps between two ticks
    MaxTime       \* bound: clock steps of a behaviour

Verdict == {"pass", "fail", "unknown"}

\* One profile's result for an interface: whether every address it probes is
\* a documentation (TEST-NET) address, and its status.
Observation == [testNet : BOOLEAN, status : {"pass", "fail", "other", "none"}]

\* An interface as show/interface lists it; `link` is the physical link that
\* may be down below a configured state of "up", priority 0 is none.
Interface == [up : BOOLEAN, link : BOOLEAN, addr : {"none", "zero", "real"},
              global : BOOLEAN, priority : Nat, inet : BOOLEAN,
              failing : BOOLEAN, disabled : BOOLEAN, defaultgw : BOOLEAN]

Absent == [absent |-> TRUE]
Report == [iface : Interface \cup {Absent}, checks : SUBSET Observation]

NoWan     == 0
NoData    == [published |-> FALSE]
Stopped   == -1
Hidden    == -1       \* a sensor shown as unavailable
Internet  == 0        \* the router's own clock, beside one per provider
Clock     == Wan \cup {Internet}

ASSUME WanAssumption == Wan \subseteq Nat \ {0} /\ IsFiniteSet(Wan)

ASSUME ReportAssumption == Reports \in [Wan -> SUBSET Report]

ASSUME TimeAssumption ==
    /\ Second \in Nat \ {0}
    /\ BootGrace \in Nat
    /\ PublishStep \in Nat \ {0}
    /\ MaxStep \in Nat \ {0}
    /\ MaxTime \in Nat

VARIABLES
    now,       \* monotonic()
    uptime,    \* time since the router booted, at most BootGrace
    ha,        \* the entry is loaded
    ok,        \* last_update_success
    data,      \* the published payload: WANs, ping check, freshness
    active,    \* the payload's active_wan
    failover,  \* the payload carries a wan_failover
    known,     \* the providers whose entities exist
    clock,     \* clock[c]: _seconds, _down_since, _published
    count,     \* the failover counter's _count
    shown,     \* shown[w]: the provider total Home Assistant shows
    seen,      \* seen[w]: _last_fingerprint and _last_available
    saved,     \* the restore-state store
    \* history, for the properties
    observed,  \* observed[c]: what the last update said of c's uplink
    lastAt,    \* when the entities last handled an update
    owed,      \* owed[c]: time between two readings of c, the first down
    doubt,     \* doubt[c]: time beside a reading that was only guessed
    switches   \* changes of the published default gateway

world   == <<now, uptime>>
payload == <<data, active, failover>>
entities == <<known, clock, count, shown, seen>>
history == <<observed, lastAt, owed, doubt, switches>>
vars    == <<world, ha, ok, payload, entities, saved, history>>

-----------------------------------------------------------------------------
(***************************************************************************)
(* Reachability of one WAN.                                                *)
(***************************************************************************)
\* The profiles worth believing: a one-off connection test is not.
Authoritative(obs) == {o \in obs : ~o.testNet}

\* async_get_ping_check_status: any failing profile wins; a pass needs every
\* profile with a status to pass.
PingVerdict(obs) ==
    LET statuses == {o.status : o \in Authoritative(obs)} \ {"none"} IN
    IF "fail" \in statuses THEN "fail"
    ELSE IF statuses = {"pass"} THEN "pass"
    ELSE "unknown"

\* is_ranked_wan_interface.
Ranked(i) == i.inet \/ (i.global /\ i.priority > 0)

\* derive_wan_enabled.
Enabled(i) == ~i.disabled

\* derive_wan_internet_access: the guess made without a ping check.
Heuristic(i) == i.up /\ i.global /\ i.addr = "real" /\ ~i.failing

\* _stamp_ping_check: the router's own check decides where it has a verdict.
InternetAccess(i, verdict) ==
    IF verdict = "unknown" THEN Heuristic(i) ELSE verdict = "pass"

-----------------------------------------------------------------------------
(***************************************************************************)
(* The payload of a tick.                                                  *)
(***************************************************************************)
\* One WAN as published: the interface, the ping check stamped on it, and the
\* time at which its per-poll counters (session uptime, probe counts) moved.
Entry(i, obs, at) ==
    LET verdict == PingVerdict(obs) IN
    [iface  |-> i,
     ping   |-> [bound |-> obs # {}, verdict |-> verdict],
     access |-> InternetAccess(i, verdict),
     moved  |-> at]

WanEntry == [iface  : Interface,
             ping   : [bound : BOOLEAN, verdict : Verdict],
             access : BOOLEAN,
             moved  : Nat]

Present(wans) == {w \in Wan : wans[w] # Absent}

\* _build_dynamic_sensors: entities are added for a WAN that is seen for the
\* first time, and stay.
Added(wans) == known \cup Present(wans)

\* active_wan: the first WAN, in listing order, that holds the default route.
Holders(wans) == {w \in Present(wans) : wans[w].iface.defaultgw}

ActiveWan(wans) ==
    IF Holders(wans) = {} THEN NoWan
    ELSE CHOOSE w \in Holders(wans) : \A v \in Holders(wans) : w <= v

\* order_wan_interfaces: the active WAN first, the others by priority, equal
\* ones as listed; a WAN's role is its position.
Precedes(wans, v, w) ==
    \/ v = ActiveWan(wans)
    \/ /\ w # ActiveWan(wans)
       /\ \/ wans[v].iface.priority > wans[w].iface.priority
          \/ wans[v].iface.priority = wans[w].iface.priority /\ v < w

Role(wans, w) == Cardinality({v \in Present(wans) \ {w} : Precedes(wans, v, w)})

Payload ==
    [wans   : [Wan -> WanEntry \cup {Absent}],
     checks : [Wan -> SUBSET Observation],
     fresh  : BOOLEAN,
     booted : BOOLEAN]

\* The three reads a payload depends on.  A tolerated failure of a critical
\* read keeps what was published.  The ping check read swallows its errors,
\* a missing endpoint included, and answers with no result at all; only an
\* answer of the wrong shape makes the fetch itself fail.
Reads == [system     : {"read", "kept"},
          interfaces : {"read", "kept"},
          ping       : {"answered", "swallowed", "raised"}]

Complete(reads) == /\ reads.system = "read"
                   /\ reads.interfaces = "read"
                   /\ reads.ping # "raised"

\* The observations that reach the payload.
ChecksRead(reads, report) ==
    CASE reads.ping = "answered"  -> [w \in Wan |-> report[w].checks]
      [] reads.ping = "swallowed" -> [w \in Wan |-> {}]
      [] reads.ping = "raised"    -> IF data = NoData THEN [w \in Wan |-> {}]
                                     ELSE data.checks

\* The WAN list is rebuilt from the interfaces on every tick.  The session
\* uptime of a WAN that is up, and the counters of a bound check, move with
\* every reading.
Rebuilt(w, reads, report, checks, t) ==
    LET i == IF reads.interfaces = "read" THEN report[w].iface
             ELSE IF data.wans[w] = Absent THEN Absent
             ELSE data.wans[w].iface
        at == IF i # Absent /\ checks[w] # {} /\ reads.ping = "answered" THEN t
              ELSE IF i = Absent \/ ~i.up THEN 0
              ELSE IF reads.interfaces = "read" THEN t
              ELSE data.wans[w].moved
    IN  IF i # Absent /\ Ranked(i) THEN Entry(i, checks[w], at) ELSE Absent

NextPayload(reads, report, t, booted) ==
    LET checks == ChecksRead(reads, report) IN
    [wans   |-> [w \in Wan |-> Rebuilt(w, reads, report, checks, t)],
     checks |-> checks,
     fresh  |-> Complete(reads),
     booted |-> IF reads.system = "read" THEN booted ELSE data.booted]

\* The change of default route is reported by the tick that first sees it.
Failover == data # NoData /\ active' # active

-----------------------------------------------------------------------------
(***************************************************************************)
(* The accumulating entities.                                              *)
(***************************************************************************)
\* A change that would break the code: a payload that is not fresh is
\* believed.
SettledUnchecked(success, d) ==
    success /\ d.booted

\* _router_settled: the tick was read in full and the boot is over.
Settled(success, d) ==
    success /\ d.fresh /\ d.booted

\* _internet_down: no WAN has internet access.  A router without a WAN list
\* is judged by its default route.
InternetDown(d) ==
    IF Present(d.wans) # {} THEN \A w \in Present(d.wans) : ~d.wans[w].access
    ELSE ActiveWan(d.wans) = NoWan

\* _provider_down: the link is lost or carries no internet; a WAN switched off
\* on purpose is not an outage.
LinkUp(i) == i.up /\ i.link

\* A change that would break the code: a provider is down only if its link is.
ProviderDownByLink(e) == Enabled(e.iface) /\ ~LinkUp(e.iface)

ProviderDown(e) == Enabled(e.iface) /\ (~LinkUp(e.iface) \/ ~e.access)

\* What a clock is told by an update: down, up, or that nobody knows.
Told(c, success, d) ==
    IF ~Settled(success, d) THEN "unknown"
    ELSE IF c = Internet THEN IF InternetDown(d) THEN "down" ELSE "up"
    ELSE IF d.wans[c] = Absent THEN "unknown"
    ELSE IF ProviderDown(d.wans[c]) THEN "down" ELSE "up"

\* A change that would break the code: the two times are swapped.
AccruedSwapped(k, told, t) ==
    IF told = "unknown" THEN [k EXCEPT !.since = Stopped]
    ELSE [k EXCEPT !.secs  = IF k.since = Stopped THEN @
                             ELSE @ + (k.since - t),
                   !.since = IF told = "down" THEN t ELSE Stopped]

\* _accrue.
Accrued(k, told, t) ==
    IF told = "unknown" THEN [k EXCEPT !.since = Stopped]
    ELSE [k EXCEPT !.secs  = IF k.since = Stopped THEN @
                             ELSE @ + (t - k.since),
                   !.since = IF told = "down" THEN t ELSE Stopped]

Whole(t) == t \div Second

\* A change that would break the code: the exact total at the end of an outage
\* is not published.
DueByStep(k) == Whole(k.secs) - k.pub >= PublishStep

\* _settle_published: every PublishStep seconds, and exactly at the end.
Due(k) == /\ Whole(k.secs) # k.pub
          /\ \/ k.since = Stopped
             \/ Whole(k.secs) - k.pub >= PublishStep

Published(k) == IF Due(k) THEN [k EXCEPT !.pub = Whole(k.secs)] ELSE k

NoPrint == [wan |-> Absent]

\* _entity_fingerprint of a provider's payload.
Fingerprint(d, w) == IF d.wans[w] = Absent THEN NoPrint
                     ELSE [wan |-> d.wans[w], role |-> Role(d.wans, w)]

KeyOf(d, w, success) == [print |-> Fingerprint(d, w), available |-> success]

\* What the clocks do with an update; t is its time.
ClocksHear(success, d, t) ==
    clock' = [c \in Clock |->
                 IF c \in known \cup {Internet}
                 THEN Published(Accrued(clock[c], Told(c, success, d), t))
                 ELSE clock[c]]

\* A provider's _handle_coordinator_update: a total that moved is written at
\* once; anything else only if the payload or the availability differs from
\* the last one compared.
Moved(w) == clock'[w].pub # clock[w].pub

PrintKept(d, w, success) ==
    IF w \in known /\ ~Moved(w) THEN KeyOf(d, w, success) ELSE seen[w]

Writes(d, w) == Moved(w) \/ Fingerprint(d, w) = NoPrint \/ seen'[w] # seen[w]

ProvidersWrite(success, d) ==
    /\ seen' = [w \in Wan |-> PrintKept(d, w, success)]
    /\ shown' = [w \in Wan |->
                    IF w \in known
                    THEN IF ~Writes(d, w) THEN shown[w]
                         ELSE IF success THEN clock'[w].pub ELSE Hidden
                    ELSE IF w \in Present(d.wans) THEN clock'[w].pub
                    ELSE shown[w]]

Listeners(success, d, t) == ClocksHear(success, d, t) /\ ProvidersWrite(success, d)

\* A change that would break the code: the flag is trusted on failed updates
\* too.
CountedOnEveryUpdate(success, carried) == count + (IF carried THEN 1 ELSE 0)

\* The failover counter trusts the payload's flag on successful updates only.
Counted(success, carried) == count + (IF success /\ carried THEN 1 ELSE 0)

\* History: what an update tells about the uplink of a clock that hears it.
\* With the ping check swallowed nobody knows whether a link that is up
\* reaches the internet.
GoodReading(reads, d) ==
    Complete(reads) /\ d.booted

Reaches(some, reads) ==
    IF reads.ping = "swallowed" THEN "guessed" ELSE IF some THEN "up" ELSE "down"

Observed(c, reads, d) ==
    IF ~GoodReading(reads, d) \/ c \notin known \cup {Internet} THEN "nothing"
    ELSE IF c = Internet
         THEN IF Present(d.wans) = {} THEN "down"
              ELSE Reaches(\E w \in Present(d.wans) : d.wans[w].access, reads)
    ELSE IF c \notin Present(d.wans) THEN "nothing"
    ELSE IF d.wans[c].iface.disabled THEN "up"
    ELSE IF ~LinkUp(d.wans[c].iface) THEN "down"
    ELSE Reaches(d.wans[c].access, reads)

\* The time since the last update is owed for an uplink that was read as down
\* then and is read now; it is in doubt if one of the two was a guess.
Owing(c) == observed[c] = "down" /\ observed'[c] \in {"up", "down"}

Doubtful(c) == \/ observed[c] = "guessed" /\ observed'[c] # "nothing"
               \/ observed[c] = "down" /\ observed'[c] = "guessed"

Record(t) ==
    /\ lastAt' = t
    /\ owed' = [c \in Clock |-> owed[c] + (IF Owing(c) THEN t - lastAt ELSE 0)]
    /\ doubt' = [c \in Clock |-> doubt[c] + (IF Doubtful(c) THEN t - lastAt ELSE 0)]

-----------------------------------------------------------------------------
(***************************************************************************)
(* The router and the clock between two ticks: dt passes, and the router   *)
(* may reboot.                                                             *)
(***************************************************************************)
Capped(n) == IF n > BootGrace THEN BootGrace ELSE n

Elapse(dt) ==
    /\ now + dt <= MaxTime
    /\ now' = now + dt
    /\ uptime' \in {Capped(uptime + dt)} \cup 0 .. Capped(dt - 1)

\* Whether the uptime a tick reads is past the boot; an unreadable one counts
\* as past it.
PastBoot == {TRUE, uptime' >= BootGrace}

AnyReport == {r \in [Wan -> UNION {Reports[w] : w \in Wan}] :
                 \A w \in Wan : r[w] \in Reports[w]}

NewClock == [secs |-> 0, since |-> Stopped, pub |-> 0]
NoSeen   == [print |-> NoPrint, available |-> FALSE]

Init ==
    /\ now = 0
    /\ uptime \in {0, BootGrace}
    /\ ha = FALSE
    /\ ok = FALSE
    /\ data = NoData
    /\ active = NoWan
    /\ failover = FALSE
    /\ known = {}
    /\ clock = [c \in Clock |-> NewClock]
    /\ count = 0
    /\ shown = [w \in Wan |-> Hidden]
    /\ seen = [w \in Wan |-> NoSeen]
    /\ saved = [secs |-> [c \in Clock |-> 0], count |-> 0, owed |-> [c \in Clock |-> 0],
                doubt |-> [c \in Clock |-> 0], switches |-> 0]
    /\ observed = [c \in Clock |-> "nothing"]
    /\ lastAt = 0
    /\ owed = [c \in Clock |-> 0]
    /\ doubt = [c \in Clock |-> 0]
    /\ switches = 0

\* A clock whose entity is added: _async_restore_seconds.
Restored(secs) == [secs |-> secs, since |-> Stopped, pub |-> Whole(secs)]

\* The entry is set up: the first refresh must succeed and has nothing to
\* keep; then the entities are added and restored, before their first update.
Start(dt) ==
    /\ ~ha
    /\ Elapse(dt)
    /\ \E report \in AnyReport, ping \in {"answered", "swallowed", "raised"},
          booted \in PastBoot :
         data' = NextPayload([system |-> "read", interfaces |-> "read", ping |-> ping],
                             report, now', booted)
    /\ active' = ActiveWan(data'.wans)
    /\ failover' = Failover
    /\ ha' = TRUE
    /\ ok' = TRUE
    /\ known' = Present(data'.wans)
    /\ clock' = [c \in Clock |-> Restored(saved.secs[c])]
    /\ count' = saved.count
    /\ shown' = [w \in Wan |-> IF w \in known' THEN clock'[w].pub ELSE Hidden]
    /\ seen' = [w \in Wan |-> NoSeen]
    /\ observed' = [c \in Clock |-> "nothing"]
    /\ lastAt' = now'
    /\ owed' = saved.owed
    /\ doubt' = saved.doubt
    /\ switches' = saved.switches
    /\ UNCHANGED saved

\* A tick that publishes.  Entities of a WAN seen for the first time are added
\* after the others have handled the update.
Tick(dt) ==
    /\ ha
    /\ Elapse(dt)
    /\ \E reads \in Reads, report \in AnyReport, booted \in PastBoot :
         /\ data' = NextPayload(reads, report, now', booted)
         /\ observed' = [c \in Clock |-> Observed(c, reads, data')]
    /\ active' = ActiveWan(data'.wans)
    /\ failover' = Failover
    /\ ok' = TRUE
    /\ Listeners(TRUE, data', now')
    /\ count' = Counted(TRUE, failover')
    /\ known' = Added(data'.wans)
    /\ Record(now')
    /\ switches' = switches + (IF active' # active THEN 1 ELSE 0)
    /\ UNCHANGED <<ha, saved>>

\* A tick that raises keeps the payload.  Home Assistant calls the entities on
\* the first failure only.
TickFails(dt) ==
    /\ ha
    /\ Elapse(dt)
    /\ ok' = FALSE
    /\ observed' = [c \in Clock |-> "nothing"]
    /\ IF ok THEN /\ Listeners(FALSE, data, now')
                  /\ count' = Counted(FALSE, failover)
                  /\ Record(now')
       ELSE UNCHANGED <<clock, shown, seen, count, lastAt, owed, doubt>>
    /\ UNCHANGED <<ha, payload, known, saved, switches>>

\* Home Assistant stores its entities' totals: now and then, and when the
\* entry is unloaded.  Totals of entities that do not exist stay as they were.
Stored ==
    [secs     |-> [c \in Clock |-> IF c \in known \cup {Internet} THEN clock[c].secs
                                  ELSE saved.secs[c]],
     count    |-> count,
     owed     |-> owed,
     doubt    |-> doubt,
     switches |-> switches]

Dump ==
    /\ ha
    /\ saved' = Stored
    /\ saved' # saved
    /\ UNCHANGED <<world, ha, ok, payload, entities, history>>

Unloaded ==
    /\ ha' = FALSE
    /\ ok' = FALSE
    /\ data' = NoData
    /\ active' = NoWan
    /\ failover' = FALSE
    /\ known' = {}
    /\ observed' = [c \in Clock |-> "nothing"]
    /\ shown' = [w \in Wan |-> Hidden]
    /\ seen' = [w \in Wan |-> NoSeen]

\* A reload or a clean shutdown.
Stop ==
    /\ ha
    /\ saved' = Stored
    /\ Unloaded
    /\ UNCHANGED <<world, clock, count, lastAt, owed, doubt, switches>>

\* Home Assistant dies: what was billed since the last dump is lost.
Crash ==
    /\ ha
    /\ Unloaded
    /\ UNCHANGED <<world, clock, count, saved, lastAt, owed, doubt, switches>>

Next ==
    \/ \E dt \in 0 .. MaxStep : Start(dt)
    \/ \E dt \in 1 .. MaxStep : Tick(dt) \/ TickFails(dt)
    \/ Dump
    \/ Stop
    \/ Crash

Spec == Init /\ [][Next]_vars
-----------------------------------------------------------------------------
(***************************************************************************)
(* What the uplink sensors promise.                                        *)
(***************************************************************************)
ClockState == [secs : Nat, since : {Stopped} \cup Nat, pub : Nat]

SavedState == [secs : [Clock -> Nat], count : Nat, owed : [Clock -> Nat],
               doubt : [Clock -> Nat], switches : Nat]

SeenState == [print : {NoPrint} \cup [wan : WanEntry, role : Nat],
              available : BOOLEAN]

TypeOK ==
    /\ now \in 0 .. MaxTime
    /\ uptime \in 0 .. BootGrace
    /\ ha \in BOOLEAN
    /\ ok \in BOOLEAN
    /\ data \in Payload \cup {NoData}
    /\ active \in Wan \cup {NoWan}
    /\ failover \in BOOLEAN
    /\ known \subseteq Wan
    /\ clock \in [Clock -> ClockState]
    /\ count \in Nat
    /\ shown \in [Wan -> {Hidden} \cup Nat]
    /\ seen \in [Wan -> SeenState]
    /\ saved \in SavedState
    /\ observed \in [Clock -> {"nothing", "guessed", "up", "down"}]
    /\ lastAt \in 0 .. now
    /\ owed \in [Clock -> Nat]
    /\ doubt \in [Clock -> Nat]
    /\ switches \in Nat

\* The downtime totals are exact: a clock has counted the time between two
\* consecutive readings of a settled router of which the first found its uplink
\* down, and nothing else - no time across a poll that failed, was answered
\* from the previous snapshot, or fell into the router's boot - and a reload or
\* a restart loses none of it, whole seconds or not.  One thing is excepted: a
\* ping check whose error was swallowed counts as an answer without a check
\* (wan.py), so the time beside such a poll may be counted or not.
ExactAccounting ==
    ha => \A c \in Clock : clock[c].secs - owed[c] \in 0 .. doubt[c]

\* The two kinds of downtime agree: while the router counts as without
\* internet, the clock of every provider that is present and switched on runs
\* too, from the same instant, so the providers explain the outage.
OutageExplained ==
    (ha /\ clock[Internet].since # Stopped) =>
        \A w \in Present(data.wans) :
            (Enabled(data.wans[w].iface) /\ observed[w] # "nothing")
                => clock[w].since = clock[Internet].since

\* A total on display is the published one, exact as soon as no outage runs and
\* less than a publication step behind while one does.
PublishedExact ==
    ha => \A c \in known \cup {Internet} :
        /\ c \in Wan => shown[c] \in {Hidden, clock[c].pub}
        /\ clock[c].since = Stopped => clock[c].pub = Whole(clock[c].secs)
        /\ Whole(clock[c].secs) - clock[c].pub \in 0 .. PublishStep - 1

\* The failover counter counts each change of the published default route
\* once, although the payload that carries it is also seen by the update of a
\* failed poll.
FailoverCounted == ha => count = switches

=============================================================================
