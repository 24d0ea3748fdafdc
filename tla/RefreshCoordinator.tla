------------------------- MODULE RefreshCoordinator -------------------------
(***************************************************************************)
(* One config entry's KeeneticCoordinator (coordinator.py with             *)
(* coordinator_parts/refresh.py and coordinator_parts/fetching.py): the    *)
(* poll tick, its tiers, what a failed read does to the published          *)
(* snapshot, and the one-shot requests the write entities arm.             *)
(*                                                                         *)
(* The router's configuration is abstracted to a generation number `gen`   *)
(* that grows with every command; a read returns the generation it saw.    *)
(* A source is one fetch of a tick ("mesh_nodes", "system_info", ...).     *)
(***************************************************************************)
EXTENDS Naturals, FiniteSets

CONSTANTS
    Source,        \* the fetches of a tick
    Critical,      \* the two that must succeed: CRITICAL_FETCH_NAMES
    Stage2,        \* fetches that need stage 1's `interfaces`
    Tracked,       \* fetches with a published "<name>_fresh" flag
    Volatile,      \* fetches whose failure publishes an empty default
    HostPolicies,  \* what request_host_policies_refresh forces
    UpdateCheck,   \* what request_update_check forces
    Kind,          \* the kinds of one-shot request in play
    Every,         \* Every[s]: the tier of s, in ticks
    CycleTicks,    \* a common multiple of all tiers: the count's period
    CritGrace,     \* CRITICAL_FETCH_GRACE_TICKS
    OptGrace,      \* OPTIONAL_FETCH_GRACE_ATTEMPTS
    MaxGen,        \* bound: router commands
    MaxToken       \* bound: requests of one kind in a coordinator's life

ASSUME SourceAssumption ==
    /\ Critical \subseteq Source
    /\ Stage2 \subseteq Source \ Critical
    /\ Tracked \subseteq Source \ Critical
    /\ Volatile \subseteq Source \ (Critical \cup Tracked)
    /\ HostPolicies \subseteq Source \ UpdateCheck
    /\ UpdateCheck \subseteq Source \ (Critical \cup Tracked)

ASSUME KindAssumption == Kind \subseteq {"full", "hostPolicies", "updateCheck"}

ASSUME TierAssumption ==
    /\ CycleTicks \in Nat \ {0}
    /\ Every \in [Source -> Nat \ {0}]
    /\ \A c \in Critical : Every[c] = 1
    /\ \A s \in Source : CycleTicks % Every[s] = 0

ASSUME BoundAssumption ==
    /\ CritGrace \in Nat
    /\ OptGrace \in Nat
    /\ MaxGen \in Nat
    /\ MaxToken \in Nat

(***************************************************************************)
(* The three one-shot requests, and the sources each forces into the next  *)
(* tick's plan.  A full refresh leaves the stateful update check alone.    *)
(***************************************************************************)
Covers == [k \in Kind |-> CASE k = "full"         -> Source \ UpdateCheck
                            [] k = "hostPolicies" -> HostPolicies
                            [] k = "updateCheck"  -> UpdateCheck]

FastInterval == 60
SlowInterval == 120

VARIABLES
    \* the published snapshot (`data`)
    published,     \* data is not None
    value,         \* value[s]: generation of the published reading of s
    blank,         \* sources published as an empty default
    fresh,         \* the tracked sources with data["<s>_fresh"] true
    \* bookkeeping across ticks
    streak,        \* _source_failure_streaks, saturated at OptGrace + 1
    refreshCount,  \* _refresh_count modulo CycleTicks
    critStreak,    \* _critical_fail_streak, saturated at CritGrace + 1
    backoffCount,  \* _critical_fail_backoff_count, saturated at 2
    interval,      \* update_interval in seconds
    lastSuccess,   \* last_update_success
    scheduled,     \* a tick waits on the timer, the debouncer or the lock
    pending,       \* the kinds of one-shot request that are armed
    token,         \* token[k]: bumped by every request
    \* the tick in flight
    phase,         \* "idle", "stage1", "stage2"
    plan,          \* the sources this tick reads live
    snap,          \* snap[k]: the flag and token seen when the tick began
    outcome,       \* outcome[s]: how the read of s ended in this tick
    readAt,        \* readAt[s]: the generation that read saw
    \* the router and history
    gen,           \* generation of the router's configuration
    asked,         \* asked[k]: generation when k was last requested
    triedAt        \* generation of the last read of s in a published tick

snapshot == <<published, value, blank, fresh>>
books    == <<streak, refreshCount, critStreak, backoffCount, interval,
              lastSuccess>>
requests == <<pending, token>>
tick     == <<phase, plan, snap, outcome, readAt>>
vars     == <<snapshot, books, scheduled, requests, tick, gen, asked,
              triedAt>>

Outcome == {"none", "ok", "failed", "denied", "empty"}

SnapshotType ==
    /\ published \in BOOLEAN
    /\ value \in [Source -> 0 .. MaxGen]
    /\ blank \subseteq Source
    /\ fresh \subseteq Tracked

BooksType ==
    /\ streak \in [Tracked -> 0 .. OptGrace + 1]
    /\ refreshCount \in 0 .. CycleTicks - 1
    /\ critStreak \in 0 .. CritGrace + 1
    /\ backoffCount \in 0 .. 2
    /\ interval \in {FastInterval, SlowInterval}
    /\ lastSuccess \in BOOLEAN

RequestsType ==
    /\ pending \subseteq Kind
    /\ token \in [Kind -> 0 .. MaxToken]

TickType ==
    /\ phase \in {"idle", "stage1", "stage2"}
    /\ plan \subseteq Source
    /\ snap \in [Kind -> [armed : BOOLEAN, token : 0 .. MaxToken]]
    /\ outcome \in [Source -> Outcome]
    /\ readAt \in [Source -> 0 .. MaxGen]

HistoryType ==
    /\ scheduled \in BOOLEAN
    /\ gen \in 0 .. MaxGen
    /\ asked \in [Kind -> 0 .. MaxGen]
    /\ triedAt \in [Source -> 0 .. MaxGen]

TypeOK ==
    /\ SnapshotType
    /\ BooksType
    /\ RequestsType
    /\ TickType
    /\ HistoryType

-----------------------------------------------------------------------------
(***************************************************************************)
(* A new coordinator object, as its constructor leaves it: nothing is      *)
(* published, no request is armed and the first tick reads everything.     *)
(***************************************************************************)
NewCoordinator ==
    /\ published' = FALSE
    /\ value' = [s \in Source |-> 0]
    /\ blank' = Source
    /\ fresh' = Tracked
    /\ streak' = [s \in Tracked |-> 0]
    /\ refreshCount' = 0
    /\ critStreak' = 0
    /\ backoffCount' = 0
    /\ interval' = FastInterval
    /\ lastSuccess' = TRUE
    /\ pending' = {}
    /\ token' = [k \in Kind |-> 0]
    /\ triedAt' = [s \in Source |-> 0]

NoTick ==
    /\ phase' = "idle"
    /\ plan' = {}
    /\ snap' = [k \in Kind |-> [armed |-> FALSE, token |-> 0]]
    /\ outcome' = [s \in Source |-> "none"]
    /\ readAt' = [s \in Source |-> 0]

Init ==
    /\ published = FALSE
    /\ value = [s \in Source |-> 0]
    /\ blank = Source
    /\ fresh = Tracked
    /\ streak = [s \in Tracked |-> 0]
    /\ refreshCount = 0
    /\ critStreak = 0
    /\ backoffCount = 0
    /\ interval = FastInterval
    /\ lastSuccess = TRUE
    /\ scheduled = TRUE
    /\ pending = {}
    /\ token = [k \in Kind |-> 0]
    /\ phase = "idle"
    /\ plan = {}
    /\ snap = [k \in Kind |-> [armed |-> FALSE, token |-> 0]]
    /\ outcome = [s \in Source |-> "none"]
    /\ readAt = [s \in Source |-> 0]
    /\ gen = 0
    /\ asked = [k \in Kind |-> 0]
    /\ triedAt = [s \in Source |-> 0]

-----------------------------------------------------------------------------
(***************************************************************************)
(* The router and the write entities.                                      *)
(***************************************************************************)
\* A command is applied: the configuration moves to a new generation.
Command ==
    /\ gen < MaxGen
    /\ gen' = gen + 1
    /\ UNCHANGED <<snapshot, books, scheduled, requests, tick, asked,
                   triedAt>>

\* One of the three request methods, called by an entity after its command
\* and followed by Home Assistant's debounced refresh.  While a tick runs the
\* debouncer may drop that refresh ("a call is in progress").
Request(k) ==
    /\ published
    /\ token[k] < MaxToken
    /\ pending' = pending \cup {k}
    /\ token' = [token EXCEPT ![k] = @ + 1]
    /\ asked' = [asked EXCEPT ![k] = gen]
    /\ scheduled' \in IF phase = "idle" THEN {TRUE} ELSE {TRUE, scheduled}
    /\ UNCHANGED <<snapshot, books, tick, gen, triedAt>>

-----------------------------------------------------------------------------
(***************************************************************************)
(* The tick.                                                               *)
(***************************************************************************)
\* refresh_plan: everything on the first refresh, else the tier's turn.
Due(s) == ~published \/ refreshCount % Every[s] = 0

Forced(s) == \E k \in pending : s \in Covers[k]

\* The plan and the request tokens are read once, when the tick begins.
TickBegin ==
    /\ phase = "idle"
    /\ scheduled
    /\ scheduled' = FALSE
    /\ phase' = "stage1"
    /\ plan' = {s \in Source : Due(s) \/ Forced(s)}
    /\ snap' = [k \in Kind |-> [armed |-> k \in pending, token |-> token[k]]]
    /\ outcome' = [s \in Source |-> "none"]
    /\ readAt' = [s \in Source |-> 0]
    /\ UNCHANGED <<snapshot, books, requests, gen, asked, triedAt>>

\* The sources of the stage the tick is in.
Reading == {s \in plan : (phase = "stage1" /\ s \notin Stage2)
                         \/ (phase = "stage2" /\ s \in Stage2)}

StageDone == \A s \in Reading : outcome[s] # "none"

\* A read ends.  Reads of a stage run concurrently and end in any order; any of
\* them may fail.  Rejected credentials and an HTTP 200 with an empty payload
\* matter for the critical sources alone.
Read(s) ==
    /\ s \in Reading
    /\ outcome[s] = "none"
    /\ \E o \in {"ok", "failed"} \cup (IF s \in Critical
                                      THEN {"denied", "empty"} ELSE {}) :
         outcome' = [outcome EXCEPT ![s] = o]
    /\ readAt' = [readAt EXCEPT ![s] = gen]
    /\ UNCHANGED <<snapshot, books, scheduled, requests, phase, plan, snap,
                   gen, asked, triedAt>>

\* _source_is_fresh for the tracked sources of a stage that were attempted.
NextStreak(stage) ==
    [s \in Tracked |->
        IF s \notin stage \/ s \notin plan THEN streak[s]
        ELSE IF outcome[s] = "ok" THEN 0
        ELSE IF streak[s] <= OptGrace THEN streak[s] + 1
        ELSE streak[s]]

FailedCritical == {c \in Critical : outcome[c] \in {"failed", "denied"}}
DeniedCritical == {c \in Critical : outcome[c] = "denied"}
EmptyCritical  == {c \in Critical : outcome[c] = "empty"}

\* A change that would break the code: one failure too many is tolerated.
DecisionOffByOne ==
    IF FailedCritical = {} THEN "ok"
    ELSE IF DeniedCritical # {} THEN "auth"
    ELSE IF published /\ critStreak <= CritGrace THEN "tolerate"
    ELSE "fail"

\* evaluate_critical_failures.
Decision ==
    IF FailedCritical = {} THEN "ok"
    ELSE IF DeniedCritical # {} THEN "auth"
    ELSE IF published /\ critStreak < CritGrace THEN "tolerate"
    ELSE "fail"

NextCritStreak ==
    IF Decision = "ok" THEN 0
    ELSE IF Decision = "auth" \/ critStreak > CritGrace THEN critStreak
    ELSE critStreak + 1

\* next_backoff_interval.
BackoffInterval(n) == IF n <= 1 THEN FastInterval ELSE SlowInterval

\* A change that would break the code: a tick that raises counts towards the
\* tiers.
RaiseAndCount ==
    IF published
    THEN /\ streak' = NextStreak(Source \ Stage2)
         /\ critStreak' = NextCritStreak
         /\ lastSuccess' = FALSE
         /\ refreshCount' = (refreshCount + 1) % CycleTicks
         /\ UNCHANGED <<snapshot, requests, triedAt>>
    ELSE NewCoordinator

\* A tick that raises keeps the old snapshot and every armed request.  The
\* first tick has nothing to keep: setup fails and Home Assistant discards
\* the coordinator.
Raise ==
    IF published
    THEN /\ streak' = NextStreak(Source \ Stage2)
         /\ critStreak' = NextCritStreak
         /\ lastSuccess' = FALSE
         /\ UNCHANGED <<snapshot, refreshCount, requests, triedAt>>
    ELSE NewCoordinator

Stage1Over == phase = "stage1" /\ StageDone

\* Rejected credentials: ConfigEntryAuthFailed.  Home Assistant starts a
\* reauthentication flow and does not schedule another poll.
RaiseAuth ==
    /\ Stage1Over
    /\ Decision = "auth"
    /\ Raise
    /\ published => UNCHANGED <<backoffCount, interval>>
    /\ NoTick
    /\ UNCHANGED <<scheduled, gen, asked>>

\* A sustained outage: UpdateFailed, and the next poll is stretched.
RaiseOutage ==
    /\ Stage1Over
    /\ Decision = "fail"
    /\ Raise
    /\ published => /\ backoffCount' = IF backoffCount < 2
                                       THEN backoffCount + 1
                                       ELSE 2
                    /\ interval' = BackoffInterval(backoffCount')
    /\ NoTick
    /\ scheduled' = TRUE
    /\ UNCHANGED <<gen, asked>>

\* A critical payload came back empty: UpdateFailed, without the stretch.
RaiseEmpty ==
    /\ Stage1Over
    /\ Decision \in {"ok", "tolerate"}
    /\ EmptyCritical # {}
    /\ Raise
    /\ published => UNCHANGED <<backoffCount, interval>>
    /\ NoTick
    /\ scheduled' = TRUE
    /\ UNCHANGED <<gen, asked>>

\* The tick goes on to the fetches that need `interfaces`.
BeginStage2 ==
    /\ Stage1Over
    /\ Decision \in {"ok", "tolerate"}
    /\ EmptyCritical = {}
    /\ streak' = NextStreak(Source \ Stage2)
    /\ critStreak' = NextCritStreak
    /\ phase' = "stage2"
    /\ UNCHANGED <<snapshot, refreshCount, backoffCount, interval, lastSuccess,
                   scheduled, requests, plan, snap, outcome, readAt, gen,
                   asked, triedAt>>

ReadOk   == {s \in plan : outcome[s] = "ok"}
ReadLost == {s \in plan : outcome[s] # "ok"}

\* A change that would break the code: the token is not compared.
ConsumedByAnyTick(k) == snap[k].armed

\* A change that would break the code: the comparison of the tokens is
\* inverted.
ConsumedWhenOutrun(k) == snap[k].armed /\ token[k] # snap[k].token

\* A one-shot request is consumed unless a newer one arrived during the tick.
Consumed(k) == snap[k].armed /\ token[k] = snap[k].token

\* A change that would break the code: the slow interval is not taken back.
KeptInterval == interval

\* The end of an outage restores the fast poll.
RestoredInterval == IF backoffCount = 0 THEN interval ELSE FastInterval

\* The new snapshot replaces the old one: live readings where there are any,
\* the previous snapshot (or an empty default) elsewhere.
Publish ==
    /\ phase = "stage2"
    /\ StageDone
    /\ LET s2 == NextStreak(Stage2) IN
         /\ streak' = s2
         /\ fresh' = {s \in Tracked :
                        IF s \notin plan THEN s \in fresh
                        ELSE \/ outcome[s] = "ok"
                             \/ published /\ s2[s] <= OptGrace}
    /\ published' = TRUE
    /\ value' = [s \in Source |-> IF s \in ReadOk THEN readAt[s] ELSE value[s]]
    /\ blank' = (blank \ ReadOk) \cup (Volatile \cap ReadLost)
    /\ triedAt' = [s \in Source |-> IF s \in plan THEN readAt[s]
                                    ELSE triedAt[s]]
    /\ pending' = {k \in pending : ~Consumed(k)}
    /\ backoffCount' = 0
    /\ interval' = RestoredInterval
    /\ refreshCount' = (refreshCount + 1) % CycleTicks
    /\ lastSuccess' = TRUE
    /\ scheduled' = TRUE
    /\ NoTick
    /\ UNCHANGED <<critStreak, token, gen, asked>>

\* The entry is reloaded (options changed, reauthentication finished, Home
\* Assistant restarted): a new coordinator, whose first tick follows.
Reload ==
    /\ NewCoordinator
    /\ NoTick
    /\ scheduled' = TRUE
    /\ UNCHANGED <<gen, asked>>

-----------------------------------------------------------------------------
TickStep ==
    \/ TickBegin
    \/ \E s \in Source : Read(s)
    \/ RaiseAuth
    \/ RaiseOutage
    \/ RaiseEmpty
    \/ BeginStage2
    \/ Publish

Next ==
    \/ Command
    \/ \E k \in Kind : Request(k)
    \/ TickStep
    \/ Reload

Spec == Init /\ [][Next]_vars

\* Every await of a tick is bounded by a request timeout and Home Assistant
\* keeps its timers: a tick that can take a step takes one.  Nothing is
\* assumed of the users, of the router or of a reload.
FairSpec == Spec /\ WF_vars(TickStep)
-----------------------------------------------------------------------------
(***************************************************************************)
(* What the coordinator promises.                                          *)
(***************************************************************************)
\* No request is lost: once a request's flag is down, everything it covers
\* was read, for a published snapshot, after the request was made - also when
\* it arrived during a tick, when ticks in between raised, and across reloads.
RequestsHonoured ==
    published => \A k \in Kind \ pending :
                     \A s \in Covers[k] : triedAt[s] >= asked[k]

\* The requests implement the mailbox of RequestMailbox: a tick takes up what is
\* armed when it begins, a tick that raises leaves it armed, and a request that
\* is repeated while a tick runs is not consumed by that tick.
Waiting == {k \in pending : \/ phase = "idle"
                            \/ ~snap[k].armed
                            \/ token[k] # snap[k].token}
Taken   == {k \in Kind : phase # "idle" /\ snap[k].armed}

Mailbox == INSTANCE RequestMailbox
               WITH open <- published, waiting <- Waiting, taken <- Taken

MailboxSpec == Mailbox!Spec

\* Between ticks of a healthy entry, a tracked source that was ever read is
\* published as fresh exactly while its failures fit the grace window.  Ticks
\* that raise advance the failure counts without publishing the flag, so the
\* two must meet again on the next published tick.
FreshnessSound ==
    (published /\ lastSuccess /\ phase = "idle") =>
        \A s \in Tracked \ blank : s \in fresh <=> streak[s] <= OptGrace

\* Entities are available only within the grace window of a critical failure,
\* and an entry that is available is polled at the fast interval.
OutageSound ==
    /\ lastSuccess => critStreak <= CritGrace /\ backoffCount = 0
    /\ interval = SlowInterval => backoffCount = 2

\* No poll is queued and none is running: Home Assistant waits for the user
\* to reauthenticate.
Parked == phase = "idle" /\ ~scheduled

\* The router has answered every read of the tick so far.
Healthy == \A s \in Source : outcome[s] \in {"none", "ok"}

\* A request is eventually answered if the router stays healthy and polling
\* goes on.
RequestsServed ==
    <>[](Healthy /\ ~Parked) =>
        \A k \in Kind : k \in pending ~> k \notin pending

\* If the router stays healthy, polling goes on and the entry is not reloaded,
\* everything published settles on the router's state and stays there: no tier
\* is starved, no default and no stale flag outlives an outage, and the poll
\* interval is the fast one again.
Settled ==
    /\ lastSuccess
    /\ interval = FastInterval
    /\ blank = {}
    /\ fresh = Tracked
    /\ \A s \in Source : value[s] = gen

Converges == <>[](Healthy /\ published /\ ~Parked) => <>[]Settled

=============================================================================
