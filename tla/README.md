# Keenetic Router Pro: a TLA+ verification project

Keenetic Router Pro is a Home Assistant integration: it polls a Keenetic router
over its RCI HTTP interface, publishes one snapshot per poll, and turns user
actions into router commands. This directory holds TLA+ models of the parts
whose correctness depends on ordering, failure and time, the TLC configurations
that check them, and TLAPS proofs. Paths below are relative to
`src/custom_components/keenetic_router_pro/`.

## The system

| Part | State it keeps | Operations | Hard behaviour |
|---|---|---|---|
| Refresh coordinator (`coordinator.py`, `coordinator_parts/refresh.py`, `fetching.py`) | published snapshot, failure streaks, refresh count, poll interval, three armed one-shot requests with tokens | a tick (stage 1, decision, stage 2, publish or raise), three request methods | requests that arrive during a tick; ticks that raise half-way; grace windows; starving of a tier |
| API session (`api/auth.py`, `api/transport.py`) | header, authenticated flag, lock, scheme | request, 401 and retry, handshake, fallback to the other scheme | up to four concurrent calls on one session; timeouts at every await |
| Client tables and events (`api/domains/clients.py`, `coordinator_parts/payloads.py`, `derived.py`, `__init__.py`) | two latches of the API client, previous index, online set | read with fallback, neighbour merge, diff, listener | 404 while booting against timeouts; stale lists; events fired twice |
| Capability latches (`api/domains/system.py`, `api/transport.py`) | one flag per optional endpoint, last uptime, last firmware | latch on 404, reset after a boot or an update | a latch taken while the router boots |
| OOM counter (`coordinator_parts/oom.py`, `coordinator.py`) | record in memory, record in storage, save backoff | load, advance, save | events without identity, windows that overlap, clock, restart |
| RCI tick cache and batch (`api/transport.py`) | prefetched tree of a tick, batch latch | prefetch, lookup, clear | a write that runs while a tick holds the cache |
| WAN, failover, downtime (`api/domains/wan.py`, `coordinator_parts/enrichment.py`, `sensor/network.py`) | active WAN, failover counter, outage start | rank, diff, clock | polls that fail during the outage, reboots |
| Mesh (`api/domains/mesh.py`, `sensor/mesh.py`) | "members seen", node list | fallback over endpoints | identity of a node between endpoints |
| Firmware (`update.py`, `api/domains/system.py`) | install in progress, node sessions | install, wait for reboot, progress | long sequences of awaits, reboots, retries |
| Write entities (`switch.py`, `select.py`, `number.py`, `button.py`, `entity.py`) | optimistic value, cool-downs | command, request a refresh | a refresh already in flight when the command is sent |
| Setup and flows (`__init__.py`, `config_flow.py`, `entity_setup.py`) | config entry, registries | setup, reload, unload, reauth, migration | a reload while a tick is in flight |
| Read-only entities, parsing, diagnostics | none | projections of the snapshot | none of their own |

The coordinator's tick is the hub: it awaits API calls (which share the session,
the latches and the tick cache), merges what they return with the previous
snapshot, feeds the OOM counter, computes the client and WAN diffs, and hands
the snapshot to entities and to the listener that fires events. Entities act on
the router through the same API client and arm a one-shot request so that the
next tick reads what they changed.

What would make each part correct: a request is never lost and freshness and
availability are honest (coordinator); only a real rejection asks for the
password (session); events and trackers agree, and departures are real
(clients); no event is lost or counted twice (OOM counter); a confirmed write is
shown (write entities); an outage lasts as long as the provider was seen down
(WAN); identifiers are stable (mesh); an install ends once, with the truth
(firmware); the registries hold what the stored entry stands for, and no dialog
undoes another (setup and flows). `PROJECT.json` lists every component with its status and every
hazard with the properties that cover it.

## Modules

| Module | Models | Checked by | Proved in |
|---|---|---|---|
| RequestMailbox | what the coordinator promises to a request (abstract) | RefreshTick, as `MailboxSpec` | RefreshCoordinatorProofs |
| RefreshCoordinator | the tick, its stages, failures and requests | RefreshTick, RefreshLiveness | RefreshCoordinatorProofs |
| ClientPresence | client tables, diff, events, trackers | Presence | ClientProofs |
| OomCounter | the persistent event counter | OomCount | OomCounterProofs |
| AuthSession | concurrent calls on one session | AuthSession | AuthSessionProofs |
| WanHealth | reachability, active WAN, downtime, failovers | WanHealth | WanHealthProofs |
| FirmwareInstall | installs on controller and mesh nodes | FirmwareInstall | FirmwareInstallProofs |
| EntityWrites | select, number and switch against ticks | EntityWrites | ClientProofs |
| EntryLifecycle | setup, reload, unload, registries | EntryLifecycle (through ConfigFlows) | RegistryProofs |
| ConfigFlows | the dialogs, composed with EntryLifecycle | EntryLifecycle | RegistryProofs |
| MeshNodes | the identity of mesh nodes | MeshNodes, MeshDuplicates | RegistryProofs |
| TrafficSamples | counter rates and totals | TrafficSamples | TrafficSamplesProofs |

`MC...` modules declare the model values and definitions that a `.cfg` cannot
write; the other runs check the component's module directly. In each module the
definitions introduced with "A change that would break the code" are variants of
an operator, with the kind of bug a change of that code might introduce; they are
used by no specification, and show that the property stated for the operator
notices the bug.

The modules meet where the components do. RefreshCoordinator decides which reads
a tick makes and when it raises; the modules of what a tick feeds (ClientPresence,
WanHealth, MeshNodes, TrafficSamples, OomCounter, EntityWrites) let any tick read,
carry forward or raise, so their properties hold whatever the coordinator decides,
and RefreshCoordinator's hold whatever the reads return. EntryLifecycle and
ConfigFlows share the stored entry and are composed; RefreshCoordinator implements
RequestMailbox.

### RefreshCoordinator

One config entry's coordinator, one action per step of
`_async_update_data_unlocked`: `TickBegin` (plan and token snapshot), `Read(s)`
(one fetch ends; fetches of a stage end in any order), the three ways to raise
after stage 1 (`RaiseAuth`, `RaiseOutage`, `RaiseEmpty`), `BeginStage2`, and
`Publish`. `Request(k)` is one of the three request methods and may happen at
any point of a tick; `Reload` discards the coordinator. The router's
configuration is a generation number that every command bumps; a read returns
the generation it saw, so "which reading is published" is a number.

Abstracted: a *source* stands for a family of fetches that the code treats
alike. `Critical` sources must succeed, `Stage2` needs the result of stage 1,
`Tracked` has a freshness flag, `Volatile` publishes an empty default when it
fails. Failure streaks saturate one above their grace window, beyond which no
comparison changes, and `_refresh_count` is kept modulo a common multiple of the
tiers, of which it is only used through `%`.

### ClientPresence

The client list from the two RCI paths to the events: reading the boot-time
latches (`ReadSystem`), reading the table (`AskClients`) and what its answer leads to,
one step per path (`ClientsAnswer`: `ReadSystem` of the same tick may reset the
latches between the two), the
merge with neighbours, the diff and the listener (`PublishClients`, `Notify`), and the
tick that raises (`Raise`), in which Home Assistant notifies listeners with the
old snapshot. `Reboot` and `Age` are the router: with uptime 0 its live table
answers 404. History variables record what an automation that follows the events
believes (`belief`) and what the live table would have said (`linked`).

### OomCounter

Log events with a second-granular local timestamp and no identity are folded into
a stored total. `Log`, `Rotate`, `Pass` and `Fold` are the router's log and the
two clocks; `ReadLog` and `EndTick` are the tick, with a load and a save that
may fail in any combination; `Restart` loses what is only in memory. The
arithmetic of `advance_oom_state` is kept in full (`Advanced`, `Extra`,
`KeptMark`, `Rewound`).

### AuthSession

Calls in flight share one session. `Start`, `Acquire`, `Answer`, `Receive`,
`ReceiveDenied` follow `_request`; `Handshake`, `Authenticated`, `Rejected` are
`_ensure_auth` under the lock, with the fallback to the other scheme; `Fail` is a
timeout or connection error at any await, including between the two handshakes.
`Change` is the router: its sessions die, and its scheme or password may change.
A session cookie is only ever "live" or "dead".

### RequestMailbox

The abstract side of the request methods: requests wait, a round takes up all
that wait when it begins, and answers all of them or none. RefreshCoordinator
implements it (`MailboxSpec`): `open` is `published`, `waiting` the kinds that are
armed and not taken by the tick in flight, `taken` those whose token the tick has
snapshot. The code has no mailbox but flags and tokens that are compared at the
end of a tick, so the refinement is where "a newer request keeps the flag armed"
(`coordinator.py:964`) is put to the test.

### WanHealth

From the router's report on its uplinks to what Home Assistant accumulates.
`PingVerdict`, `Heuristic` and `InternetAccess` are the reachability of one WAN;
`NextPayload` is what a tick publishes, with critical reads that are kept and a
ping-check read whose errors are swallowed; `Accrued` and `Due` are the downtime
clocks of the router and of each provider; `Counted` is the failover counter.
`Tick` and `TickFails` run every listener, `Dump`, `Stop` and `Crash` are the
restore-state store, `Start` restores from it. Time is counted in fractions of a
second, since the clock counts exactly and publishes whole seconds. `observed`,
`owed` and `doubt` are history: what each reading said ("guessed" where its
ping-check read was swallowed), the time that should be billed, and the time beside
a guess, which is billed or not.

### FirmwareInstall

The install of the controller (`async_start_firmware_update` and the two ways of
waiting in `update.py`) and of a mesh node (command on the controller, then
handshake, version, stage, commit and older command on each port of the node),
one action per await. Each command may start the update and its answer be lost; it may also be
accepted although nothing starts (`Claims`), because the code takes any HTTP success of
a commit and of a node's commands, and any MWS answer without an error message, for a
start: only the body of the controller's `system/update` is looked at.
Each fallback is one more command. `Down` and `Up` let any device restart at any
await, with its sessions gone; `Tick` publishes rows late, without versions or
without an offer, never with an older one, since no release is published during an
install; `Cancel` is Home Assistant stopping. `starts`, `unheard` and `accepted`
count what the device was made to do, what the client did not hear of, and the
answers it took for a start.

### EntityWrites

A policy select, a limit number and a switch, each a call that sends its commands
one by one (`Call`, `Send`, `SendFails`), against ticks that read before, between
and after them (`Fetch`, `Publish`, `TickFails`; a refresh begins with its first read,
and what was not due or has failed comes from the previous payload), against someone else's changes (`Other`), router restarts that lose
what was not saved (`Down`, `Up`) and reloads. The suppression of unchanged states
(`entity.py:247`) is in `Update`; the two polls for which a written limit wins are
`pending`. The history: `promise` is what a call has reported as done, while nobody
else has touched it; `told` is the option and the rate of the last update,
`patch` and `held` are the option and the limit that the entity itself wrote.

### EntryLifecycle and ConfigFlows

EntryLifecycle is `async_setup_entry` as a sequence of awaits (`Start`, `Connect`,
`Refreshed`, `Forward`, `Finish`) each of which reads the stored entry anew, with
retries, reloads, unloading and Home Assistant restarts; the entity and device
registries are sets of rows that setup prunes and the platforms fill. A *family* of
rows stands for the entities that are created and pruned by one rule. ConfigFlows
adds the options dialog and the two login dialogs: each reads the entry at one
moment and writes it at another, and the update listener turns a write into a
reload only if it is registered by then. `used` keeps what each read of setup saw.

### MeshNodes

A node is identified by the CID that the controller lists, or by the MAC address of
a client in extender mode. `Outcome` and `LatchAfter` are one read with its
fallbacks and the capability latch, `Reset` its reset while the router has just
booted, `Read` what the coordinator publishes or carries over; `Setup` migrates
old rows, `Tick` adds new identities, `Delete` is the delete hook, `LoadAgain` an
unload followed by a setup. The router
boots in two phases: its endpoints are missing in the first only, its uptime is
below the boot grace in both.

### TrafficSamples

One byte counter of an uplink, or the sum of a tunnel's. `Rate` is
`counter_rate_bytes_per_second`, `Sampled` and `Carried` the sample of a tick that
has read the counters or not, `Held` the band that keeps a total still. The counter
is read at one moment of the tick and stamped at its end; resets, missing values,
unlisted entries, raised ticks and reloads fall anywhere in between. `passed` is
history: the bytes that have really gone by.

## Runs

| Run | Question | Result |
|---|---|---|
| RefreshTick | are requests honoured and do freshness and outage books agree, through any order of failing, empty and denied reads, raised ticks, requests and reloads, and is the coordinator a request mailbox? | holds, 4.3 million states |
| RefreshLiveness | is every request served, and does everything settle once the router is healthy? | holds, 308 thousand states |
| Presence | do events agree with trackers, is a client announced once, and is the live table found again after a reboot? | holds, 407 thousand states |
| OomCount | is every event counted once and none missed, does the stored total only grow, and does what was counted reach storage? | holds, 72 thousand states |
| AuthSession | is only a real rejection reported, and does every call come back? | holds, 124 thousand states |
| WanHealth | is downtime billed exactly but beside a swallowed check, do providers explain an outage, is each failover counted once? | holds, 84 thousand states |
| FirmwareInstall | is an answer taken for a start the last command, is an early confirmation real, does every install end? | holds, 1.2 million states |
| EntityWrites | is what a call reported as done run and saved, and is what is shown published, accepted or hidden? | holds, 1.0 million states |
| EntryLifecycle | do the registries follow the configuration, and do the user's choices survive setups, dialogs and restarts? | holds, 1.6 million states |
| MeshNodes | where can a second set of devices come from, what may be deleted, do nodes return after a boot? | holds, 373 thousand states |
| TrafficSamples | is a rate explained by what has passed, free of spikes, and a total within its band? | holds, 2.3 million states |
| MeshDuplicates | once the controller has listed its members, is there never a second set of devices? | violated: a 404 while the router boots makes one |

### What the properties say

- RefreshTick: `RequestsHonoured` (a request is consumed only by a published tick
  that tried to read all it covers after it was made), `FreshnessSound` (between ticks of a healthy
  entry a source is flagged fresh exactly while its failures fit the grace window,
  also after raised ticks that counted a failure without publishing the flag),
  `OutageSound` (streak, backoff, poll interval and last success agree), `MailboxSpec`.
  RefreshLiveness: `RequestsServed`, `Converges`.
- Presence: `BeliefInSync` (who follows the events believes what the trackers
  show), `AnnouncedOnce`, `RuntimeRegained` (after a boot the live table is read
  again, unless a read was under way at each reset, or a transient error was masked).
- OomCount: `CountedAtMostOnce` (while the clock was not set back), `NothingMissed`,
  `StoredTotalGrows`, `EventuallyStored`.
- AuthSession: `DenialIsReal` (a call reports rejected credentials only if the
  router does not accept them, or changed while the call was in flight), `CallsSucceed`.
- WanHealth: `ExactAccounting` (billed time is the time owed, over failed,
  tolerated and booting polls, reloads and restarts: exactly, but for time beside a
  reading that was guessed because its ping-check read failed), `OutageExplained` (when the
  router counts as offline, so does each provider, from the same instant),
  `PublishedExact`, `FailoverCounted`.
- FirmwareInstall: `AcceptedOnce` (one answer is taken for a start, and no
  command follows it; a success means that a command was accepted, not that anything
  started),
  `NeverReoffered` (a session answered with 401 is not used again),
  `ConfirmedIsReal`, `InstallEnds`.
- EntityWrites: `ReportedIsDurable` (what a call reported as done is in the running
  and in the saved configuration), `HiddenWhenStale`, `SettingsExplained` (the
  dropdown and the number show what is published, or what the entity wrote itself),
  `SwitchFollows`.
- EntryLifecycle: `NothingLeftBehind`, `ChoiceKept` (only one named interleaving
  loses an options save), `DecisionKept` (disabled rows stay disabled),
  `OutdatedRunEnds`.
- MeshNodes: `SecondSetExplained`, `OnlyRetiredDeleted`, `NodesReturn`.
  MeshDuplicates: `NoSecondSet`, which the code violates.
- TrafficSamples: `RateExplained`, `RateBounded`, `TotalHeld`.

### The violation

MeshDuplicates: the comment of `_mesh_fallback` (`api/domains/mesh.py:169-174`)
says that once the controller has listed its members the MAC-keyed fallback must
not be used, because it "would then create a second set of devices". The guard is
applied to an empty list only. A 404, which a router answers while it boots,
latches the endpoint as unsupported and returns the fallback (`mesh.py:149-151`)
although members have been listed. `SecondSetExplained` shows that this is the only
way to a second set.

### Further disagreements between code and text

These were found by writing the text down as a formula over the same modules. They
are not kept as runs; what the code does guarantee is stated by the property named
last.

- `coordinator.py:132-135` says the failure streak is "reset on the first clean
  tick". An empty critical payload is read without an error, so it resets the
  streak and then fails the tick (`coordinator.py:666`): an outage of the critical
  reads may be interrupted by it and start a new grace window. (`OutageSound`)
- `coordinator.py:142-143` grants a grace window and then marks a source stale. A source
  whose first attempt failed is stale at once, since nothing was published, and
  turns fresh when its next attempt fails too (`coordinator.py:178`).
  (`FreshnessSound`)
- `coordinator.py:292-294` promises that a confirming refresh re-reads what the
  write entity displays. If the optional read fails within a tick that publishes,
  the request is consumed all the same (`coordinator.py:968`).
  (`RequestsHonoured`, `RequestsServed`)
- `CHANGELOG.md:748` and `:1240` say that transient failures do not make clients
  leave. When the live table times out and the table of configured hosts answers,
  the fallback counts as a success and the clients that are only in the live table
  depart (`api/domains/clients.py:54`). (`BeliefInSync`)
- `coordinator.py:546-548` says each event is counted once. A stored mark in the
  future, after a clock that was set back, is ignored, and events it covered are
  counted again (`coordinator_parts/oom.py:90`). (`CountedAtMostOnce` excludes it)
- `api/auth.py:239-242` says the lock keeps concurrent calls from overwriting each
  other's session. A late 401 of an old session marks the session unauthenticated
  that another call has just got (`api/transport.py:198`), and a second handshake
  replaces it; no call fails for it. (`CallsSucceed`, `DenialIsReal`)
- `api/domains/system.py:50-52` says that a latch taken while the router boots would
  hold for the whole session, and drops it after the boot. `async_get_clients` has an
  await between the 404 of the live table and the answer of the configuration
  (`api/domains/clients.py:43-64`); when the reset of the same tick falls in between,
  the configuration is latched after it. Each tick of the boot grace resets again, so
  it lasts only if it happens at the last of them. (`RuntimeRegained` excludes a read
  under way at the reset)
- `coordinator.py:481-482` says that one failed read must not drop every WAN back to the
  link heuristic, and `CHANGELOG.md:19` that downtime pauses while WAN observations
  cannot be read. `async_get_ping_check_status` swallows its errors and answers with no
  result (`api/domains/wan.py:296-306`), so there is no failure to see: for that poll each
  WAN is judged by its link, and the clocks start or stop by that. (`ExactAccounting` confines it to the
  time beside such readings)
- `select.py:208-210` says that the accepted policy stays until the next real fetch
  "confirms (or corrects) it". The comparison state still holds the policy before the
  command; a fetch that reads that policy again is taken for unchanged, its update is
  suppressed, and the dropdown keeps the option that no longer applies.
  (`SettingsExplained` names what may stay)
- `number.py:73-75` says that a written limit wins until the router echoes it, "or for two
  polls at most". The polls run out without a state write when the published rate is
  unchanged, so the number keeps showing the limit that was not taken over.
  (`SettingsExplained`)
- `api/domains/system.py:166-168`, `:374-380` and `:433-438` log that an update has
  started on any HTTP success, without looking at the body, in which the router
  reports its errors (`api/transport.py:313-334`): an install may wait for a start that
  never was. (`AcceptedOnce`, `InstallEnds`)
- An options save that lands during setup, before the update listener is registered
  (`__init__.py:707`), triggers no reload: the instance runs with what it read until
  the next one. (`OutdatedRunEnds` excludes it)
- A login dialog merges the password into the entry as it was when it was submitted
  and writes that after a call to the router; an options save in between is undone
  (`config_flow.py:636`). (`ChoiceKept` names it)

### Bounds

*RefreshTick*: one critical, one stage-2 and one slow source, on tiers of 1, 2
and 3 ticks, cover every distinction the tick makes; one command and two
requests of one kind are enough for "before, during and after" a tick, because
a request is compared with one snapshot of its token. Both grace windows are 1
in place of 3: the window is met, used up and exceeded. *RefreshLiveness* has
the volatile source and the separately requested update check, with a tier of 6. It has
no source with a freshness flag, which would exceed the time of a run, so
`Converges` says nothing of flags; `FreshnessSound` does.
The two instances together have every kind of source; `hostPolicies` and
`updateCheck` differ from `full` only in what they cover, and the theorems hold
for all three.
*Presence*: one client, because no rule relates two clients except the emptiness
of the table; the safety theorems are proved for any set of clients. The boot
grace of two polls and four uptimes give a poll in every phase of a boot.
*OomCount*: two events in up to two seconds (in the same one, in an earlier one,
and in the router's future), one set-back of the clock, and a save backoff capped
at 3 so that the cap is reached.
*AuthSession*: two calls and two changes of the router: a session can die during
a handshake, and again during the retry.
*WanHealth*: a provider whose ping check fails or has no verdict or whose link is
lost, and a backup that is the default route, switched off or absent: two uplinks
give every outcome of "any WAN has access" and of the ranking. A publication step
of 2 seconds and ticks of one or two seconds meet, miss and exceed the step; three
seconds hold an outage with its start, a step and its end. A second is one clock
step here; the theorems hold for any fraction.
*FirmwareInstall*: one node, since installs of the platform run one at a time and
nodes share nothing but that; two ports and two sessions let a session be cached,
rejected, dropped and replaced on either; two polls are the first and the last.
*EntityWrites*: two policies and one limit give a change and its reverse; two
calls and one foreign change, restart or reload let a call of one entity overlap a
call of another, a tick and a restart. Two polls are the code's own number.
*EntryLifecycle*: two clients, so that one may be kept while the other goes; one
save, one restart, one disabled row and one password change, each at any await of a
setup. A save may find a setup, a reload and another dialog under way.
*MeshNodes*: two nodes, one of which may be listed while the other is not; the
grace of 0 makes the list stale at the first failure. *MeshDuplicates* has a grace
of 1.
*TrafficSamples*: a link of one byte per unit of time, ticks of up to one unit and
a band of two, in six units: three ticks with a reset or a gap between any two.

Runs with `CHECK_DEADLOCK FALSE` (WanHealth, TrafficSamples, EntryLifecycle) stop where
time or the bounded number of user actions is used up, or where an entry is stuck
until a restart.

### Fairness

*RefreshLiveness*: weak fairness of `TickStep`. Every await of a tick is bounded
by a request timeout and Home Assistant keeps its timer. Nothing is assumed of
users or of the router: that the router stays healthy, and that polling is not
parked by a reauthentication, are hypotheses of the properties.
*Presence*: the same for its tick (`PollStep`); that the router's uptime grows and clients are
linked is the hypothesis `Recovering`.
*OomCount*: the two halves of a tick are weakly fair, and a save that is tried
again and again eventually succeeds (strong fairness of an `EndTick` that leaves
nothing to save). Without the latter, storage that is broken for good would
refute it.
*AuthSession*: each call's next step is weakly fair (the router or a timeout ends
every wait) and acquiring the lock is strongly fair, since `asyncio.Lock` wakes
its waiters in the order they came. That no call times out any more and the
router accepts the password is the hypothesis `Stable`.
*FirmwareInstall*: weak fairness of `Controller` and of `Direct`: every request has
a timeout and every wait is a sleep. Nothing is assumed of the devices, which may
stay down for ever.
*EntityWrites*: calls, ticks and a router that is down get on (weak fairness of
`CallStep`, `TickStep`, `Up`); a router that is polled again and again
answers again and again (strong fairness of a live read of the interface, and of
publishing one). Without the latter every tick could fail for ever.
*EntryLifecycle*: weak fairness of `LifeStep`: Home Assistant runs the setups,
unloads and scheduled reloads it has begun. Nothing is assumed of the user or of
the router, which may reject every connection.
*MeshNodes*: polls and boots go on (weak fairness of `Setup`, `Tick`, `Booted`), and
a router that is up lists its members to some polls (strong fairness of
`GoodTick`).

## Proofs

All theorems hold for every value of the constants, under the named assumptions
of the modules. Two proof modules extend two components each; the definitions of
ClientPresence and of MeshNodes are named so that they can stand beside those of
EntityWrites and of ConfigFlows (`PresenceSpec`, `MeshSpec`), and no theorem relates
the two halves of such a module.

*RefreshCoordinatorProofs* assumes that the classes of sources are disjoint where
the code's are, and that the tiers divide `CycleTicks`. `RequestsAreHonoured`
needs an invariant on the tick in flight: for a request that was armed when the
tick began and has not been outrun, everything it covers is in the plan, and
whatever has been read of it was read after the request was made; a request
whose flag is down was honoured by an earlier published tick. `FreshnessIsSound`
holds only between ticks of a healthy entry; its invariant adds that a source
whose flag and failure count disagree (a raised tick counted a failure without
publishing the flag) is due or requested, and therefore in the plan of the tick
in flight and, should that one raise too, of the next: a raised tick does not
advance the refresh count, so the same tier is due again.
`OutageIsSound` couples the streak with `lastSuccess` and with the backoff count.

*ClientProofs*, first half (EntityWrites). `WritesAreDurable` needs to know what a
call that is under way has already done. Its remaining commands are always a suffix
of the sequence its request began with (`Remaining`), the promise of its control is
void until it ends, and, unless someone else touched the setting, each suffix says
what is established by then (`Established`): the bare save, that the running
configuration satisfies the request; permit and save, that the policy is already
off; assign and save, that access is already permitted. Calls of the other controls
preserve this because no two controls set the same field (`Same`, `Topic`), and a
save copies what all three have set. `StaleIsHidden` and `SettingsAreExplained` are
about the suppression of unchanged states: the comparison state always holds the
availability of the published payload (`Compared`), and the fingerprints hold the option
and the rate of the last update that came, while what is shown is that or what the
entity wrote itself (`Tracked`), so a suppressed update leaves one of the two.

Second half (ClientPresence): `EventsAgreeWithTrackers` is inductive with the addition
that a listed snapshot's online set is the one its rows give; the merge is
handled by one lemma on `Merged`. `AnnouncedAtMostOnce` needs that a client whose
report was counted is still in the index, which is what the diff looks at, also
while a raised tick republishes the old snapshot.

*OomCounterProofs*: `StorageIsMonotone` needs that an unloaded record is never
saved and that a loaded one has at least the stored total. `NothingCountedTwice`
rests on an invariant of a record against the set of events taken into account:
every event of that set is at most as late as the record's last second, and the
total is at most the number of these events, where the mark of the last second
is at most the number of them logged in it. Each branch of `Advanced` (no newer
second, a newer second) preserves it; cardinalities of the
events of one second and of disjoint sets of events are separate lemmas.
`NothingIsMissed` is the lower bound. A window that slides forgets events, so the
invariant does not count what is visible but relates each record to the set it stands
for (`Full`): at least one per second of that set, and, as long as nothing was rotated
out, at least all of the earlier seconds and its mark for the last one. The log is in
the order of time (`Ordered`), no event is ahead of the router's clock (`Ahead`), and
whoever knows an event knows all earlier ones still in the window (`Windows`); so an
event that a record has not seen is on its last second or later, and never before.
`CountedIsPending` is the safety half of `EventuallyStored`: a loaded counter that
differs from storage is marked for saving until a save succeeds, and the backoff only
delays it, by less than its cap; that a save is then tried and succeeds is liveness.

*AuthSessionProofs*: `DenialsAreReal` speaks of *quiet* calls, during which the
router did not change and which it would accept. The invariant: exactly the
holder of the lock is in a handshake and nobody counts as authenticated then;
a quiet call that retries does so with a session the router knows; while a
handshake has got a session that has died since, every quiet call still waits for the
lock with its first attempt; and a quiet call's handshake is rejected only with
the wrong scheme, and has the right one next. A router change leaves no quiet
call, so every conjunct is established afresh by the calls that start later.
`LockIsReleased`, from the same invariant, is the safety half of `CallsSucceed`: the
holder of the lock is in a handshake, which the router or a timeout ends.

*RefreshCoordinatorProofs* also proves the refinement, `RequestsAreAMailbox`: each
action maps to a mailbox action or a stutter. It needs that a token snapshot is at
most the current token and that what a tick has taken stays armed (`SnapSound`):
then a request during a tick outdates the snapshot, and is waiting although its
kind is taken; a tick that raises puts back what it had taken, because its flags
were never lowered. `PollingStopsVisibly` is about the premise of the two liveness
properties, that polling goes on: the only way it ends leaves an entry without a
snapshot or with a failed last update.

*WanHealthProofs*: `ExactAccountingAlways` needs that a running clock has run since
the last update that was heard (`Running`), that it is running if that update found
the uplink down, not if it found it up, and either way if it was a guess (`Accounts`,
which also speaks of what is stored), and that what the code tells a clock fits what
the history observes (`ToldAsObserved`, `Fits`). What is billed then exceeds what is
owed by at most `doubt`. `OutageExplainedAlways` follows from
the same invariant: the router's clock and a provider's were started by the same
update. `PublishedExactAlways` couples the exact seconds, the published ones and
what Home Assistant shows (`Pub`), with the monotonicity of whole seconds; the
failover counter is equal to the number of switches because a reported failover is
that of the current tick, and the update of a failed tick does not count
(`Counting`). `Wan` is any finite set of positive numbers; that `ActiveWan` is well
defined comes from the existence of a least holder.

*FirmwareInstallProofs*: `AcceptedOnce` is an equation on the number of accepted answers
at each await (before the accepted command none, in every wait one), with the bound it
puts on the starts; it is inductive once a running install is known to have no outcome
yet (`Phase`), and each command adds to the tallies in one of two ways (`Tallies`).
`NeverReofferedAlways` needs that a rejected session is in no cache, that a session
is cached for one port only (else dropping it for one would leave it for another),
and that only granted sessions are rejected (`Sessions`), so that a fresh handshake
cannot yield a rejected one. `ConfirmedIsRealAlways` needs that no payload is ahead
of the device (`Truthful`).

*RegistryProofs*, first half (ConfigFlows with EntryLifecycle). `RegistryIsClean` rests
on a lemma about the two independent lists in the code, `PrunedIsTheRest`: of all rows
there are, a setup prunes exactly the ones it would not create. The invariant
`SweptInv` follows a setup await by await: after the pruning nothing of what was pruned
is there, after the platforms everything created is and the rest was not pruned, after
the device sweep every device carries a row. It speaks of the choice that *was read*,
at each read; only when all reads agree with what is stored do the two lists meet.
`DecisionsAreKept` uses the same lemma for the pruning, and for the sweep that a
disabled row is still a row. `ChoiceIsKept` needs that a login dialog that waits for
the router and was overtaken by no save still holds the stored client list.
`ReloadIsScheduled` is the safety half of `OutdatedRunEnds`: what a setup that nothing
overtook has read is what is stored (`AgreeInv`), and a loaded instance listens, so the
write that outdates it schedules the reload; that the reload also runs is liveness.

Second half (MeshNodes): both theorems rest on where a published list comes from
(`Origin`): it is empty, the CIDs of the last list the controller gave, or
MAC-keyed, and known to the platforms. `SecondSetOnlyMissing`: only a read that finds
the endpoint missing brings new MACs after members were listed. `DeletedOnlyRetired`:
what the delete hook compares with is the controller's last list, or MACs.

*TrafficSamplesProofs*: `RateExplainedAlways` relates the router's counter to the
published one through resets (`Drift`: it has grown by at most what has passed;
`Clean`: by exactly that without a reset). `RateBoundedAlways` bounds what has
passed by the capacity of the link and the time since the read (`Capacity`), which
is not linear in the constants; the products are lemmas of their own.
`TotalHeldAlways` needs that the shown total is at most the raw one and less than a
band behind (`HeldBand`), which a decrease re-establishes at once.

Model-checked only: the liveness properties (`RequestsServed`, `Converges`,
`RuntimeRegained`, `EventuallyStored`, `CallsSucceed`, `InstallEnds`,
`SwitchFollows`, `OutdatedRunEnds`, `NodesReturn`), since fairness and ENABLED are
outside the prover. Every safety property of a passing run is a theorem. The strengthened
invariants of OomCounter, EntityWrites and ConfigFlows were checked with TLC on the
instances above before they were proved.

## Not modelled

- The creation of an entry, its discovery, and the unique id that a login dialog
  should compare: one router is modelled, and these relate several.
- Repairs issues, device triggers, diagnostics, release notes, translations and
  icons: they format what is published and keep no state that a property could
  relate to anything.
- Buttons (a single command with no state) and the separate save of the Wi-Fi
  switch; the other switches share the shape of the one in EntityWrites.
- Client statistics and wake on LAN, the legacy summary of the WAN status, ports and
  links of mesh nodes, and the read-only sensors: projections of the published
  snapshot. Their availability is `FreshnessSound` and `HiddenWhenStale`.
- The latch of the composite batch request, and the capability latches other than
  those of the client table and of the mesh members, which follow the same rule.
- Parsing and formatting of router payloads and the cryptography of the challenge:
  their results are taken as data. The registries, the scheduler and the store of
  Home Assistant appear through what the integration relies on.

The router, the clocks, storage and users appear only as nondeterministic actions.

## Next

1. The creation of entries: discovery, duplicates and the unique-id check of the
   login dialogs, on two routers.
2. A *presence register* as the abstract specification of ClientPresence, outside
   the departures listed above, with its refinement proved.
3. The safety halves of the other liveness properties, as `ReloadIsScheduled` is of
   `OutdatedRunEnds`, `CountedIsPending` of `EventuallyStored` and `LockIsReleased` of
   `CallsSucceed`: of `RuntimeRegained`, `InstallEnds`, `SwitchFollows` and
   `NodesReturn`.

## Running

`tlc -config RefreshTick.cfg MCRefreshCoordinator` checks a run (the module of each is
in `PROJECT.json`), `tlapm WanHealthProofs.tla` a proof.
