----------------------------- MODULE EntityWrites -----------------------------
(***************************************************************************)
(* The entities that command the router, and what they show meanwhile: the *)
(* connection policy (select.py) and the bandwidth limit (number.py) of a  *)
(* tracked client, and a switch (switch.py) - Wi-Fi, WAN, VPN and crypto   *)
(* map switches have the same shape.  A write is a short sequence of CLI   *)
(* commands ending in a save; each may fail, be executed without its       *)
(* answer arriving, and overlap a tick that read the router before it.     *)
(*                                                                         *)
(* The client is a quiet one: of its row only what the writes change is    *)
(* modelled.  Traffic would only make its entities publish more often.     *)
(* Which tiers a tick reads, and that a write's refresh request forces     *)
(* them, is RefreshCoordinator's business: here a tick may read or carry   *)
(* forward any of them.                                                    *)
(***************************************************************************)
EXTENDS Integers, Sequences

CONSTANTS
    Options,      \* policy options users select: "default", "deny", "home"
    Limits,       \* limits users set, in kbit/s; 0 is none
    Reported,     \* the firmware reports a client's limit
    PendingPolls, \* 2 in the code: polls before the router's limit wins
    MaxWrites,    \* bound: service calls of a behaviour
    MaxOthers     \* bound: changes in the router's own UI, restarts, reloads

Control == {"policy", "limit", "switch"}
Item    == {"host", "show"}     \* what a tick reads: host policies, and the
                                \* status tree with the row and the interface
Parts(i) == IF i = "show" THEN {"row", "iface"} ELSE {"host"}

NoPolicy == "none"
Unknown  == -1           \* a limit the firmware does not report
Hidden   == -2           \* a number shown as unavailable

\* What a service call asks for, and what it still has to send.
Request == [option : {"default", "deny", "home", "limit", "on", "off", "nothing"},
            kbps : Nat]
Nothing == [option |-> "nothing", kbps |-> 0]

Verb  == {"permit", "deny", "unset", "assign", "rate", "up", "down", "save"}
\* `alone` is history: nobody else has changed the setting meanwhile.
Write == [todo : Seq(Verb), want : Request, alone : BOOLEAN]
Free  == [todo |-> <<>>, want |-> Nothing, alone |-> FALSE]

Config  == [access : {"permit", "deny"}, policy : {NoPolicy, "home"},
            rate : Nat, on : BOOLEAN]
Factory == [access |-> "permit", policy |-> NoPolicy, rate |-> 0, on |-> TRUE]

\* The payload: the client's policy and row, the interface, clients_stale.
Payload == [access : {"permit", "deny"}, policy : {NoPolicy, "home"},
            rate : Nat \cup {Unknown}, on : BOOLEAN, stale : BOOLEAN]

ASSUME WriteAssumption ==
    /\ Options \subseteq {"default", "deny", "home"}
    /\ Limits \subseteq Nat
    /\ Reported \in BOOLEAN
    /\ PendingPolls \in Nat \ {0}
    /\ MaxWrites \in Nat
    /\ MaxOthers \in Nat

VARIABLES
    up,       \* the router answers
    conf,     \* its running configuration
    saved,    \* its startup configuration
    write,    \* write[c]: c's running service call
    tick,     \* the running refresh: what it has read so far
    ok,       \* last_update_success
    data,     \* the published payload
    limit,    \* the number's _limit_kbps
    pending,  \* its _pending_polls
    seen,     \* seen[c]: _last_fingerprint and _last_available
    shown,    \* shown[c]: the state Home Assistant has of c
    \* bounds and history
    writes,   \* service calls so far
    others,   \* changes elsewhere, restarts and reloads so far
    promise,  \* promise[c]: what c last reported as done and saved, while
              \* nobody has changed it since
    told,     \* the option and the rate of the last update
    patch,    \* the last policy the select accepted, until an update brings
              \* another option than the update before it; then "none"
    held      \* the last limit the number wrote, until an update brings another
              \* rate with its polls run out; then Hidden

router   == <<up, conf, saved>>
entities == <<limit, pending, seen, shown>>
bounds   == <<writes, others>>
history  == <<promise, told, patch, held>>
vars     == <<router, write, tick, ok, data, entities, bounds, history>>

-----------------------------------------------------------------------------
(***************************************************************************)
(* Commands.                                                               *)
(***************************************************************************)
Requests(c) ==
    CASE c = "policy" -> {[option |-> o, kbps |-> 0] : o \in Options}
      [] c = "limit"  -> {[option |-> "limit", kbps |-> k] : k \in Limits}
      [] c = "switch" -> {[option |-> o, kbps |-> 0] : o \in {"on", "off"}}

\* A change that would break the code: the save goes out before the change.
CommandsSavedFirst(r) ==
    CASE r.option = "deny"    -> <<"save", "deny">>
      [] r.option = "default" -> <<"unset", "save", "permit">>
      [] r.option = "home"    -> <<"permit", "save", "assign">>
      [] r.option = "limit"   -> <<"save", "rate">>
      [] r.option = "on"      -> <<"save", "up">>
      [] r.option = "off"     -> <<"save", "down">>

\* async_set_interface_enabled: the toggle, and the save that keeps it.
SwitchCommands(on) == IF on THEN <<"up", "save">> ELSE <<"down", "save">>

\* async_set_client_policy, async_set_client_rate_limit: what is sent, in
\* order.
Commands(r) ==
    CASE r.option = "deny"    -> <<"deny", "save">>
      [] r.option = "default" -> <<"unset", "permit", "save">>
      [] r.option = "home"    -> <<"permit", "assign", "save">>
      [] r.option = "limit"   -> <<"rate", "save">>
      [] OTHER                -> SwitchCommands(r.option = "on")

Apply(verb, r, c) ==
    CASE verb = "permit" -> [c EXCEPT !.access = "permit"]
      [] verb = "deny"   -> [c EXCEPT !.access = "deny"]
      [] verb = "unset"  -> [c EXCEPT !.policy = NoPolicy]
      [] verb = "assign" -> [c EXCEPT !.policy = "home"]
      [] verb = "rate"   -> [c EXCEPT !.rate = r.kbps]
      [] verb = "up"     -> [c EXCEPT !.on = TRUE]
      [] verb = "down"   -> [c EXCEPT !.on = FALSE]
      [] verb = "save"   -> c

\* current_option: what the select makes of an access and a policy.
Option(d) ==
    IF d.access = "deny" THEN "deny"
    ELSE IF d.policy = NoPolicy THEN "default" ELSE "home"

\* The configuration is what r asked for.
Satisfies(c, r) ==
    CASE r.option = "nothing" -> TRUE
      [] r.option = "limit"   -> c.rate = r.kbps
      [] r.option = "on"      -> c.on
      [] r.option = "off"     -> ~c.on
      [] OTHER                -> Option(c) = r.option

-----------------------------------------------------------------------------
(***************************************************************************)
(* What the entities show.                                                 *)
(***************************************************************************)
\* native_value: the written limit until the router's has had its polls.
Native(d, kbps, left) ==
    IF d.rate = Unknown \/ left > 0 THEN kbps ELSE d.rate

ClientShown(d, success) == success /\ ~d.stale

\* A change that would break the code: the base class's fingerprint, the row.
PolicyPrintOfRow(d) == [row |-> d.rate]

\* _fingerprint_source of each entity: the select adds the policy to the row.
PolicyPrint(d) == [row |-> d.rate, access |-> d.access, policy |-> d.policy]

\* A change that would break the code: availability is not compared.
KeyOfPrint(print, available) == [known |-> TRUE, print |-> print, available |-> TRUE]

Key(print, available) == [known |-> TRUE, print |-> print, available |-> available]

Keys(d, success) ==
    [policy |-> Key(PolicyPrint(d), ClientShown(d, success)),
     limit  |-> Key(d.rate, ClientShown(d, success)),
     switch |-> Key(d.on, success)]

\* Added to Home Assistant, before the first update: no fingerprint yet.
Fresh(keys) == [c \in Control |-> [keys[c] EXCEPT !.known = FALSE]]

OptionShown(d, success) == IF ClientShown(d, success) THEN Option(d) ELSE "hidden"
LimitShown(d, success, kbps, left) ==
    IF ClientShown(d, success) THEN Native(d, kbps, left) ELSE Hidden
SwitchShown(d, success) ==
    IF ~success THEN "hidden" ELSE IF d.on THEN "on" ELSE "off"

\* A change that would break the code: polls are counted down forever.
CountedAlways(d) == IF d.rate # limit THEN pending - 1 ELSE 0

\* The number counts a poll unless the router echoes the written limit.
Counted(d) ==
    IF pending > 0 /\ d.rate # limit THEN pending - 1 ELSE 0

\* _handle_coordinator_update of the three: a state is written when the
\* fingerprint or the availability has changed.
Update(d, success) ==
    /\ pending' = Counted(d)
    /\ seen' = Keys(d, success)
    /\ shown' =
         [policy |-> IF seen'.policy = seen.policy THEN shown.policy
                     ELSE OptionShown(d, success),
          limit  |-> IF seen'.limit = seen.limit THEN shown.limit
                     ELSE LimitShown(d, success, limit, pending'),
          switch |-> IF seen'.switch = seen.switch THEN shown.switch
                     ELSE SwitchShown(d, success)]
    /\ told' = [option |-> Option(d), rate |-> d.rate]
    /\ patch' = IF told'.option = told.option THEN patch ELSE "none"
    /\ held' = IF pending' > 0 \/ d.rate = told.rate THEN held ELSE Hidden
    /\ UNCHANGED limit

\* A payload of what the router has now.
Current == [access |-> conf.access, policy |-> conf.policy,
            rate |-> IF Reported THEN conf.rate ELSE Unknown,
            on |-> conf.on, stale |-> FALSE]

Startup == [access |-> Factory.access, policy |-> Factory.policy,
            rate |-> IF Reported THEN Factory.rate ELSE Unknown,
            on |-> Factory.on, stale |-> FALSE]

\* `live` is history: the refresh has read the interface from the router itself
\* since the last accepted write.
NoTick == [got |-> {}, live |-> FALSE, read |-> Startup]

ShownOf(d, success, kbps) ==
    [policy |-> OptionShown(d, success),
     limit  |-> LimitShown(d, success, kbps, 0),
     switch |-> SwitchShown(d, success)]

Init ==
    /\ up = TRUE
    /\ conf = Factory
    /\ saved = Factory
    /\ write = [c \in Control |-> Free]
    /\ tick = NoTick
    /\ ok = TRUE
    /\ data = Startup
    /\ limit = 0
    /\ pending = 0
    /\ seen = Fresh(Keys(Startup, TRUE))
    /\ shown = ShownOf(Startup, TRUE, 0)
    /\ writes = 0
    /\ others = 0
    /\ promise = [c \in Control |-> Nothing]
    /\ told = [option |-> "default", rate |-> Startup.rate]
    /\ patch = "none"
    /\ held = Hidden

-----------------------------------------------------------------------------
(***************************************************************************)
(* Service calls. PARALLEL_UPDATES = 1: one at a time in each platform.    *)
(***************************************************************************)
Idle(c) == write[c] = Free

Visible(c) == IF c = "switch" THEN ok ELSE ClientShown(data, ok)

Call(c) ==
    /\ Idle(c)
    /\ Visible(c)
    /\ writes < MaxWrites
    /\ writes' = writes + 1
    /\ \E r \in Requests(c) :
           write' = [write EXCEPT ![c] = [todo |-> Commands(r), want |-> r, alone |-> TRUE]]
    /\ promise' = [promise EXCEPT ![c] = Nothing]
    /\ UNCHANGED <<router, tick, ok, data, entities, others, told, patch, held>>

\* The select publishes what the router accepted: into the payload, and as
\* its state.
ShowPolicy(r) ==
    /\ data' = [data EXCEPT !.access = IF r.option = "deny" THEN "deny" ELSE "permit",
                            !.policy = IF r.option = "home" THEN "home" ELSE NoPolicy]
    /\ shown' = [shown EXCEPT !.policy = OptionShown(data', ok)]
    /\ patch' = r.option
    /\ UNCHANGED <<limit, pending, seen, held>>

\* The number keeps it, and shows it for the next polls.
ShowLimit(r) ==
    /\ limit' = r.kbps
    /\ pending' = PendingPolls
    /\ shown' = [shown EXCEPT !.limit = LimitShown(data, ok, r.kbps, PendingPolls)]
    /\ held' = r.kbps
    /\ UNCHANGED <<data, seen, patch>>

\* The call of c returns; `kept` unless the save of a switch has failed.
Returns(c, kept) ==
    /\ write' = [write EXCEPT ![c] = Free]
    /\ promise' = [promise EXCEPT ![c] = IF kept /\ write[c].alone THEN write[c].want
                                         ELSE Nothing]
    /\ CASE c = "policy" -> ShowPolicy(write[c].want)
         [] c = "limit"  -> ShowLimit(write[c].want)
         [] c = "switch" -> UNCHANGED <<data, entities, patch, held>>
    /\ tick' = [tick EXCEPT !.live = FALSE]
    /\ UNCHANGED told

Executed(c) ==
    LET verb == Head(write[c].todo) IN
    /\ up
    /\ conf' = Apply(verb, write[c].want, conf)
    /\ saved' = IF verb = "save" THEN conf ELSE saved
    /\ UNCHANGED up

\* The next command is sent and accepted.
Send(c) ==
    /\ ~Idle(c)
    /\ Executed(c)
    /\ IF Len(write[c].todo) = 1 THEN Returns(c, TRUE)
       ELSE /\ write' = [write EXCEPT ![c].todo = Tail(@)]
            /\ UNCHANGED <<tick, data, entities, history>>
    /\ UNCHANGED <<ok, bounds>>

\* _async_save_configuration: the save of a switch may fail.
BestEffort(c) == c = "switch" /\ Head(write[c].todo) = "save"

\* The command fails, or its answer is lost; the failure is raised, and the
\* entity left as it is.
SendFails(c) ==
    /\ ~Idle(c)
    /\ Executed(c) \/ UNCHANGED router
    /\ IF BestEffort(c) THEN Returns(c, FALSE)
       ELSE /\ write' = [write EXCEPT ![c] = Free]
            /\ UNCHANGED <<tick, data, entities, history>>
    /\ UNCHANGED <<ok, bounds>>

-----------------------------------------------------------------------------
(***************************************************************************)
(* The router, and its other users.                                        *)
(***************************************************************************)
OneMore ==
    /\ others < MaxOthers
    /\ others' = others + 1
    /\ UNCHANGED writes

\* All the commands of r, but its save.
Outcome(r) ==
    IF Len(Commands(r)) = 3
    THEN Apply(Commands(r)[2], r, Apply(Commands(r)[1], r, conf))
    ELSE Apply(Commands(r)[1], r, conf)

\* Someone changes a setting in the router's own UI, saving it or not.
Other(c) ==
    /\ up
    /\ OneMore
    /\ \E r \in Requests(c) : conf' = Outcome(r)
    /\ saved' \in {saved, conf'}
    /\ promise' = [promise EXCEPT ![c] = Nothing]
    /\ write' = [write EXCEPT ![c].alone = FALSE]
    /\ UNCHANGED <<up, tick, ok, data, entities, told, patch, held>>

\* A restart loses what was not saved. It outlasts the timeout of a request:
\* every call that runs into it has failed before the router is back.
Down ==
    /\ up
    /\ OneMore
    /\ up' = FALSE
    /\ conf' = saved
    /\ UNCHANGED <<saved, write, tick, ok, data, entities, history>>

Up ==
    /\ ~up
    /\ \A c \in Control : Idle(c)
    /\ up' = TRUE
    /\ UNCHANGED <<conf, saved, write, tick, ok, data, entities, bounds, history>>

-----------------------------------------------------------------------------
(***************************************************************************)
(* Refreshes.                                                              *)
(***************************************************************************)
\* A part that was not due or could not be read is the previous payload's, the
\* interfaces of a tolerated refresh too. A preserved client list is marked.
Source(p, fresh) == IF p \in fresh THEN Current ELSE [data EXCEPT !.stale = TRUE]

\* A change that would break the code: the interfaces prefetched for an
\* earlier refresh are served again.
TakenFromCache(i, fresh) ==
    IF i = "host"
    THEN [tick.read EXCEPT !.access = Source("host", fresh).access,
                           !.policy = Source("host", fresh).policy]
    ELSE [tick.read EXCEPT !.rate  = Source("row", fresh).rate,
                           !.stale = Source("row", fresh).stale,
                           !.on    = data.on]

\* What the refresh has, once i is read: its parts in `fresh` from the router.
Taken(i, fresh) ==
    IF i = "host"
    THEN [tick.read EXCEPT !.access = Source("host", fresh).access,
                           !.policy = Source("host", fresh).policy]
    ELSE [tick.read EXCEPT !.rate  = Source("row", fresh).rate,
                           !.stale = Source("row", fresh).stale,
                           !.on    = Source("iface", fresh).on]

\* A refresh starts with the first of its reads.
Fetch(i, fresh) ==
    /\ i \notin tick.got
    /\ fresh # {} => up
    /\ tick' = [tick EXCEPT !.got = @ \cup {i}, !.live = @ \/ "iface" \in fresh,
                            !.read = Taken(i, fresh)]
    /\ UNCHANGED <<router, write, ok, data, entities, bounds, history>>

FetchInterface == Fetch("show", {"iface"}) \/ Fetch("show", Parts("show"))

Over == tick.got = Item /\ tick' = NoTick

Publish ==
    /\ Over
    /\ ok' = TRUE
    /\ data' = tick.read
    /\ Update(tick.read, TRUE)
    /\ UNCHANGED <<router, write, bounds, promise>>

\* A failed refresh: Home Assistant tells the entities of the first one.
TickFails ==
    /\ Over
    /\ ok' = FALSE
    /\ IF ok THEN Update(data, FALSE) ELSE UNCHANGED <<entities, told, patch, held>>
    /\ UNCHANGED <<router, write, data, bounds, promise>>

\* The entry is reloaded between two calls: a first refresh, new entities;
\* the number restores the state it showed.
Reload ==
    /\ up
    /\ OneMore
    /\ \A c \in Control : Idle(c)
    /\ tick' = NoTick
    /\ ok' = TRUE
    /\ data' = Current
    /\ limit' = IF shown.limit = Hidden THEN 0 ELSE shown.limit
    /\ pending' = 0
    /\ seen' = Fresh(Keys(Current, TRUE))
    /\ shown' = ShownOf(Current, TRUE, limit')
    /\ told' = [option |-> Option(Current), rate |-> Current.rate]
    /\ patch' = "none"
    /\ held' = Hidden
    /\ UNCHANGED <<router, write, promise>>

-----------------------------------------------------------------------------
CallStep == \E c \in Control : Send(c) \/ SendFails(c)

TickStep ==
    \/ \E i \in Item : \E fresh \in SUBSET Parts(i) : Fetch(i, fresh)
    \/ Publish \/ TickFails

Next ==
    \/ \E c \in Control : Call(c) \/ Other(c)
    \/ CallStep
    \/ Down \/ Up
    \/ TickStep
    \/ Reload

Spec == Init /\ [][Next]_vars

\* A call and a refresh always get on (every request has a timeout), the
\* router comes back, and it does not fail every read and every refresh.
\* Each subscript is what the action changes whenever it happens.
FairSpec ==
    /\ Spec
    /\ WF_write(CallStep)
    /\ WF_tick(TickStep)
    /\ WF_up(Up)
    /\ SF_tick(FetchInterface)
    /\ SF_tick(Publish /\ tick.live)

-----------------------------------------------------------------------------
TypeOK ==
    /\ up \in BOOLEAN
    /\ conf \in Config
    /\ saved \in Config
    /\ write \in [Control -> Write]
    /\ tick \in [got : SUBSET Item, live : BOOLEAN, read : Payload]
    /\ ok \in BOOLEAN
    /\ data \in Payload
    /\ limit \in Nat
    /\ pending \in 0 .. PendingPolls
    /\ shown.policy \in {"default", "deny", "home", "hidden"}
    /\ shown.limit \in Nat \cup {Hidden}
    /\ shown.switch \in {"on", "off", "hidden"}
    /\ writes \in 0 .. MaxWrites
    /\ others \in 0 .. MaxOthers
    /\ promise \in [Control -> Request]
    /\ told \in [option : {"default", "deny", "home"}, rate : Nat \cup {Unknown}]
    /\ patch \in {"default", "deny", "home", "none"}
    /\ held \in Nat \cup {Hidden}

\* A write that returned without an error, and that nobody has overridden,
\* is what the router runs and what it will run after a restart: whatever
\* other writes, failed saves and restarts came in between (clients.py:260,
\* transport.py:336-342, vpn.py:563-565).
ReportedIsDurable ==
    \A c \in Control : Satisfies(conf, promise[c]) /\ Satisfies(saved, promise[c])

\* An entity is unavailable in Home Assistant exactly while its data is not
\* current: suppressing unchanged states never suppresses that
\* (entity.py:247-252).
HiddenWhenStale ==
    /\ shown.policy = "hidden" <=> ~ClientShown(data, ok)
    /\ shown.limit = Hidden <=> ~ClientShown(data, ok)
    /\ shown.switch = "hidden" <=> ~ok

\* Suppressing unchanged states hides no change of the policy or the limit: the
\* dropdown has the published option, also when nothing but the policy changed
\* (select.py:106-113), and the number its native_value.  Only what the entity
\* wrote itself may stay: the accepted option while every update brings the one
\* that came before it again, the limit until an update brings a new rate once
\* its polls have run out.
SettingsExplained ==
    /\ shown.policy \in {"hidden", Option(data), patch}
    /\ shown.limit \in {Hidden, Native(data, limit, pending), held}

\* Once nobody writes, the switch shows what the router runs again and again,
\* whatever failed or was lost before.
SwitchFollows ==
    []<>(shown.switch = (IF conf.on THEN "on" ELSE "off"))

=============================================================================
