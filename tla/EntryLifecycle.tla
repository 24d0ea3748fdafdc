--------------------------- MODULE EntryLifecycle ---------------------------
(***************************************************************************)
(* The life of one config entry: setting it up, unloading and reloading    *)
(* it, and what each setup does to the rows Home Assistant keeps in its    *)
(* entity and device registries (__init__.py, sensor/__init__.py,          *)
(* device_tracker.py, entity_setup.py).  ConfigFlows adds the dialogs that *)
(* write the stored entry while all of this runs.                          *)
(*                                                                         *)
(* A setup reads the stored entry several times, with an await between any *)
(* two of the reads: the connection first, then what decides whether the   *)
(* client tree is fetched, then the client list for the pruning and once   *)
(* more for the entities.  `used' keeps what each read saw.                *)
(***************************************************************************)
EXTENDS Naturals, FiniteSets

CONSTANTS
    Mac,          \* the clients that can be tracked
    Router,       \* the owner of what belongs to the router itself
    MaxSecret,    \* how often the router's password changes, plus one
    MaxDisabled   \* how many entities the user disables

ASSUME EntryAssumption ==
    /\ Mac # {} /\ Router \notin Mac
    /\ MaxSecret \in Nat \ {0} /\ MaxDisabled \in Nat

VARIABLES
    stored,     \* the config entry: tracked clients, sensors option, secret
    phase,      \* how far setup is, or how it ended
    used,       \* what the running instance read of the entry, and when
    listening,  \* the update listener is registered
    reloads,    \* reloads that are scheduled and not started
    reg,        \* rows of the entity registry
    off,        \* the rows among them the user disabled
    dev,        \* rows of the device registry
    secret      \* the password the router accepts

entryVars == <<stored, phase, used, listening, reloads, reg, off, dev, secret>>

(***************************************************************************)
(* The option is absent until it is saved once; it then means "full".  A   *)
(* stored secret of 0 stands for an entry without credentials.             *)
(***************************************************************************)
Level   == {"full", "basic", "off"}
Choice  == [tracked : SUBSET Mac, sensors : Level \union {"unset"}]
Entry   == [choice : Choice, secret : 0..MaxSecret]
Phase   == {"starting", "connecting", "refreshing", "forwarding", "added",
            "loaded", "unloading", "retry", "rejected", "stuck"}

LevelOf(choice) == IF choice.sensors = "unset" THEN "full" ELSE choice.sensors
Needs(choice)   == LevelOf(choice) # "off" \/ choice.tracked # {}

Row(family, owner) == [family |-> family, of |-> owner]
ClientFamily == {"presence", "basic", "full", "retired"}
ClientRow    == {Row(f, m) : f \in ClientFamily, m \in Mac}
RouterRow    == {Row(f, Router) : f \in {"count", "port", "tunnel"}}
Rows         == ClientRow \union RouterRow

(***************************************************************************)
(* What setup creates.  The tracker, the rate limit and the policy select  *)
(* exist for every tracked client ("presence"); the sensors depend on the  *)
(* option; the four counts on whether the client tree is fetched.          *)
(***************************************************************************)
ClientEntities(choice) ==
    {Row("presence", m) : m \in choice.tracked}
        \union (IF LevelOf(choice) = "off" THEN {}
                ELSE {Row("basic", m) : m \in choice.tracked})
        \union (IF LevelOf(choice) = "full"
                THEN {Row("full", m) : m \in choice.tracked} ELSE {})

CountEntities(needs) == IF needs THEN {Row("count", Router)} ELSE {}

\* A VPN interface that is a WAN uplink is switched from its WAN device.
TunnelEntities(uplink) == IF uplink THEN {} ELSE {Row("tunnel", Router)}

(***************************************************************************)
(* What setup prunes: the families the option no longer creates, every row *)
(* of a client that is no longer tracked, the counts, the port switches of *)
(* an old release and a tunnel's switch once the tunnel is an uplink.      *)
(***************************************************************************)
StaleFamilies(choice) ==
    {"retired"} \union (IF LevelOf(choice) # "full" THEN {"full"} ELSE {})
                \union (IF LevelOf(choice) = "off" THEN {"basic"} ELSE {})

\* A change that would break the code: no sweep over the registry.
ClientRowsPrunedNoSweep(choice) ==
    {r \in ClientRow : r.of \in choice.tracked /\ r.family \in StaleFamilies(choice)}

ClientRowsPruned(choice) ==
    {r \in ClientRow : \/ r.of \notin choice.tracked
                       \/ r.family \in StaleFamilies(choice)}

Pruned(choice, uplink) ==
    ClientRowsPruned(choice)
        \union (IF Needs(choice) THEN {} ELSE {Row("count", Router)})
        \union {Row("port", Router)}
        \union (IF uplink THEN {Row("tunnel", Router)} ELSE {})

\* The device a row hangs on, and the devices that no row hangs on.
DeviceOf(row)  == row.of
Populated(rows) == {DeviceOf(r) : r \in rows}

-----------------------------------------------------------------------------
NotRead == [tracked |-> {}, sensors |-> "unset"]
NotRun  == [secret |-> 0, needs |-> FALSE, pruned |-> NotRead,
            built |-> NotRead, uplink |-> FALSE, late |-> FALSE]

\* An entry of an earlier release, whose rows are all still there, or a
\* fresh one.  Setup is about to run.
EntryInit ==
    /\ stored \in [choice : [tracked : SUBSET Mac, sensors : {"unset"}],
                   secret : {0, 1}]
    /\ phase = "starting"
    /\ used = NotRun
    /\ listening = FALSE
    /\ reloads = 0
    /\ \/ reg = {} /\ dev = {}
       \/ reg = Rows \ {Row("count", Router)} /\ dev = Mac \union {Router}
    /\ off = {}
    /\ secret = 1

InSetup == phase \in {"connecting", "refreshing", "forwarding", "added"}

(***************************************************************************)
(* What every write of the stored entry does.  Home Assistant compares, so *)
(* an equal entry is no change; a change runs the update listener, which   *)
(* asks for a reload -- if setup has got as far as registering it; `late'  *)
(* records a change that setup was overtaken by.                           *)
(***************************************************************************)
\* A change that would break the code: a changed option alone is not noticed.
ListenerOnClients(entry) ==
    IF listening /\ entry.choice.tracked # stored.choice.tracked THEN 1 ELSE 0

ListenerReloads(entry) == IF listening /\ entry # stored THEN 1 ELSE 0

Store(entry, extra) ==
    /\ stored' = entry
    /\ used' = [used EXCEPT !.late = @ \/ (InSetup /\ entry # stored)]
    /\ reloads' = reloads + ListenerReloads(entry) + extra

-----------------------------------------------------------------------------
\* A change that would break the code: missing credentials are not noticed.
AnyEntry(entry) == TRUE

\* Host and credentials are there.
Complete(entry) == entry.secret # 0

\* async_setup_entry begins.
Start ==
    /\ phase = "starting"
    /\ used' = [NotRun EXCEPT !.secret = stored.secret]
    /\ phase' = IF Complete(stored) THEN "connecting" ELSE "retry"
    /\ UNCHANGED <<stored, listening, reloads, reg, off, dev, secret>>

\* client.async_start: rejected, unreachable, or through.
Connect ==
    /\ phase = "connecting"
    /\ \/ used.secret # secret /\ phase' = "rejected" /\ UNCHANGED used
       \/ phase' = "retry" /\ UNCHANGED used
       \/ /\ used.secret = secret
          /\ phase' = "refreshing"
          /\ used' = [used EXCEPT !.needs = Needs(stored.choice)]
    /\ UNCHANGED <<stored, listening, reloads, reg, off, dev, secret>>

\* The first refresh failed: the same two ways.
RefreshFailed ==
    /\ phase = "refreshing"
    /\ phase' \in (IF used.secret # secret THEN {"rejected", "retry"} ELSE {"retry"})
    /\ UNCHANGED <<stored, used, listening, reloads, reg, off, dev, secret>>

\* The first refresh came back; everything up to the platforms in one go.
Refreshed ==
    /\ phase = "refreshing" /\ used.secret = secret
    /\ \E uplink \in BOOLEAN :
          /\ used' = [used EXCEPT !.pruned = stored.choice, !.uplink = uplink]
          /\ reg' = reg \ Pruned(stored.choice, uplink)
    /\ off' = off \intersect reg'
    /\ phase' = "forwarding"
    /\ UNCHANGED <<stored, listening, reloads, dev, secret>>

\* The platforms add their entities; a row that is there is taken over, with
\* its disabled flag, and so is a device.
Forward ==
    /\ phase = "forwarding"
    /\ used' = [used EXCEPT !.built = stored.choice]
    /\ LET new == ClientEntities(stored.choice)
                      \union CountEntities(used.needs)
                      \union TunnelEntities(used.uplink)
       IN  /\ reg' = reg \union new
           /\ dev' = dev \union Populated(new \ off) \union {Router}
    /\ phase' = "added"
    /\ UNCHANGED <<stored, listening, reloads, off, secret>>

\* A change that would break the code: disabled entities not counted.
EmptyDevicesEnabledOnly == {d \in dev : d \notin Populated(reg \ off)}

EmptyDevices == {d \in dev : d \notin Populated(reg)}

\* After the platforms: devices without a row go, and the listener comes.
Finish ==
    /\ phase = "added"
    /\ dev' = dev \ EmptyDevices
    /\ listening' = TRUE
    /\ phase' = "loaded"
    /\ UNCHANGED <<stored, used, reloads, reg, off, secret>>

\* Home Assistant tries a setup that was not ready again.
Retry ==
    /\ phase = "retry"
    /\ phase' = "starting"
    /\ UNCHANGED <<stored, used, listening, reloads, reg, off, dev, secret>>

(***************************************************************************)
(* A scheduled reload takes its turn: reloads and setups of one entry are  *)
(* serialised by its lock.                                                 *)
(***************************************************************************)
Reload ==
    /\ reloads > 0
    /\ phase \in {"loaded", "retry", "rejected", "stuck"}
    /\ reloads' = reloads - 1
    /\ phase' = CASE phase = "loaded" -> "unloading"
                  [] phase = "stuck"  -> "stuck"
                  [] OTHER            -> "starting"
    /\ UNCHANGED <<stored, used, listening, reg, off, dev, secret>>

\* async_unload_entry, then Home Assistant drops the listeners.  A platform
\* that will not unload leaves the entry as it is until a restart.
Unload ==
    /\ phase = "unloading"
    /\ \/ phase' = "starting" /\ listening' = FALSE
       \/ phase' = "stuck" /\ UNCHANGED listening
    /\ UNCHANGED <<stored, used, reloads, reg, off, dev, secret>>

\* Home Assistant restarts: what it keeps on disk is all there is.
Restart ==
    /\ phase' = "starting"
    /\ listening' = FALSE
    /\ reloads' = 0
    /\ used' = NotRun
    /\ UNCHANGED <<stored, reg, off, dev, secret>>

-----------------------------------------------------------------------------
\* The user disables an entity of the running instance.
Disable ==
    /\ phase = "loaded" /\ Cardinality(off) < MaxDisabled
    /\ \E r \in reg \ off : off' = off \union {r}
    /\ UNCHANGED <<stored, phase, used, listening, reloads, reg, dev, secret>>

\* The user deletes a device that nothing references.
DeleteDevice ==
    /\ phase = "loaded"
    /\ \E d \in EmptyDevices : dev' = dev \ {d}
    /\ UNCHANGED <<stored, phase, used, listening, reloads, reg, off, secret>>

\* The router's password is changed on the router.
SecretChanged ==
    /\ secret < MaxSecret
    /\ secret' = secret + 1
    /\ UNCHANGED <<stored, phase, used, listening, reloads, reg, off, dev>>

SetupStep == Start \/ Connect \/ RefreshFailed \/ Refreshed \/ Forward \/ Finish
LifeStep  == SetupStep \/ Retry \/ Reload \/ Unload

-----------------------------------------------------------------------------
EntryTypeOK ==
    /\ stored \in Entry
    /\ phase \in Phase
    /\ used \in [secret : 0..MaxSecret, needs : BOOLEAN, pruned : Choice,
                 built : Choice, uplink : BOOLEAN, late : BOOLEAN]
    /\ listening \in BOOLEAN
    /\ reloads \in Nat
    /\ reg \subseteq Rows
    /\ off \subseteq reg
    /\ dev \subseteq Mac \union {Router}
    /\ secret \in 1..MaxSecret
    /\ InSetup \/ phase = "loaded" => used.secret # 0

\* Every read of this setup saw the same choice, and it is still stored.
Steady == /\ used.pruned = stored.choice
          /\ used.built = stored.choice
          /\ used.needs = Needs(stored.choice)

\* The running instance no longer agrees with the stored entry.
Outdated == phase = "loaded" /\ (~Steady \/ used.secret # stored.secret)

(***************************************************************************)
(* Once setup is through, and nothing changed under it, the registry holds *)
(* exactly the rows the configuration stands for: none of a client that is *)
(* no longer tracked, of a family that was dialled back or retired, or of  *)
(* a tunnel that became an uplink, and no device without a row.            *)
(***************************************************************************)
NothingLeftBehind ==
    phase = "loaded" /\ Steady =>
        /\ reg = ClientEntities(stored.choice)
                     \union CountEntities(Needs(stored.choice))
                     \union TunnelEntities(used.uplink)
        /\ dev \subseteq Populated(reg) \union {Router}

(***************************************************************************)
(* What the user did to an entity that the configuration wants survives    *)
(* every reload: a disabled row keeps its flag, and the device it hangs on *)
(* its row, as long as the stored choice asks for the entity.              *)
(***************************************************************************)
DecisionKept ==
    [][\A r \in off :
          (\A c \in {stored.choice, stored'.choice} : r \in ClientEntities(c))
              => /\ r \in off'
                 /\ DeviceOf(r) \in dev => DeviceOf(r) \in dev']_entryVars
=============================================================================
