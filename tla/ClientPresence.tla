--------------------------- MODULE ClientPresence ---------------------------
(***************************************************************************)
(* The client table of one router, from the two RCI paths that serve it to *)
(* the events Home Assistant fires: api/domains/clients.py with the        *)
(* capability latches of api/domains/system.py, the merge with the         *)
(* neighbour table (coordinator_parts/payloads.py), the index and the      *)
(* diffs of coordinator.py, and the listener of __init__.py.               *)
(*                                                                         *)
(* "runtime" is show/ip/hotspot/host, the live table; "config" is          *)
(* ip/hotspot/host, the configured hosts, which carry no presence.         *)
(***************************************************************************)
EXTENDS Naturals

CONSTANTS
    Mac,         \* the clients
    Registered,  \* those the router's configuration lists
    Grace,       \* CAPABILITY_BOOT_GRACE_S, in polls
    MaxUptime    \* bound: the uptime at which the router counts as settled

ASSUME PresenceAssumption ==
    /\ Registered \subseteq Mac
    /\ Grace \in Nat \ {0}
    /\ MaxUptime \in Nat
    /\ Grace <= MaxUptime

Path == {"runtime", "config"}
Answer == {"ok", "missing", "transient"}
HostRow == {"none", "off", "active", "up"}          \* a row of the hotspot table
Neighbour == {"none", "live", "expired"}            \* a row of the ARP/ND table
Row == HostRow \cup {"ghost", "lapsed"}             \* a merged row

NoEvents == [new |-> {}, joined |-> {}, left |-> {}]

VARIABLES
    uptime,      \* the router's uptime; 0: its runtime endpoints answer 404
    \* the API client
    skip,        \* _hotspot_subpath_skip
    winner,      \* _hotspot_subpath_winner, or "none"
    lastUptime,  \* _last_seen_uptime, or MaxUptime + 1 for None
    \* the tick in flight
    phase,       \* "idle" or "reading"
    sysRead,     \* show/system has been answered (or has failed)
    asking,      \* the path whose answer async_get_clients awaits, or "none"
    earlier,     \* what the path before it answered ("missing" if skipped),
                 \* or "none" if it is the first
    got,         \* "unread", "failed" or "listed"
    listed,      \* the client list async_get_clients returned
    \* the published snapshot
    published, success, index, online, stale, events,
    \* history
    belief,      \* who is home for an automation that follows the events
    reports,     \* "new device" events since the mac was last absent
    linked,      \* clients with an up link when a table last answered
    live,        \* the last list came from the runtime table
    masked,      \* the runtime table was passed over without being missing
    probed       \* a poll saw the boot since the runtime table came up, with no
                 \* read of the clients under way

client   == <<skip, winner, lastUptime>>
reading  == <<asking, earlier, got, listed>>
poll     == <<phase, sysRead, reading>>
snapshot == <<published, success, index, online, stale, events>>
followed == <<belief, reports>>
observed == <<linked, live, masked>>
presenceVars ==
    <<uptime, client, poll, snapshot, followed, observed, probed>>

Empty == [m \in Mac |-> "none"]

PresenceTypeOK ==
    /\ uptime \in 0 .. MaxUptime
    /\ skip \subseteq Path
    /\ winner \in Path \cup {"none"}
    /\ lastUptime \in 0 .. MaxUptime + 1
    /\ phase \in {"idle", "reading"}
    /\ sysRead \in BOOLEAN
    /\ asking \in Path \cup {"none"}
    /\ earlier \in Answer \cup {"none"}
    /\ got \in {"unread", "failed", "listed"}
    /\ listed \in [Mac -> HostRow]
    /\ published \in BOOLEAN
    /\ success \in BOOLEAN
    /\ index \in [Mac -> Row]
    /\ online \subseteq Mac
    /\ stale \in BOOLEAN
    /\ events \in [new : SUBSET Mac, joined : SUBSET Mac, left : SUBSET Mac]
    /\ belief \subseteq Mac
    /\ reports \in [Mac -> 0 .. 2]
    /\ linked \subseteq Mac
    /\ live \in BOOLEAN
    /\ masked \in BOOLEAN
    /\ probed \in BOOLEAN

PollEnds ==
    /\ phase' = "idle"
    /\ sysRead' = FALSE
    /\ asking' = "none"
    /\ earlier' = "none"
    /\ got' = "unread"
    /\ listed' = Empty

\* Setup builds a new API client and a new coordinator.
NewEntry ==
    /\ skip' = {}
    /\ winner' = "none"
    /\ lastUptime' = MaxUptime + 1
    /\ published' = FALSE
    /\ success' = TRUE
    /\ index' = Empty
    /\ online' = {}
    /\ stale' = FALSE
    /\ events' = NoEvents
    /\ belief' = {}
    /\ reports' = [m \in Mac |-> 0]
    /\ linked' = {}
    /\ live' = FALSE
    /\ masked' = FALSE
    /\ probed' = (uptime > 0)

PresenceInit ==
    /\ uptime = MaxUptime
    /\ skip = {}
    /\ winner = "none"
    /\ lastUptime = MaxUptime + 1
    /\ phase = "idle"
    /\ sysRead = FALSE
    /\ asking = "none"
    /\ earlier = "none"
    /\ got = "unread"
    /\ listed = Empty
    /\ published = FALSE
    /\ success = TRUE
    /\ index = Empty
    /\ online = {}
    /\ stale = FALSE
    /\ events = NoEvents
    /\ belief = {}
    /\ reports = [m \in Mac |-> 0]
    /\ linked = {}
    /\ live = FALSE
    /\ masked = FALSE
    /\ probed = TRUE

-----------------------------------------------------------------------------
(***************************************************************************)
(* The router.                                                             *)
(***************************************************************************)
Reboot ==
    /\ uptime > 0
    /\ uptime' = 0
    /\ probed' = FALSE
    /\ UNCHANGED <<client, poll, snapshot, followed, observed>>

Age ==
    /\ uptime < MaxUptime
    /\ uptime' = uptime + 1
    /\ UNCHANGED <<client, poll, snapshot, followed, observed, probed>>

-----------------------------------------------------------------------------
(***************************************************************************)
(* The reads of a tick.                                                    *)
(***************************************************************************)
PollBegin ==
    /\ phase = "idle"
    /\ phase' = "reading"
    /\ UNCHANGED <<uptime, client, sysRead, reading, snapshot, followed,
                   observed, probed>>

\* A change that would break the code: only a falling uptime resets the
\* latches.
ResetsOnRollback == uptime < lastUptime /\ lastUptime <= MaxUptime

\* reset_capability_caches.
Unlatched == skip' = {} /\ winner' = "none"

\* _reprobe_capabilities_after_boot.
Resets == (uptime < lastUptime /\ lastUptime <= MaxUptime) \/ uptime < Grace

\* History: this answer shows a recent boot, and the runtime table is up again.
ShowsBoot ==
    /\ uptime > 0
    /\ (uptime < lastUptime /\ lastUptime <= MaxUptime) \/ uptime < Grace

\* async_get_system_info: answered, or failed.  It shares a gather with
\* async_get_clients and may be answered at any point of that one.
ReadSystem ==
    /\ phase = "reading"
    /\ ~sysRead
    /\ sysRead' = TRUE
    /\ \/ /\ lastUptime' = uptime
          /\ probed' = (probed \/ (ShowsBoot /\ asking = "none"))
          /\ IF Resets
             THEN Unlatched /\ masked' = (masked /\ asking # "none")
             ELSE UNCHANGED <<skip, winner, masked>>
       \/ UNCHANGED <<client, masked, probed>>
    /\ UNCHANGED <<uptime, phase, reading, snapshot, followed, linked, live>>

\* A freshly booted router answers 404 for its runtime table.  The
\* configuration is always there.
Answers(p) ==
    Answer \ {IF p = "runtime" /\ uptime = 0 THEN "ok" ELSE "missing"}

\* What a path lists when it answers; `hosts` is the live hotspot table.
Listing(p, hosts) ==
    IF p = "runtime" THEN hosts
    ELSE [m \in Mac |-> IF m \in Registered THEN "off" ELSE "none"]

\* ordered_paths of async_get_clients: the latched path before the other one.
First == IF winner \in Path \ skip THEN winner ELSE "runtime"

OtherPath(p) == CHOOSE q \in Path : q # p

\* async_get_clients starts: a path that was latched off is not asked.
AskClients ==
    /\ phase = "reading"
    /\ got = "unread"
    /\ asking = "none"
    /\ IF First \in skip
       THEN asking' = OtherPath(First) /\ earlier' = "missing"
       ELSE asking' = First /\ UNCHANGED earlier
    /\ UNCHANGED <<uptime, client, phase, sysRead, got, listed, snapshot,
                   followed, observed, probed>>

\* The answer of the path that was asked ends the loop when it lists anyone or
\* no path is left; the latches may have been dropped since it was sent.
ClientsAnswer ==
    /\ asking # "none"
    /\ \E a \in Answers(asking), hosts \in [Mac -> HostRow] :
         LET hit   == a = "ok" /\ Listing(asking, hosts) # Empty
             fails == "ok" \notin {earlier, a} /\ "transient" \in {earlier, a}
         IN
           /\ skip' = skip \cup {p \in {asking} : a = "missing"}
           /\ winner' = IF hit THEN asking ELSE winner
           /\ linked' = {m \in Mac : hosts[m] = "up"}
           /\ IF hit \/ earlier # "none" \/ OtherPath(asking) \in skip'
              THEN /\ asking' = "none"
                   /\ earlier' = "none"
                   /\ got' = IF fails THEN "failed" ELSE "listed"
                   /\ listed' = IF hit THEN Listing(asking, hosts) ELSE Empty
                   /\ live' = (hit /\ asking = "runtime")
                   /\ masked' = (~live' /\ (masked
                        \/ (~fails /\ (IF asking = "runtime" THEN a
                                       ELSE earlier) \in {"ok", "transient"})))
              ELSE /\ asking' = OtherPath(asking)
                   /\ earlier' = a
                   /\ UNCHANGED <<got, listed, live, masked>>
    /\ UNCHANGED <<uptime, lastUptime, phase, sysRead, snapshot, followed,
                   probed>>

-----------------------------------------------------------------------------
(***************************************************************************)
(* The end of a tick.                                                      *)
(***************************************************************************)
\* merge_clients_with_neighbours, one mac.
Merged(row, n) ==
    CASE row = "none"               -> IF n = "none" THEN "none" ELSE "ghost"
      [] row \in {"active", "lapsed"} -> IF n = "live" THEN "active"
                                         ELSE IF n = "expired" THEN "lapsed"
                                         ELSE row
      [] OTHER                      -> row

\* is_client_online.
Online(row) == row \in {"active", "up"}

\* _presence_source of a device tracker: what proves presence, and who is home
\* by it.  For a neighbour alone it is nothing or its expiry: "inactive" here.
PresenceSource(row) ==
    CASE row = "none"   -> "missing"
      [] row = "up"     -> "link"
      [] row = "lapsed" -> "neighbour_expired"
      [] row = "active" -> "active"
      [] OTHER          -> "inactive"

IsConnected(row) == PresenceSource(row) \in {"link", "active"}

\* A tracker is shown as unavailable on a preserved list.
TrackerAvailable == success /\ ~stale

\* real_client_macs.
Real(row) == row \notin {"none", "ghost"}

\* What the listener does with a published snapshot: fire its events.
Fire(e, real) ==
    /\ belief' = (belief \cup e.joined) \ e.left
    /\ reports' = [m \in Mac |->
                     LET r == IF m \in real THEN reports[m] ELSE 0
                     IN  IF m \in e.new /\ r < 2 THEN r + 1 ELSE r]

\* A change that would break the code: a failed tick is not told from a
\* published one.
NotifyAlways(e, real) == Fire(e, real)

\* _async_handle_client_events: the listener fires nothing for a failed tick.
Notify(e, real) ==
    IF success' THEN Fire(e, real) ELSE UNCHANGED <<belief, reports>>

\* A failed read keeps the previous list, unless that one was empty.
Preserved == got = "failed" /\ index # Empty

\* A change that would break the code: who is online is taken from the rows of
\* a preserved list too.
OnlineFromRows(rows) == {m \in Mac : Online(rows[m])}

\* On a preserved list the online set is the previous one, whatever the
\* neighbour table says of its rows.
OnlineNow(rows) ==
    IF Preserved THEN online ELSE {m \in Mac : Online(rows[m])}

PublishClients ==
    /\ phase = "reading"
    /\ sysRead
    /\ got # "unread"
    /\ published' = TRUE
    /\ success' = TRUE
    /\ stale' = Preserved
    /\ \E n \in [Mac -> Neighbour] :
         index' = [m \in Mac |->
                      Merged(IF Preserved THEN index[m] ELSE listed[m], n[m])]
    /\ online' = OnlineNow(index')
    /\ LET real == {m \in Mac : Real(index'[m])}
           diff == published /\ ~Preserved IN
         /\ events' = [new    |-> {m \in real : index[m] = "none"},
                       joined |-> IF diff THEN online' \ online ELSE {},
                       left   |-> IF diff THEN online \ online' ELSE {}]
         /\ IF published
            THEN Notify(events', real)
            ELSE belief' = online' /\ UNCHANGED reports
    /\ PollEnds
    /\ UNCHANGED <<uptime, client, observed, probed>>

\* A critical read of the tick failed.  The first failure after a success
\* notifies the listeners, with the old snapshot; a failed first tick fails
\* setup, which Home Assistant retries.
Raise ==
    /\ phase = "reading"
    /\ sysRead
    /\ got # "unread"
    /\ IF published
       THEN /\ success' = FALSE
            /\ IF success
               THEN Notify(events, {m \in Mac : Real(index[m])})
               ELSE UNCHANGED followed
            /\ UNCHANGED <<client, published, index, online, stale, events,
                           observed, probed>>
       ELSE NewEntry
    /\ PollEnds
    /\ UNCHANGED uptime

ReloadEntry == NewEntry /\ PollEnds /\ UNCHANGED uptime

-----------------------------------------------------------------------------
PollStep ==
    \/ PollBegin \/ ReadSystem \/ AskClients \/ ClientsAnswer
    \/ PublishClients \/ Raise

PresenceNext == Reboot \/ Age \/ PollStep \/ ReloadEntry

PresenceSpec == PresenceInit /\ [][PresenceNext]_presenceVars

\* The poll timer is kept and every read ends by its timeout.
FairPresenceSpec == PresenceSpec /\ WF_presenceVars(PollStep)
-----------------------------------------------------------------------------
\* An automation that follows the connect and disconnect events agrees with
\* the trackers whenever those are available - whatever came in between:
\* preserved lists, neighbours that lapse meanwhile, failed ticks.
BeliefInSync ==
    published => /\ belief = online
                 /\ TrackerAvailable =>
                        belief = {m \in Mac : IsConnected(index[m])}

\* A device is announced as new at most once for as long as the router lists
\* it, also when a failed tick notifies the listeners with the old snapshot.
AnnouncedOnce == \A m \in Mac : reports[m] <= 1

\* After a reboot, during which the runtime table was answered with 404 and
\* the clients were read from the configuration, the integration goes back to
\* the live table - provided that, once the table was up, some poll saw the
\* boot with no read of the clients under way, and that no transient error of
\* the table was masked by the other path.  A latch dropped in the middle of
\* such a read is taken again by the answer still awaited.
Recovering ==
    /\ probed
    /\ ~masked
    /\ published
    /\ success
    /\ got # "failed"
    /\ linked # {}

RuntimeRegained == <>[]Recovering => <>[]live

=============================================================================
