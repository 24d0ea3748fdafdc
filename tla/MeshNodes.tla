----------------------------- MODULE MeshNodes ------------------------------
(***************************************************************************)
(* Which identity a mesh node has, from the controller's answer to the     *)
(* registry: api/domains/mesh.py reads the members of the Wi-Fi system,    *)
(* the capability latch of the endpoint and its reset after a boot are in  *)
(* transport.py and system.py, the coordinator carries the last list over  *)
(* a failed read, and setup, the platforms and the delete hook of          *)
(* __init__.py turn the identities into registry rows.                     *)
(*                                                                         *)
(* A node is known by the CID the controller lists or, where the           *)
(* controller cannot be asked, by the MAC address of a client in extender  *)
(* mode.  The two make different devices.                                  *)
(***************************************************************************)
EXTENDS Naturals, FiniteSets

CONSTANTS
    Node,       \* mesh nodes
    Grace       \* failed reads in a row for which the old list stays fresh

ASSUME MeshAssumption == Node # {} /\ Grace \in Nat

VARIABLES
    members,   \* the nodes the router's Wi-Fi system has
    router,    \* "booting", "settling" (still under the boot grace) or "up"
    ticked,    \* a poll has fallen into this phase of the boot
    latch,     \* _mws_member_supported: "unknown", "yes" or "no"
    seen,      \* _mws_members_seen
    nodes,     \* coordinator.data["mesh_nodes"], as a set of identities
    fresh,     \* coordinator.data["mesh_nodes_fresh"]
    streak,    \* failed reads in a row
    known,     \* identities the platforms have added in this run
    rows,      \* identities with registry rows
    loaded,    \* setup is through
    listing    \* the members at the last read that listed them

meshVars == <<members, router, ticked, latch, seen, nodes, fresh, streak,
              known, rows, loaded, listing>>

Id(kind, n) == [kind |-> kind, node |-> n]
Ids(kind, set) == {Id(kind, n) : n \in set}
Identity == {Id(k, n) : k \in {"cid", "mac", "old"}, n \in Node}

MeshInit ==
    /\ members = Node
    /\ router = "up" /\ ticked = FALSE
    /\ latch = "unknown" /\ seen = FALSE
    /\ nodes = {} /\ fresh = TRUE /\ streak = 0
    /\ known = {} /\ loaded = FALSE
    /\ rows \in {{}, Ids("old", Node)}
    /\ listing = Node

-----------------------------------------------------------------------------
(***************************************************************************)
(* One read of the members: what it returns ("raise" for an exception),    *)
(* and what it does to the latch and to `seen'.  An extender must be among *)
(* the clients for the endpoint to be asked at all.                        *)
(***************************************************************************)
Raise == [raise |-> TRUE, nodes |-> {}]
Return(set) == [raise |-> FALSE, nodes |-> set]

\* A change that would break the code: an empty list falls back to the MACs.
FallbackAlways(extenders) == Return(Ids("mac", extenders))

Fallback(extenders) == IF seen THEN Raise ELSE Return(Ids("mac", extenders))

Transient(extenders) == Raise

Answer == {"members", "none", "missing", "error"}

\* While it boots the router may not have the endpoint or the list yet; a
\* slow controller fails a call, or restarts, at any time.
Answers == IF router = "booting" THEN Answer ELSE {"members", "none", "error"}

Outcome(extenders, asked, answer) ==
    CASE extenders = {}                   -> Return({})
      [] extenders # {} /\ asked = "no"   -> Return(Ids("mac", extenders))
      [] extenders # {} /\ asked # "no" ->
           CASE answer = "members" /\ members # {} -> Return(Ids("cid", members))
             [] answer = "members" /\ members = {} -> Fallback(extenders)
             [] answer = "none"                    -> Fallback(extenders)
             [] answer = "missing"                 -> Return(Ids("mac", extenders))
             [] answer = "error"                   -> Transient(extenders)

Asks(extenders, asked) == extenders # {} /\ asked # "no"

LatchAfter(extenders, asked, answer) ==
    CASE ~Asks(extenders, asked)      -> asked
      [] answer = "missing"           -> "no"
      [] answer = "error"             -> asked
      [] OTHER                        -> "yes"

\* A change that would break the code: only a falling uptime resets the latch,
\* and the endpoints of a booting router are not there yet at that moment.
ResetOnFall == IF router = "booting" /\ ~ticked THEN "unknown" ELSE latch

\* _reprobe_capabilities_after_boot, of the system read of the same tick.
Reset == IF router = "up" THEN latch ELSE "unknown"

\* The read and what the coordinator publishes of it.
Read(extenders, answer) ==
    LET asked == Reset
        got   == Outcome(extenders, asked, answer)
    IN  /\ latch' = LatchAfter(extenders, asked, answer)
        /\ seen' = (seen \/ /\ Asks(extenders, asked)
                            /\ answer = "members" /\ members # {})
        /\ listing' = IF /\ Asks(extenders, asked)
                         /\ answer = "members" /\ members # {}
                      THEN members ELSE listing
        /\ IF got.raise
           THEN /\ nodes' = nodes
                /\ streak' = IF streak > Grace THEN streak ELSE streak + 1
                /\ fresh' = (loaded /\ streak' <= Grace)
           ELSE /\ nodes' = got.nodes /\ streak' = 0 /\ fresh' = TRUE

-----------------------------------------------------------------------------
\* _async_migrate_mesh_unique_ids: an old row takes the full identity of the
\* node it belongs to, where no row has it yet.
Migrated(set, reported) ==
    LET moved == {n \in Node : /\ Id("cid", n) \in reported
                               /\ Id("old", n) \in set
                               /\ Id("cid", n) \notin set}
    IN  (set \ Ids("old", moved)) \union Ids("cid", moved)

\* Setup: a new client and coordinator, the first refresh, the migration and
\* the platforms.
Setup ==
    /\ ~loaded
    /\ \E extenders \in SUBSET members, answer \in Answers : Read(extenders, answer)
    /\ loaded' = TRUE
    /\ ticked' = TRUE
    /\ rows' = Migrated(rows, nodes') \union nodes'
    /\ known' = nodes'
    /\ UNCHANGED <<members, router>>

\* iter_new_items: an identity is new once in a run.
New(ids) == ids \ known

\* A tick of the slow tier; new identities are added.
Tick ==
    /\ loaded
    /\ \E extenders \in SUBSET members, answer \in Answers : Read(extenders, answer)
    /\ ticked' = TRUE
    /\ rows' = rows \union New(nodes')
    /\ known' = known \union nodes'
    /\ UNCHANGED <<members, router, loaded>>

\* A change that would break the code: an empty list retires every node.
RetiredByAnyList(id) == fresh /\ id \notin nodes

\* _is_retired_mesh_device
Retired(id) == fresh /\ nodes # {} /\ id \notin nodes

\* The user deletes a device of a node; its rows go with it.
Delete ==
    /\ loaded
    /\ \E id \in rows : Retired(id) /\ rows' = rows \ {id}
    /\ UNCHANGED <<members, router, ticked, latch, seen, nodes, fresh, streak,
                   known, loaded, listing>>

\* The integration is loaded again: nothing in memory survives.
LoadAgain ==
    /\ loaded
    /\ latch' = "unknown" /\ seen' = FALSE
    /\ nodes' = {} /\ fresh' = TRUE /\ streak' = 0
    /\ known' = {} /\ loaded' = FALSE
    /\ UNCHANGED <<members, router, ticked, rows, listing>>

-----------------------------------------------------------------------------
\* The router boots; the boot takes longer than a polling interval, and so
\* does what is left of the grace (600 s against 180 s) afterwards.
Boot ==
    /\ router = "up"
    /\ router' = "booting" /\ ticked' = FALSE
    /\ UNCHANGED <<members, latch, seen, nodes, fresh, streak, known, rows,
                   loaded, listing>>

Booted ==
    /\ router # "up"
    /\ router = "settling" => ticked
    /\ router' = IF router = "booting" THEN "settling" ELSE "up"
    /\ ticked' = FALSE
    /\ UNCHANGED <<members, latch, seen, nodes, fresh, streak, known, rows,
                   loaded, listing>>

\* A node is taken out of the Wi-Fi system, or put back.
Change ==
    /\ \E n \in Node : members' = IF n \in members THEN members \ {n}
                                                   ELSE members \union {n}
    /\ UNCHANGED <<router, ticked, latch, seen, nodes, fresh, streak, known,
                   rows, loaded, listing>>

MeshNext == Setup \/ Tick \/ Delete \/ LoadAgain \/ Boot \/ Booted \/ Change

MeshSpec == MeshInit /\ [][MeshNext]_meshVars

\* A poll that lists the members of a router that is up.
GoodTick == /\ Setup \/ Tick
            /\ nodes' = Ids("cid", members)

\* The integration keeps polling and the router's boots end; that a read
\* meets an answering controller again and again is the assumption.
FairMeshSpec ==
    /\ MeshSpec
    /\ WF_meshVars(Setup) /\ WF_meshVars(Tick) /\ WF_meshVars(Booted)
    /\ SF_meshVars(GoodTick)

-----------------------------------------------------------------------------
\* A published list has identities of one kind.
Published == {Ids(k, s) : k \in {"cid", "mac"}, s \in SUBSET Node}

MeshTypeOK ==
    /\ members \subseteq Node /\ listing \subseteq Node
    /\ router \in {"booting", "settling", "up"}
    /\ ticked \in BOOLEAN /\ seen \in BOOLEAN
    /\ fresh \in BOOLEAN /\ loaded \in BOOLEAN
    /\ latch \in {"unknown", "yes", "no"}
    /\ nodes \in Published
    /\ streak \in 0..(Grace + 1)
    /\ known \subseteq Identity /\ rows \subseteq Identity

(***************************************************************************)
(* A second set of devices: once the controller has listed its members, no *)
(* node gets a row under its MAC address.                                  *)
(* mesh.py, _mesh_fallback: "Once this controller has listed its members   *)
(* by CID, an empty list is a glitch [...] The MAC-keyed fallback would    *)
(* then create a second set of devices and strand the CID-keyed ones, so   *)
(* raise and let the coordinator keep its snapshot instead."               *)
(***************************************************************************)
NoSecondSet ==
    [][seen => \A n \in Node :
          Id("mac", n) \in rows' => Id("mac", n) \in rows]_meshVars

(***************************************************************************)
(* The one way round it: the endpoint itself was not found, which a        *)
(* booting router answers.  An empty list, an unanswered call or a list    *)
(* without extenders never makes the second set.                           *)
(***************************************************************************)
SecondSetExplained ==
    [][seen /\ latch' # "no" =>
          \A n \in Node :
              Id("mac", n) \in rows' => Id("mac", n) \in rows]_meshVars

(***************************************************************************)
(* The delete hook never takes the device of a node that the controller    *)
(* listed when it was last asked with success, unless the identities       *)
(* published now are the MAC-keyed ones.                                   *)
(***************************************************************************)
OnlyRetiredDeleted ==
    [][\A n \in Node : Id("cid", n) \in rows \ rows' =>
          \/ n \notin listing
          \/ nodes # {} /\ nodes \subseteq Ids("mac", Node)]_meshVars

(***************************************************************************)
(* After its last boot the nodes of a router come back under their CIDs: a *)
(* latch taken while it was booting does not hold.                         *)
(***************************************************************************)
NodesReturn == \A n \in Node :
    <>[](router = "up" /\ n \in members) => []<>(Id("cid", n) \in nodes)
=============================================================================
