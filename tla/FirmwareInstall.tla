--------------------------- MODULE FirmwareInstall ---------------------------
(***************************************************************************)
(* Installing firmware on the controller and on mesh nodes: the update     *)
(* entities (update.py) and the start sequences of the client              *)
(* (api/domains/system.py).  An install is a long chain of awaits against  *)
(* a device that restarts on purpose half way: an answer may be lost       *)
(* before or after the device acted on the command, a node's session may   *)
(* have died with its last reboot, and every fallback is one more command  *)
(* that may start the update.                                              *)
(*                                                                         *)
(* PARALLEL_UPDATES = 1 makes Home Assistant run one install of the        *)
(* platform at a time.  The coordinator's ticks run beside it.             *)
(***************************************************************************)
EXTENDS Integers, FiniteSets

CONSTANTS
    Router,       \* the controller
    Node,         \* the mesh nodes
    Ports,        \* how many ports a node is tried on (its own, then 80)
    Polls,        \* 120, 60 and 18 in the code: polls of a waiting install
    Percent,      \* the progress a router may report
    MaxSessions   \* bound: sessions a node grants in a behaviour

Device == Node \cup {Router}

Old     == 1
Latest  == 2
Blank   == 0        \* a version the payload does not carry
Version == {Blank, Old, Latest}

None    == 0        \* no session cached
Idle    == -1       \* _update_progress is None

RouterStep == {"version", "stage", "commit", "update",
               "probe", "progress", "reboot"}
DirectStep == {"nodeVersion", "nodeStage", "nodeCommit", "nodeUpdate"}
NodeStep   == {"member", "sign", "confirm"} \cup DirectStep

ASSUME DeviceAssumption == Router \notin Node

ASSUME BoundAssumption ==
    /\ Ports \in Nat \ {0}
    /\ Polls \in Nat
    /\ Percent \subseteq 0 .. 100
    /\ MaxSessions \in Nat

VARIABLES
    fw,        \* fw[d]: the version d runs
    dev,       \* dev[d]: what d is doing
    issued,    \* issued[n]: sessions n has granted, numbered from 1
    dead,      \* dead[n]: sessions up to this one died with a reboot
    payload,   \* payload[d]: version and offer the last tick published
    cached,    \* _node_auth_headers[n, port]
    step,      \* where the running install waits, "none" without one
    target,    \* the device it is for
    port,      \* the port it tries
    session,   \* the node session it sends
    left,      \* polls left of the current wait
    progress,  \* _update_progress of the controller's entity
    asked,     \* the update check was requested at the end
    \* history, for the properties: of the running or last install
    starts,    \* times the target was made to start an update
    unheard,   \* those whose answer did not arrive as a success
    accepted,  \* answers taken for a start, whether or not one happened
    denied,    \* the router rejected the credentials during the wait
    outcome,   \* how it ended
    confirmed, \* it ended because the payload showed the new version
    refused    \* refused[n]: sessions n has answered 401 to

device  == <<fw, dev, issued, dead>>
install == <<step, target, port, session, left, progress, asked>>
history == <<starts, unheard, accepted, denied, outcome, confirmed, refused>>
vars    == <<device, payload, cached, install, history>>

-----------------------------------------------------------------------------
(***************************************************************************)
(* The devices and the payload.                                            *)
(***************************************************************************)
Answering(d) == dev[d] \in {"up", "updating"}

\* latest_version: an update is offered when both versions are known and
\* differ; without an offer Home Assistant refuses the install.
Offered(p) == p.fw # Blank /\ p.avail # Blank /\ p.fw # p.avail

\* What a tick may read of d: the version is learned late, and a node's row
\* may lack the offer or come from the client list, without versions.  An
\* offer is the latest version: releases during an install are left out.
Readings(d) ==
    {[fw |-> v, avail |-> Latest] : v \in {Old, fw[d]}}
        \cup IF d = Router THEN {}
             ELSE {[fw |-> v, avail |-> Blank] : v \in {Blank, fw[d]}}

Tick ==
    /\ \E d \in Device : \E r \in Readings(d) :
           payload' = [payload EXCEPT ![d] = r]
    /\ asked' = FALSE
    /\ UNCHANGED <<device, cached, step, target, port, session, left, progress,
                   history>>

\* A device goes down, for the update it runs or by itself.
Down ==
    /\ \E d \in Device :
        /\ Answering(d)
        /\ dev' = [dev EXCEPT ![d] =
                     IF dev[d] = "updating" THEN "flashing" ELSE "down"]
    /\ UNCHANGED <<fw, issued, dead, payload, cached, install, history>>

\* It comes back, without its sessions and with or without the new version.
Up ==
    /\ \E d \in Device :
        /\ ~Answering(d)
        /\ \E v \in IF dev[d] = "flashing" THEN {fw[d], Latest} ELSE {fw[d]} :
               fw' = [fw EXCEPT ![d] = v]
        /\ dev' = [dev EXCEPT ![d] = "up"]
        /\ dead' = IF d \in Node THEN [dead EXCEPT ![d] = issued[d]] ELSE dead
    /\ UNCHANGED <<issued, payload, cached, install, history>>

Init ==
    /\ fw = [d \in Device |-> Old]
    /\ dev = [d \in Device |-> "up"]
    /\ issued = [n \in Node |-> 0]
    /\ dead = [n \in Node |-> 0]
    /\ payload = [d \in Device |-> [fw |-> Old, avail |-> Latest]]
    /\ cached = [n \in Node |-> [p \in 1 .. Ports |-> None]]
    /\ step = "none"
    /\ target = Router
    /\ port = 1
    /\ session = None
    /\ left = 0
    /\ progress = Idle
    /\ asked = FALSE
    /\ starts = 0
    /\ unheard = 0
    /\ accepted = 0
    /\ denied = FALSE
    /\ outcome = "none"
    /\ confirmed = FALSE
    /\ refused = [n \in Node |-> {}]

-----------------------------------------------------------------------------
(***************************************************************************)
(* The pieces of an install.                                               *)
(***************************************************************************)
\* A command makes the target start its update.  The client may hear of it,
\* or the answer is lost: a timeout, a dropped connection, or a text that is
\* none of the accepted ones.
Begins(heard) ==
    /\ Answering(target)
    /\ dev' = [dev EXCEPT ![target] = "updating"]
    /\ starts' = starts + 1
    /\ IF heard THEN accepted' = accepted + 1 /\ UNCHANGED unheard
       ELSE unheard' = unheard + 1 /\ UNCHANGED accepted

\* An answer that is taken for a start although nothing starts: a success
\* whose body, where RCI reports its errors, is not looked at or says nothing.
Claims ==
    /\ accepted' = accepted + 1
    /\ UNCHANGED <<dev, starts, unheard>>

\* A command, or a read, that starts nothing.
Nothing == UNCHANGED <<dev, starts, unheard, accepted>>

Running == UNCHANGED <<asked, outcome>>

Goto(s) ==
    /\ step' = s
    /\ Running
    /\ UNCHANGED <<progress, port, session, left>>

\* The end of async_install: its locals are gone, the progress is cleared on
\* every way out, and only a success asks for an update check.
End(how) ==
    /\ step' = "none"
    /\ port' = 1
    /\ session' = None
    /\ left' = 0
    /\ progress' = Idle
    /\ outcome' = how
    /\ asked' = (how = "success" \/ asked)

Kept == UNCHANGED <<fw, dead, payload, target, confirmed>>

SameSessions == UNCHANGED <<issued, cached, refused>>

\* async_install is called: the entity offers an update, no install runs.
Called(d) ==
    /\ step = "none"
    /\ Offered(payload[d])
    /\ target' = d
    /\ starts' = 0
    /\ unheard' = 0
    /\ accepted' = 0
    /\ denied' = FALSE
    /\ confirmed' = FALSE
    /\ UNCHANGED <<device, payload, cached, port, session, left, refused>>

StartRouter ==
    /\ Called(Router)
    /\ step' = "version"
    /\ progress' = 0
    /\ outcome' = "none"
    /\ UNCHANGED asked

\* A node whose row carries no address is refused at once.
StartNode ==
    /\ \E n \in Node : Called(n)
    /\ \/ step' = "member" /\ outcome' = "none"
       \/ step' = "none" /\ outcome' = "failed"
    /\ UNCHANGED <<progress, asked>>

\* Home Assistant stops: the install's task is cancelled at its await.
Cancel ==
    /\ step # "none"
    /\ End("cancelled")
    /\ Nothing
    /\ Kept
    /\ SameSessions
    /\ UNCHANGED denied

-----------------------------------------------------------------------------
(***************************************************************************)
(* The controller: async_start_firmware_update and the wait after it.      *)
(***************************************************************************)
\* show/version: the installed components, if this firmware has any.
ShowVersion ==
    /\ step = "version"
    /\ \/ Answering(Router) /\ Goto("stage")
       \/ Answering(Router) /\ Goto("update")
       \/ End("failed")
    /\ Nothing
    /\ Kept
    /\ SameSessions
    /\ UNCHANGED denied

\* Stage the components; only a missing endpoint leads to the older command.
Stage ==
    /\ step = "stage"
    /\ \/ Answering(Router) /\ Goto("commit")
       \/ Answering(Router) /\ Goto("update")
       \/ End("failed")
    /\ Nothing
    /\ Kept
    /\ SameSessions
    /\ UNCHANGED denied

\* Any success of the commit is taken for a start.
Commit ==
    /\ step = "commit"
    /\ \/ Begins(TRUE) /\ Goto("probe")
       \/ Claims /\ Answering(Router) /\ Goto("probe")
       \/ Nothing /\ Answering(Router) /\ Goto("update")
       \/ (Nothing \/ Begins(FALSE)) /\ End("failed")
    /\ Kept
    /\ SameSessions
    /\ UNCHANGED denied

\* The body must say that the update started.
SystemUpdate ==
    /\ step = "update"
    /\ \/ Begins(TRUE) /\ Goto("probe")
       \/ (Nothing \/ Begins(FALSE)) /\ End("failed")
    /\ Kept
    /\ SameSessions
    /\ UNCHANGED denied

\* async_get_update_progress: an update in progress, or else nothing; a failed
\* read is an empty one.
InProgress == dev[Router] = "updating"

\* One read of the progress decides how the install waits.
Probe ==
    /\ step = "probe"
    /\ left' = Polls
    /\ \/ InProgress /\ step' = "progress" /\ UNCHANGED progress
       \/ step' = "reboot" /\ progress' = 50
    /\ Running
    /\ Nothing
    /\ Kept
    /\ SameSessions
    /\ UNCHANGED <<port, session, denied>>

\* A change that would break the code: wait for as long as it takes.
PollForever ==
    /\ left > 0
    /\ UNCHANGED left
    /\ Running
    /\ UNCHANGED <<step, port, session>>

PollAgain ==
    /\ left > 0
    /\ left' = left - 1
    /\ Running
    /\ UNCHANGED <<step, port, session>>

PollProgress ==
    /\ step = "progress"
    /\ \/ /\ PollAgain
          /\ InProgress
          /\ progress' \in Percent \cup {progress}
       \/ End("success")
    /\ Nothing
    /\ Kept
    /\ SameSessions
    /\ UNCHANGED denied

\* Without a progress endpoint: read system info until the connection is
\* lost.  Rejected credentials fail the install.
PollReboot ==
    /\ step = "reboot"
    /\ \/ /\ PollAgain
          /\ Answering(Router)
          /\ UNCHANGED <<progress, denied>>
       \/ End("success") /\ UNCHANGED denied
       \/ left > 0 /\ End("failed") /\ denied' = TRUE
    /\ Nothing
    /\ Kept
    /\ SameSessions

-----------------------------------------------------------------------------
(***************************************************************************)
(* A mesh node: async_start_node_firmware_update and the wait after it.    *)
(***************************************************************************)
\* Only an accepted start ends the sequence; then the entity waits.
Await ==
    /\ step' = "confirm"
    /\ left' = Polls
    /\ Running
    /\ UNCHANGED <<progress, port, session>>

NextPort ==
    IF port < Ports
    THEN /\ port' = port + 1
         /\ step' = "sign"
         /\ Running
         /\ UNCHANGED <<progress, session, left>>
    ELSE End("failed")

\* "mws member <cid> update start" on the controller. An answer without an
\* error message is taken for a start; anything else falls back to the node
\* itself, if its address is one.
Member ==
    /\ step = "member"
    /\ \/ Answering(Router) /\ (Begins(TRUE) \/ Claims) /\ Await
       \/ /\ Nothing \/ (Answering(Router) /\ Begins(FALSE))
          /\ Goto("sign") \/ End("failed")
    /\ Kept
    /\ SameSessions
    /\ UNCHANGED denied

Signed(s) ==
    /\ session' = s
    /\ step' = "nodeVersion"
    /\ Running
    /\ UNCHANGED <<progress, port, left>>

\* _authenticate_to_node: the cached session, else a handshake. One that
\* yields no cookie leaves nothing worth caching.
SignCached ==
    /\ step = "sign"
    /\ cached[target][port] # None
    /\ Signed(cached[target][port])
    /\ Nothing
    /\ Kept
    /\ SameSessions
    /\ UNCHANGED denied

SignFresh ==
    /\ step = "sign"
    /\ cached[target][port] = None
    /\ Answering(target)
    /\ issued[target] < MaxSessions
    /\ issued' = [issued EXCEPT ![target] = @ + 1]
    /\ cached' = [cached EXCEPT ![target][port] = issued'[target]]
    /\ Signed(issued'[target])
    /\ Nothing
    /\ Kept
    /\ UNCHANGED <<denied, refused>>

SignFailed ==
    /\ step = "sign"
    /\ cached[target][port] = None
    /\ NextPort
    /\ Nothing
    /\ Kept
    /\ SameSessions
    /\ UNCHANGED denied

\* The node takes the request as one of a session it knows.
Admitted == Answering(target) /\ session > dead[target]

\* A change that would break the code: the rejected session stays cached.
DroppedNowhere(c) == c

\* 401: the cached session is dropped, and the port given up.
Dropped(c) == [c EXCEPT ![target][port] = None]

NodeRejects ==
    /\ step \in DirectStep
    /\ Answering(target)
    /\ cached' = Dropped(cached)
    /\ refused' = [refused EXCEPT ![target] = @ \cup {session}]
    /\ NextPort
    /\ Nothing
    /\ Kept
    /\ UNCHANGED <<issued, denied>>

\* show/version: a timeout gives the port up, any other trouble leads to the
\* older command.
NodeVersion ==
    /\ step = "nodeVersion"
    /\ \/ Admitted /\ Goto("nodeStage")
       \/ Goto("nodeUpdate")
       \/ NextPort
    /\ Nothing
    /\ Kept
    /\ SameSessions
    /\ UNCHANGED denied

NodeStage ==
    /\ step = "nodeStage"
    /\ \/ Admitted /\ Goto("nodeCommit")
       \/ Goto("nodeUpdate")
       \/ NextPort
    /\ Nothing
    /\ Kept
    /\ SameSessions
    /\ UNCHANGED denied

\* A change that would break the code: no return after an accepted commit.
NodeCommitGoesOn ==
    /\ step = "nodeCommit"
    /\ \/ Admitted /\ (Begins(TRUE) \/ Claims) /\ Goto("nodeUpdate")
       \/ /\ Nothing \/ (Admitted /\ Begins(FALSE))
          /\ Goto("nodeUpdate") \/ NextPort
    /\ Kept
    /\ SameSessions
    /\ UNCHANGED denied

\* A refused commit, or a dropped connection, leads to the older command; of
\* an answer only the HTTP status counts, here and in NodeUpdate.
NodeCommit ==
    /\ step = "nodeCommit"
    /\ \/ Admitted /\ (Begins(TRUE) \/ Claims) /\ Await
       \/ /\ Nothing \/ (Admitted /\ Begins(FALSE))
          /\ Goto("nodeUpdate") \/ NextPort
    /\ Kept
    /\ SameSessions
    /\ UNCHANGED denied

NodeUpdate ==
    /\ step = "nodeUpdate"
    /\ \/ Admitted /\ (Begins(TRUE) \/ Claims) /\ Await
       \/ /\ Nothing \/ (Admitted /\ Begins(FALSE))
          /\ NextPort
    /\ Kept
    /\ SameSessions
    /\ UNCHANGED denied

\* A change that would break the code: two missing versions are equal too.
ShownWithoutVersions(p) == p.fw = p.avail

\* The payload shows the node on the version it offers.
Shown(p) == p.fw # Blank /\ p.avail # Blank /\ p.fw = p.avail

\* Each poll asks for a refresh and looks at the row; without an answer in
\* time the install ends all the same.
Confirm ==
    /\ step = "confirm"
    /\ \/ /\ left > 0
          /\ Shown(payload[target])
          /\ confirmed' = TRUE
          /\ End("success")
       \/ /\ left > 0
          /\ ~Shown(payload[target])
          /\ PollAgain
          /\ UNCHANGED <<progress, confirmed>>
       \/ left = 0 /\ End("success") /\ UNCHANGED confirmed
    /\ Nothing
    /\ SameSessions
    /\ UNCHANGED <<fw, dead, payload, target, denied>>

-----------------------------------------------------------------------------
Controller ==
    ShowVersion \/ Stage \/ Commit \/ SystemUpdate
        \/ Probe \/ PollProgress \/ PollReboot

Direct ==
    Member \/ SignCached \/ SignFresh \/ SignFailed \/ NodeRejects
        \/ NodeVersion \/ NodeStage \/ NodeCommit \/ NodeUpdate \/ Confirm

Next ==
    \/ Tick \/ Down \/ Up
    \/ StartRouter \/ StartNode \/ Cancel
    \/ Controller \/ Direct

Spec == Init /\ [][Next]_vars

\* Every await of an install returns: requests have a timeout, waits are
\* sleeps. Nothing is assumed of the devices.
FairSpec == Spec /\ WF_vars(Controller) /\ WF_vars(Direct)

-----------------------------------------------------------------------------
TypeOK ==
    /\ fw \in [Device -> {Old, Latest}]
    /\ dev \in [Device -> {"up", "updating", "flashing", "down"}]
    /\ issued \in [Node -> Nat]
    /\ dead \in [Node -> Nat]
    /\ payload \in [Device -> [fw : Version, avail : Version]]
    /\ cached \in [Node -> [1 .. Ports -> Nat]]
    /\ step \in {"none"} \cup RouterStep \cup NodeStep
    /\ target \in Device
    /\ step \in RouterStep => target = Router
    /\ step \in NodeStep => target \in Node
    /\ port \in 1 .. Ports
    /\ session \in Nat
    /\ left \in 0 .. Polls
    /\ progress \in {Idle} \cup 0 .. 100
    /\ asked \in BOOLEAN
    /\ starts \in Nat
    /\ unheard \in Nat
    /\ accepted \in Nat
    /\ denied \in BOOLEAN
    /\ outcome \in {"none", "success", "failed", "cancelled"}
    /\ confirmed \in BOOLEAN
    /\ refused \in [Node -> SUBSET Nat]

\* An install takes one answer for a start at most: none before it waits, and
\* none behind a failure, unless the credentials were rejected during the wait
\* (system.py:166-204, 242, 380, 438).  So no fallback sends another command
\* after an accepted one, which would install twice; a device that was made to
\* start more often had its earlier answers lost; and success means accepted.
\* It does not mean started: see Claims.
AcceptedOnce ==
    /\ accepted \in 0 .. 1
    /\ step # "none" => (accepted = 1 <=>
                            step \in {"probe", "progress", "reboot", "confirm"})
    /\ step = "none" /\ outcome = "success" => accepted = 1
    /\ step = "none" /\ outcome = "failed" => (accepted = 1 <=> denied)
    /\ starts <= unheard + accepted

\* A session that a node has answered with 401 is never sent to it again
\* (system.py:290, 337, 383, 428): a restarted node would otherwise lock its
\* own updates out until Home Assistant restarts.
NeverReoffered == step \in DirectStep => session \notin refused[target]

\* An install that ends early, because the payload shows the offered
\* version, is right about the device: not the row of before the update, nor
\* one without versions, as the client list gives it (update.py:455-463).
ConfirmedIsReal == confirmed => fw[target] = Latest

\* Every install ends, whatever the device answers or fails to.
InstallEnds == step # "none" ~> step = "none"

=============================================================================
