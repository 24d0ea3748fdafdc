------------------------ MODULE FirmwareInstallProofs ------------------------
(***************************************************************************)
(* Proofs about FirmwareInstall, for any mesh, any number of ports, polls  *)
(* and sessions: what an install may say, which sessions it offers and how *)
(* many answers it takes for a start.                                      *)
(***************************************************************************)
EXTENDS FirmwareInstall, TLAPS

-----------------------------------------------------------------------------
(***************************************************************************)
(* Types, in four parts.                                                   *)
(***************************************************************************)
DevicesOK ==
    /\ fw \in [Device -> {Old, Latest}]
    /\ dev \in [Device -> {"up", "updating", "flashing", "down"}]
    /\ issued \in [Node -> Nat]
    /\ dead \in [Node -> Nat]
    /\ payload \in [Device -> [fw : Version, avail : Version]]

CacheOK ==
    /\ cached \in [Node -> [1 .. Ports -> Nat]]
    /\ refused \in [Node -> SUBSET Nat]

InstallOK ==
    /\ step \in {"none"} \cup RouterStep \cup NodeStep
    /\ target \in Device
    /\ step \in RouterStep => target = Router
    /\ step \in NodeStep => target \in Node
    /\ port \in 1 .. Ports
    /\ session \in Nat
    /\ left \in 0 .. Polls
    /\ progress \in {Idle} \cup 0 .. 100
    /\ asked \in BOOLEAN
    /\ outcome \in {"none", "success", "failed", "cancelled"}

HistoryOK ==
    /\ starts \in Nat
    /\ unheard \in Nat
    /\ accepted \in Nat
    /\ denied \in BOOLEAN
    /\ confirmed \in BOOLEAN

LEMMA TypeParts == TypeOK <=> DevicesOK /\ CacheOK /\ InstallOK /\ HistoryOK
BY DEF TypeOK, DevicesOK, CacheOK, InstallOK, HistoryOK

LEMMA TypePartsNext == TypeOK' <=> DevicesOK' /\ CacheOK' /\ InstallOK' /\ HistoryOK'
BY DEF TypeOK, DevicesOK, CacheOK, InstallOK, HistoryOK

LEMMA Steps ==
    /\ "none" \notin RouterStep /\ "none" \notin NodeStep
    /\ RouterStep \cap NodeStep = {} /\ DirectStep \subseteq NodeStep
    /\ "member" \notin DirectStep /\ "sign" \notin DirectStep /\ "confirm" \notin DirectStep
BY DEF RouterStep, NodeStep, DirectStep

\* What a command does to the tallies: its answer is taken for a start, or not.
Taken == /\ accepted' = accepted + 1 /\ unheard' = unheard
         /\ starts' \in {starts, starts + 1}

Passed == /\ accepted' = accepted
          /\ \/ starts' = starts /\ unheard' = unheard
             \/ starts' = starts + 1 /\ unheard' = unheard + 1

LEMMA Tallies ==
    /\ Begins(TRUE) \/ Claims => Taken
    /\ Begins(FALSE) \/ Nothing => Passed
    /\ Nothing => UNCHANGED <<starts, unheard, accepted>>
BY DEF Begins, Claims, Nothing, Taken, Passed

LEMMA CommandType ==
    ASSUME TypeOK, Kept, UNCHANGED issued,
           \/ Nothing \/ Claims
           \/ \E heard \in BOOLEAN : Begins(heard)
    PROVE  DevicesOK' /\ starts' \in Nat /\ unheard' \in Nat /\ accepted' \in Nat
<1>1. dev' \in [Device -> {"up", "updating", "flashing", "down"}]
  BY DEF TypeOK, Nothing, Claims, Begins
<1>2. starts \in Nat /\ unheard \in Nat /\ accepted \in Nat
  BY DEF TypeOK
<1>3. Taken \/ Passed
  BY Tallies
<1>4. starts' \in Nat /\ unheard' \in Nat /\ accepted' \in Nat
  BY <1>2, <1>3 DEF Taken, Passed
<1> QED BY <1>1, <1>4 DEF TypeOK, DevicesOK, Kept

LEMMA GotoType ==
    ASSUME TypeOK, NEW s, Goto(s), target' = target,
           \/ s \in RouterStep /\ target = Router
           \/ s \in NodeStep /\ target \in Node
    PROVE  InstallOK'
BY Steps DEF TypeOK, InstallOK, Goto, Running

LEMMA EndType ==
    ASSUME TypeOK, NEW how \in {"success", "failed", "cancelled"}, End(how),
           target' = target
    PROVE  InstallOK'
<1>1. 1 \in 1 .. Ports /\ 0 \in 0 .. Polls
  BY BoundAssumption DEF BoundAssumption
<1>2. asked' \in BOOLEAN
  BY DEF End, TypeOK
<1>3. step' = "none" /\ step' \notin RouterStep /\ step' \notin NodeStep
  BY Steps DEF End
<1> QED BY <1>1, <1>2, <1>3 DEF TypeOK, InstallOK, End, None

LEMMA NextPortType ==
    ASSUME TypeOK, NextPort, target' = target, target \in Node
    PROVE  /\ InstallOK'
           /\ \/ step' = "sign" /\ outcome' = outcome
              \/ step' = "none" /\ outcome' = "failed"
<1>1. CASE port < Ports
  <2>1. port' = port + 1 /\ port' \in 1 .. Ports
    BY <1>1, BoundAssumption DEF NextPort, TypeOK, BoundAssumption
  <2>2. step' = "sign" /\ step' \in NodeStep /\ step' \notin RouterStep
    BY <1>1 DEF NextPort, NodeStep, RouterStep
  <2> QED BY <1>1, <2>1, <2>2 DEF NextPort, TypeOK, InstallOK, Running
<1>2. CASE ~(port < Ports)
  <2>1. End("failed")
    BY <1>2 DEF NextPort
  <2> QED BY <2>1, EndType DEF End
<1> QED BY <1>1, <1>2

LEMMA AwaitType ==
    ASSUME TypeOK, Await, target' = target, target \in Node
    PROVE  InstallOK' /\ step' = "confirm" /\ outcome' = outcome
<1>1. Polls \in 0 .. Polls
  BY BoundAssumption DEF BoundAssumption
<1>2. step' = "confirm" /\ step' \in NodeStep /\ step' \notin RouterStep
  BY DEF Await, NodeStep, RouterStep
<1> QED BY <1>1, <1>2 DEF Await, TypeOK, InstallOK, Running

LEMMA PollAgainType ==
    ASSUME TypeOK, PollAgain, target' = target, progress' \in {Idle} \cup 0 .. 100
    PROVE  InstallOK'
<1>1. left' \in 0 .. Polls
  BY BoundAssumption DEF BoundAssumption, PollAgain, TypeOK
<1> QED BY <1>1 DEF PollAgain, TypeOK, InstallOK, Running

LEMMA SessionsKept ==
    ASSUME TypeOK, SameSessions PROVE CacheOK' /\ UNCHANGED issued
BY DEF TypeOK, CacheOK, SameSessions

\* An action of a running install that grants no session and whose target and
\* confirmation stay: what is left to show.
LEMMA Ordinary ==
    ASSUME TypeOK, Kept, SameSessions, InstallOK', denied' \in BOOLEAN,
           \/ Nothing \/ Claims
           \/ \E heard \in BOOLEAN : Begins(heard)
    PROVE  TypeOK'
<1>1. CacheOK' /\ UNCHANGED issued
  BY SessionsKept
<1>2. DevicesOK' /\ starts' \in Nat /\ unheard' \in Nat /\ accepted' \in Nat
  BY <1>1, CommandType
<1>3. confirmed' \in BOOLEAN
  BY DEF Kept, TypeOK
<1> QED BY <1>1, <1>2, <1>3, TypePartsNext DEF HistoryOK

LEMMA WorldTypes ==
    ASSUME TypeOK, Tick \/ Down \/ Up PROVE TypeOK'
<1>1. CASE Tick
  <2>1. PICK d \in Device : \E r \in Readings(d) : payload' = [payload EXCEPT ![d] = r]
    BY <1>1 DEF Tick
  <2>2. Readings(d) \subseteq [fw : Version, avail : Version]
    <3>1. fw[d] \in Version /\ Old \in Version /\ Latest \in Version /\ Blank \in Version
      BY DEF TypeOK, Version
    <3> QED BY <3>1 DEF Readings
  <2>3. payload' \in [Device -> [fw : Version, avail : Version]]
    BY <2>1, <2>2 DEF TypeOK
  <2> QED BY <1>1, <2>3 DEF Tick, TypeOK, device, history
<1>2. CASE Down
  <2>1. dev' \in [Device -> {"up", "updating", "flashing", "down"}]
    BY <1>2 DEF Down, TypeOK
  <2> QED BY <1>2, <2>1 DEF Down, TypeOK, install, history
<1>3. CASE Up
  <2>1. PICK d \in Device :
          /\ \E v \in IF dev[d] = "flashing" THEN {fw[d], Latest} ELSE {fw[d]} :
                 fw' = [fw EXCEPT ![d] = v]
          /\ dev' = [dev EXCEPT ![d] = "up"]
          /\ dead' = IF d \in Node THEN [dead EXCEPT ![d] = issued[d]] ELSE dead
    BY <1>3 DEF Up
  <2>2. fw' \in [Device -> {Old, Latest}]
    BY <2>1 DEF TypeOK
  <2>3. dev' \in [Device -> {"up", "updating", "flashing", "down"}]
    BY <2>1 DEF TypeOK
  <2>4. dead' \in [Node -> Nat]
    BY <2>1 DEF TypeOK
  <2> QED BY <1>3, <2>2, <2>3, <2>4 DEF Up, TypeOK, install, history
<1> QED BY <1>1, <1>2, <1>3

LEMMA StartTypes ==
    ASSUME TypeOK, StartRouter \/ StartNode \/ Cancel PROVE TypeOK'
<1>1. CASE StartRouter
  <2>1. InstallOK'
    <3>1. step' = "version" /\ step' \in RouterStep /\ step' \notin NodeStep
      BY <1>1 DEF StartRouter, RouterStep, NodeStep, DirectStep
    <3>2. target' = Router /\ Router \in Device /\ progress' = 0 /\ outcome' = "none"
      BY <1>1 DEF StartRouter, Called, Device
    <3> QED BY <1>1, <3>1, <3>2 DEF StartRouter, Called, TypeOK, InstallOK
  <2>2. HistoryOK' /\ DevicesOK' /\ CacheOK'
    BY <1>1 DEF StartRouter, Called, TypeOK, HistoryOK, DevicesOK, CacheOK, device
  <2> QED BY <2>1, <2>2, TypePartsNext
<1>2. CASE StartNode
  <2> PICK n \in Node : Called(n)
    BY <1>2 DEF StartNode
  <2>1. InstallOK'
    <3>1. \/ step' = "member" /\ step' \in NodeStep /\ outcome' = "none"
          \/ step' = "none" /\ step' \notin NodeStep /\ outcome' = "failed"
      BY <1>2, Steps DEF StartNode, NodeStep
    <3>2. step' \notin RouterStep
      BY <3>1, Steps
    <3>3. target' \in Node /\ target' \in Device
      BY DEF Called, Device
    <3> QED BY <1>2, <3>1, <3>2, <3>3 DEF StartNode, Called, TypeOK, InstallOK
  <2>2. HistoryOK' /\ DevicesOK' /\ CacheOK'
    BY DEF Called, TypeOK, HistoryOK, DevicesOK, CacheOK, device
  <2> QED BY <2>1, <2>2, TypePartsNext
<1>3. CASE Cancel
  <2>1. InstallOK'
    BY <1>3, EndType DEF Cancel, Kept
  <2> QED BY <1>3, <2>1, Ordinary DEF Cancel, TypeOK
<1> QED BY <1>1, <1>2, <1>3

LEMMA ControllerTypes ==
    ASSUME TypeOK, Controller PROVE TypeOK'
<1>k. /\ Kept /\ SameSessions /\ target' = target
      /\ step \in RouterStep /\ target = Router /\ denied' \in BOOLEAN
      /\ Nothing \/ Claims \/ \E heard \in BOOLEAN : Begins(heard)
  <2>1. Kept /\ SameSessions /\ step \in RouterStep
    BY DEF Controller, ShowVersion, Stage, Commit, SystemUpdate, Probe, PollProgress,
           PollReboot, RouterStep
  <2>2. denied' \in BOOLEAN
    BY DEF Controller, ShowVersion, Stage, Commit, SystemUpdate, Probe, PollProgress,
           PollReboot, TypeOK
  <2>3. Nothing \/ Claims \/ \E heard \in BOOLEAN : Begins(heard)
    BY DEF Controller, ShowVersion, Stage, Commit, SystemUpdate, Probe, PollProgress,
           PollReboot
  <2> QED BY <2>1, <2>2, <2>3 DEF Kept, TypeOK
<1>1. CASE ShowVersion \/ Stage \/ Commit \/ SystemUpdate
  <2>1. \/ \E s \in RouterStep : Goto(s)
        \/ End("failed")
    BY <1>1 DEF ShowVersion, Stage, Commit, SystemUpdate, RouterStep
  <2>2. InstallOK'
    BY <1>k, <2>1, GotoType, EndType
  <2> QED BY <1>k, <2>2, Ordinary
<1>2. CASE Probe
  <2>1. /\ step' \in RouterStep /\ step' \notin NodeStep /\ left' = Polls
        /\ Polls \in 0 .. Polls
        /\ progress' \in {Idle} \cup 0 .. 100
    BY <1>2, BoundAssumption
    DEF Probe, RouterStep, NodeStep, DirectStep, BoundAssumption, TypeOK
  <2>2. InstallOK'
    BY <1>2, <1>k, <2>1 DEF Probe, Running, TypeOK, InstallOK
  <2> QED BY <1>k, <2>2, Ordinary
<1>3. CASE PollProgress
  <2>1. \/ PollAgain /\ progress' \in Percent \cup {progress}
        \/ End("success")
    BY <1>3 DEF PollProgress
  <2>2. InstallOK'
    BY <1>k, <2>1, PollAgainType, EndType, BoundAssumption DEF BoundAssumption, TypeOK
  <2> QED BY <1>k, <2>2, Ordinary
<1>4. CASE PollReboot
  <2>1. \/ PollAgain /\ progress' = progress
        \/ End("success")
        \/ End("failed")
    BY <1>4 DEF PollReboot
  <2>2. InstallOK'
    BY <1>k, <2>1, PollAgainType, EndType DEF TypeOK
  <2> QED BY <1>k, <2>2, Ordinary
<1> QED BY <1>1, <1>2, <1>3, <1>4 DEF Controller

LEMMA DirectTypes ==
    ASSUME TypeOK, Direct PROVE TypeOK'
<1>k. /\ target' = target /\ target \in Node /\ denied' \in BOOLEAN
      /\ Nothing \/ Claims \/ \E heard \in BOOLEAN : Begins(heard)
  <2>1. target' = target /\ step \in NodeStep
    BY DEF Direct, Member, SignCached, SignFresh, SignFailed, NodeRejects, NodeVersion,
           NodeStage, NodeCommit, NodeUpdate, Confirm, Kept, NodeStep, DirectStep
  <2>2. denied' \in BOOLEAN
    BY DEF Direct, Member, SignCached, SignFresh, SignFailed, NodeRejects, NodeVersion,
           NodeStage, NodeCommit, NodeUpdate, Confirm, TypeOK
  <2>3. Nothing \/ Claims \/ \E heard \in BOOLEAN : Begins(heard)
    BY DEF Direct, Member, SignCached, SignFresh, SignFailed, NodeRejects, NodeVersion,
           NodeStage, NodeCommit, NodeUpdate, Confirm
  <2> QED BY <2>1, <2>2, <2>3 DEF TypeOK
<1>s. ASSUME NEW v \in Nat, Signed(v)
      PROVE  InstallOK'
  <2>1. step' \in NodeStep /\ step' \notin RouterStep
    BY <1>s DEF Signed, NodeStep, DirectStep, RouterStep
  <2> QED BY <1>k, <1>s, <2>1 DEF Signed, Running, TypeOK, InstallOK
<1>1. CASE Member \/ NodeVersion \/ NodeStage \/ NodeCommit \/ NodeUpdate
  <2>1. \/ Await
        \/ NextPort
        \/ End("failed")
        \/ \E s \in NodeStep : Goto(s)
    BY <1>1 DEF Member, NodeVersion, NodeStage, NodeCommit, NodeUpdate, NodeStep, DirectStep
  <2>2. InstallOK'
    BY <1>k, <2>1, AwaitType, NextPortType, EndType, GotoType
  <2>3. Kept /\ SameSessions
    BY <1>1 DEF Member, NodeVersion, NodeStage, NodeCommit, NodeUpdate
  <2> QED BY <1>k, <2>2, <2>3, Ordinary
<1>2. CASE SignCached
  <2>0. cached[target] \in [1 .. Ports -> Nat] /\ port \in 1 .. Ports
    BY <1>k DEF TypeOK
  <2>1. cached[target][port] \in Nat
    BY <2>0
  <2>2. InstallOK'
    BY <1>2, <1>s, <2>1 DEF SignCached
  <2> QED BY <1>2, <1>k, <2>2, Ordinary DEF SignCached
<1>3. CASE SignFailed
  <2>1. InstallOK'
    BY <1>3, <1>k, NextPortType DEF SignFailed
  <2> QED BY <1>3, <1>k, <2>1, Ordinary DEF SignFailed
<1>4. CASE SignFresh
  <2>1. issued' \in [Node -> Nat] /\ issued'[target] \in Nat
    BY <1>4, <1>k DEF SignFresh, TypeOK
  <2>2. cached' \in [Node -> [1 .. Ports -> Nat]]
    BY <1>4, <1>k, <2>1 DEF SignFresh, TypeOK
  <2>3. InstallOK'
    BY <1>4, <1>s, <2>1 DEF SignFresh
  <2>4. DevicesOK' /\ CacheOK' /\ HistoryOK'
    BY <1>4, <1>k, <2>1, <2>2
    DEF SignFresh, Nothing, Kept, TypeOK, DevicesOK, CacheOK, HistoryOK
  <2> QED BY <2>3, <2>4, TypePartsNext
<1>5. CASE NodeRejects
  <2>1. cached' \in [Node -> [1 .. Ports -> Nat]]
    BY <1>5 DEF NodeRejects, Dropped, TypeOK, None
  <2>2. refused' \in [Node -> SUBSET Nat]
    BY <1>5, <1>k DEF NodeRejects, TypeOK
  <2>3. InstallOK'
    BY <1>5, <1>k, NextPortType DEF NodeRejects
  <2>4. DevicesOK' /\ CacheOK' /\ HistoryOK'
    BY <1>5, <1>k, <2>1, <2>2
    DEF NodeRejects, Nothing, Kept, TypeOK, DevicesOK, CacheOK, HistoryOK
  <2> QED BY <2>3, <2>4, TypePartsNext
<1>6. CASE Confirm
  <2>1. (PollAgain /\ UNCHANGED progress) \/ End("success")
    BY <1>6 DEF Confirm
  <2>2. InstallOK'
    BY <1>k, <2>1, PollAgainType, EndType DEF TypeOK
  <2>3. confirmed' \in BOOLEAN
    BY <1>6 DEF Confirm, TypeOK
  <2>4. DevicesOK' /\ CacheOK' /\ HistoryOK'
    BY <1>6, <1>k, <2>3
    DEF Confirm, Nothing, SameSessions, TypeOK, DevicesOK, CacheOK, HistoryOK
  <2> QED BY <2>2, <2>4, TypePartsNext
<1> QED BY <1>1, <1>2, <1>3, <1>4, <1>5, <1>6 DEF Direct

LEMMA Inductive == TypeOK /\ [Next]_vars => TypeOK'
<1>1. TypeOK /\ UNCHANGED vars => TypeOK'
  BY DEF vars, device, install, history, TypeOK
<1> QED BY <1>1, WorldTypes, StartTypes, ControllerTypes, DirectTypes DEF Next

LEMMA Initially == Init => TypeOK
<1> SUFFICES ASSUME Init PROVE TypeOK
  OBVIOUS
<1>1. DevicesOK /\ CacheOK
  BY DEF Init, DevicesOK, CacheOK, Version, None
<1>2. 1 \in 1 .. Ports /\ 0 \in 0 .. Polls
  BY BoundAssumption DEF BoundAssumption
<1>3. InstallOK
  BY <1>2, Steps DEF Init, InstallOK, Device, None
<1>4. HistoryOK
  BY DEF Init, HistoryOK
<1> QED BY <1>1, <1>3, <1>4, TypeParts

\* Every variable keeps its type, and a wait is for the device it started on.
THEOREM TypeCorrect == Spec => []TypeOK
BY Initially, Inductive, PTL DEF Spec

-----------------------------------------------------------------------------
(***************************************************************************)
(* Answers that were taken for a start.                                    *)
(***************************************************************************)
Waits == step \in {"probe", "progress", "reboot", "confirm"}

\* A running install has no outcome yet.
Phase == step # "none" => outcome = "none" /\ denied = FALSE

\* How a step that is not the last may go on, and how an install may end.
LEMMA WaysOn ==
    /\ \A s : Goto(s) => step' = s /\ outcome' = outcome
    /\ \A how : End(how) => step' = "none" /\ outcome' = how
    /\ Await => step' = "confirm" /\ outcome' = outcome
    /\ PollAgain => step' = step /\ outcome' = outcome
    /\ NextPort => \/ step' = "sign" /\ outcome' = outcome
                   \/ step' = "none" /\ outcome' = "failed"
    /\ \A v : Signed(v) => step' = "nodeVersion" /\ outcome' = outcome
BY DEF Goto, End, Await, PollAgain, NextPort, Signed, Running

LEMMA AcceptedInductive ==
    TypeOK /\ Phase /\ AcceptedOnce /\ [Next]_vars => Phase' /\ AcceptedOnce'
<1> SUFFICES ASSUME TypeOK, Phase, AcceptedOnce, [Next]_vars PROVE Phase' /\ AcceptedOnce'
  OBVIOUS
<1>t. starts \in Nat /\ unheard \in Nat /\ accepted \in Nat /\ denied \in BOOLEAN
  BY DEF TypeOK
<1>r. ASSUME step # "none"
      PROVE  /\ outcome = "none" /\ denied = FALSE
             /\ accepted = (IF Waits THEN 1 ELSE 0) /\ starts <= unheard + accepted
  BY <1>r, <1>t DEF Phase, AcceptedOnce, Waits
<1>1. CASE Tick \/ Down \/ Up \/ UNCHANGED vars
  <2>1. UNCHANGED <<step, outcome, denied, starts, unheard, accepted>>
    BY <1>1 DEF Tick, Down, Up, vars, install, history
  <2> QED BY <2>1 DEF Phase, AcceptedOnce
<1>2. CASE StartRouter \/ StartNode
  <2>1. /\ starts' = 0 /\ unheard' = 0 /\ accepted' = 0 /\ denied' = FALSE
        /\ \/ step' \in {"version", "member"} /\ outcome' = "none"
           \/ step' = "none" /\ outcome' = "failed"
    BY <1>2 DEF StartRouter, StartNode, Called
  <2> QED BY <2>1 DEF Phase, AcceptedOnce
<1>3. CASE Cancel
  <2>1. /\ step # "none" /\ step' = "none" /\ outcome' = "cancelled" /\ denied' = denied
        /\ starts' = starts /\ unheard' = unheard /\ accepted' = accepted
    BY <1>3, Tallies, WaysOn DEF Cancel
  <2> QED BY <1>r, <1>t, <2>1 DEF Phase, AcceptedOnce, Waits
<1>4. CASE ShowVersion \/ Stage
  <2>1. /\ step # "none" /\ ~Waits /\ denied' = denied
        /\ starts' = starts /\ unheard' = unheard /\ accepted' = accepted
        /\ \/ step' \in {"stage", "commit", "update"} /\ outcome' = outcome
           \/ step' = "none" /\ outcome' = "failed"
    BY <1>4, Tallies, WaysOn DEF ShowVersion, Stage, Waits
  <2> QED BY <1>r, <1>t, <2>1 DEF Phase, AcceptedOnce
<1>5. CASE Commit \/ SystemUpdate
  <2>1. /\ step # "none" /\ ~Waits /\ denied' = denied
        /\ \/ Taken /\ step' = "probe" /\ outcome' = outcome
           \/ Passed /\ step' = "update" /\ outcome' = outcome
           \/ Passed /\ step' = "none" /\ outcome' = "failed"
    BY <1>5, WaysOn, Tallies DEF Commit, SystemUpdate, Waits
  <2>2. /\ outcome = "none" /\ denied' = FALSE
        /\ accepted = 0 /\ starts <= unheard
    BY <1>r, <1>t, <2>1
  <2>3. CASE Taken /\ step' = "probe" /\ outcome' = outcome
    BY <1>t, <2>2, <2>3 DEF Taken, Phase, AcceptedOnce
  <2>4. CASE Passed /\ step' = "update" /\ outcome' = outcome
    BY <1>t, <2>2, <2>4 DEF Passed, Phase, AcceptedOnce
  <2>5. CASE Passed /\ step' = "none" /\ outcome' = "failed"
    BY <1>t, <2>2, <2>5 DEF Passed, Phase, AcceptedOnce
  <2> QED BY <2>1, <2>3, <2>4, <2>5
<1>6. CASE Probe \/ PollProgress
  <2>1. /\ step # "none" /\ Waits /\ denied' = denied
        /\ starts' = starts /\ unheard' = unheard /\ accepted' = accepted
        /\ \/ step' \in {"progress", "reboot"} /\ outcome' = outcome
           \/ step' = "none" /\ outcome' = "success"
    BY <1>6, Tallies, WaysOn DEF Probe, PollProgress, Waits, Running
  <2> QED BY <1>r, <1>t, <2>1 DEF Phase, AcceptedOnce
<1>7. CASE PollReboot
  <2>1. /\ step # "none" /\ Waits
        /\ starts' = starts /\ unheard' = unheard /\ accepted' = accepted
        /\ \/ step' = "reboot" /\ outcome' = outcome /\ denied' = denied
           \/ step' = "none" /\ outcome' = "success" /\ denied' = denied
           \/ step' = "none" /\ outcome' = "failed" /\ denied' = TRUE
    BY <1>7, Tallies, WaysOn DEF PollReboot, Waits
  <2>2. /\ outcome = "none" /\ denied = FALSE
        /\ accepted' = 1 /\ starts' <= unheard' + accepted'
    BY <1>r, <1>t, <2>1
  <2>3. CASE step' = "reboot" /\ outcome' = outcome /\ denied' = denied
    BY <2>2, <2>3 DEF Phase, AcceptedOnce
  <2>4. CASE step' = "none" /\ outcome' = "success" /\ denied' = denied
    BY <2>2, <2>4 DEF Phase, AcceptedOnce
  <2>5. CASE step' = "none" /\ outcome' = "failed" /\ denied' = TRUE
    BY <2>2, <2>5 DEF Phase, AcceptedOnce
  <2> QED BY <2>1, <2>3, <2>4, <2>5
<1>8. CASE Member \/ NodeCommit \/ NodeUpdate
  <2>1. /\ step # "none" /\ ~Waits /\ denied' = denied
        /\ \/ Taken /\ step' = "confirm" /\ outcome' = outcome
           \/ Passed /\ step' \in {"sign", "nodeUpdate"} /\ outcome' = outcome
           \/ Passed /\ step' = "none" /\ outcome' = "failed"
    BY <1>8, WaysOn, Tallies DEF Member, NodeCommit, NodeUpdate, Waits
  <2>2. /\ outcome = "none" /\ denied' = FALSE
        /\ accepted = 0 /\ starts <= unheard
    BY <1>r, <1>t, <2>1
  <2>3. CASE Taken /\ step' = "confirm" /\ outcome' = outcome
    BY <1>t, <2>2, <2>3 DEF Taken, Phase, AcceptedOnce
  <2>4. CASE Passed /\ step' \in {"sign", "nodeUpdate"} /\ outcome' = outcome
    BY <1>t, <2>2, <2>4 DEF Passed, Phase, AcceptedOnce
  <2>5. CASE Passed /\ step' = "none" /\ outcome' = "failed"
    BY <1>t, <2>2, <2>5 DEF Passed, Phase, AcceptedOnce
  <2> QED BY <2>1, <2>3, <2>4, <2>5
<1>9. CASE SignCached \/ SignFresh \/ SignFailed \/ NodeRejects \/ NodeVersion \/ NodeStage
  <2>1. /\ step # "none" /\ ~Waits /\ denied' = denied
        /\ starts' = starts /\ unheard' = unheard /\ accepted' = accepted
        /\ \/ step' \in {"sign"} \cup DirectStep /\ outcome' = outcome
           \/ step' = "none" /\ outcome' = "failed"
    <3>1. step # "none" /\ ~Waits /\ denied' = denied /\ Nothing
      BY <1>9 DEF SignCached, SignFresh, SignFailed, NodeRejects, NodeVersion, NodeStage,
                  DirectStep, Waits
    <3>2. \/ step' \in {"sign"} \cup DirectStep /\ outcome' = outcome
          \/ step' = "none" /\ outcome' = "failed"
      BY <1>9, WaysOn DEF SignCached, SignFresh, SignFailed, NodeRejects, NodeVersion,
                          NodeStage, DirectStep
    <3> QED BY <3>1, <3>2, Tallies
  <2> QED BY <1>r, <1>t, <2>1 DEF Phase, AcceptedOnce, DirectStep
<1>10. CASE Confirm
  <2>1. /\ step # "none" /\ Waits /\ denied' = denied
        /\ starts' = starts /\ unheard' = unheard /\ accepted' = accepted
        /\ \/ step' = "confirm" /\ outcome' = outcome
           \/ step' = "none" /\ outcome' = "success"
    BY <1>10, Tallies, WaysOn DEF Confirm, Waits
  <2> QED BY <1>r, <1>t, <2>1 DEF Phase, AcceptedOnce
<1> QED BY <1>1, <1>2, <1>3, <1>4, <1>5, <1>6, <1>7, <1>8, <1>9, <1>10
        DEF Next, Controller, Direct

\* An install takes one answer for a start exactly if it waits or succeeded, so
\* no command follows an accepted one, and a device that started more often had
\* its earlier answers lost.
THEOREM AcceptedOnceAlways == Spec => []AcceptedOnce
<1>1. Init => Phase /\ AcceptedOnce
  BY DEF Init, Phase, AcceptedOnce
<1> QED BY <1>1, Initially, Inductive, AcceptedInductive, PTL DEF Spec

-----------------------------------------------------------------------------
(***************************************************************************)
(* What the payload says of a device is old, but it was so.                *)
(***************************************************************************)
Truthful ==
    /\ \A d \in Device : /\ payload[d].avail \in {Latest, Blank}
                         /\ payload[d].fw = Latest => fw[d] = Latest
    /\ ConfirmedIsReal

LEMMA TruthfulInductive == TypeOK /\ Truthful /\ [Next]_vars => Truthful'
<1> SUFFICES ASSUME TypeOK, Truthful, [Next]_vars PROVE Truthful'
  OBVIOUS
<1>1. CASE Tick
  <2>1. PICK d \in Device : \E r \in Readings(d) : payload' = [payload EXCEPT ![d] = r]
    BY <1>1 DEF Tick
  <2>2. PICK r \in Readings(d) : payload' = [payload EXCEPT ![d] = r]
    BY <2>1
  <2>3. r.avail \in {Latest, Blank} /\ (r.fw = Latest => fw[d] = Latest)
    BY DEF Readings, Old, Latest, Blank
  <2>4. fw' = fw /\ UNCHANGED <<confirmed, target>>
    BY <1>1 DEF Tick, device, history
  <2>5. \A e \in Device : payload'[e] = IF e = d THEN r ELSE payload[e]
    BY <2>2 DEF TypeOK
  <2> QED BY <2>3, <2>4, <2>5 DEF Truthful, ConfirmedIsReal
<1>2. CASE Up
  <2>1. PICK d \in Device :
          \E v \in IF dev[d] = "flashing" THEN {fw[d], Latest} ELSE {fw[d]} :
              fw' = [fw EXCEPT ![d] = v]
    BY <1>2 DEF Up
  <2>2. \A e \in Device : fw[e] = Latest => fw'[e] = Latest
    BY <2>1 DEF TypeOK
  <2>3. UNCHANGED <<payload, confirmed, target>>
    BY <1>2 DEF Up, install, history
  <2> QED BY <2>2, <2>3 DEF Truthful, ConfirmedIsReal, TypeOK
<1>3. CASE StartRouter \/ StartNode
  <2>1. confirmed' = FALSE /\ fw' = fw /\ payload' = payload
    BY <1>3 DEF StartRouter, StartNode, Called, device
  <2> QED BY <2>1 DEF Truthful, ConfirmedIsReal
<1>4. CASE Confirm
  <2>1. UNCHANGED <<fw, payload, target>>
    BY <1>4 DEF Confirm
  <2>2. confirmed' = confirmed \/ Shown(payload[target])
    BY <1>4 DEF Confirm
  <2>3. Shown(payload[target]) => fw[target] = Latest
    BY DEF Shown, Truthful, TypeOK, Blank
  <2> QED BY <2>1, <2>2, <2>3 DEF Truthful, ConfirmedIsReal
<1>5. CASE \/ Down \/ Cancel \/ Controller \/ UNCHANGED vars
           \/ Member \/ SignCached \/ SignFresh \/ SignFailed \/ NodeRejects
           \/ NodeVersion \/ NodeStage \/ NodeCommit \/ NodeUpdate
  <2>1. UNCHANGED <<fw, payload, target, confirmed>>
    BY <1>5
    DEF Down, Cancel, Controller, ShowVersion, Stage, Commit, SystemUpdate, Probe,
        PollProgress, PollReboot, Member, SignCached, SignFresh, SignFailed, NodeRejects,
        NodeVersion, NodeStage, NodeCommit, NodeUpdate, Kept, vars, device, install, history
  <2> QED BY <2>1 DEF Truthful, ConfirmedIsReal
<1> QED BY <1>1, <1>2, <1>3, <1>4, <1>5 DEF Next, Direct

\* An install that ends early because the payload shows the new version is
\* right about the device.
THEOREM ConfirmedIsRealAlways == Spec => []ConfirmedIsReal
<1>1. Init => Truthful
  BY DEF Init, Truthful, ConfirmedIsReal, Old, Latest
<1>2. Truthful => ConfirmedIsReal
  BY DEF Truthful
<1> QED BY <1>1, <1>2, Initially, Inductive, TruthfulInductive, PTL DEF Spec

-----------------------------------------------------------------------------
(***************************************************************************)
(* Sessions.                                                               *)
(***************************************************************************)
\* A session is cached for one port, was granted, and was not refused; the
\* install sends the one that is cached for its port.
Sessions ==
    /\ \A n \in Node : refused[n] \subseteq 1 .. issued[n]
    /\ \A n \in Node, p \in 1 .. Ports :
          cached[n][p] # None => /\ cached[n][p] \in 1 .. issued[n]
                                 /\ cached[n][p] \notin refused[n]
    /\ \A n \in Node, p, q \in 1 .. Ports :
          cached[n][p] # None /\ cached[n][p] = cached[n][q] => p = q
    /\ step \in DirectStep => session = cached[target][port] /\ session # None

LEMMA CacheSteps ==
    ASSUME TypeOK, Sessions, UNCHANGED <<cached, issued, refused>>,
           step' \in DirectStep => session' = cached[target'][port'] /\ session' # None
    PROVE  Sessions'
BY DEF Sessions

LEMMA SessionsInductive == TypeOK /\ Sessions /\ [Next]_vars => Sessions'
<1> SUFFICES ASSUME TypeOK, Sessions, [Next]_vars PROVE Sessions'
  OBVIOUS
<1>1. CASE \/ Tick \/ Down \/ Up \/ UNCHANGED vars
  <2>1. UNCHANGED <<cached, issued, refused, step, target, port, session>>
    BY <1>1 DEF Tick, Down, Up, vars, device, install, history
  <2> QED BY <2>1, CacheSteps DEF Sessions
<1>2. CASE StartRouter \/ StartNode \/ Cancel \/ Controller \/ Member \/ Confirm \/ SignFailed
  <2>1. UNCHANGED <<cached, issued, refused>>
    BY <1>2 DEF StartRouter, StartNode, Called, Cancel, Controller, ShowVersion, Stage,
                Commit, SystemUpdate, Probe, PollProgress, PollReboot, Member, Confirm,
                SignFailed, SameSessions, device
  <2>2. CASE StartRouter \/ StartNode \/ Cancel
    <3>1. step' \in {"version", "member", "none"}
      BY <2>2, WaysOn DEF StartRouter, StartNode, Cancel
    <3> QED BY <2>1, <3>1, CacheSteps DEF DirectStep
  <2>3. CASE Controller
    <3>1. step' \in RouterStep \cup {"none"}
      BY <2>3, WaysOn
      DEF Controller, ShowVersion, Stage, Commit, SystemUpdate, Probe, PollProgress,
          PollReboot, RouterStep
    <3> QED BY <2>1, <3>1, CacheSteps DEF DirectStep, RouterStep
  <2>4. CASE Member \/ Confirm \/ SignFailed
    <3>1. step' \in {"sign", "confirm", "none"}
      BY <2>4, WaysOn DEF Member, Confirm, SignFailed
    <3> QED BY <2>1, <3>1, CacheSteps DEF DirectStep
  <2> QED BY <1>2, <2>2, <2>3, <2>4
<1>3. CASE SignCached
  <2>1. /\ UNCHANGED <<cached, issued, refused, target, port>>
        /\ session' = cached[target][port] /\ session' # None
    BY <1>3 DEF SignCached, SameSessions, Kept, Signed
  <2> QED BY <2>1, CacheSteps
<1>4. CASE NodeVersion \/ NodeStage \/ NodeCommit \/ NodeUpdate
  <2>1. UNCHANGED <<cached, issued, refused, target>> /\ step \in DirectStep
    BY <1>4 DEF NodeVersion, NodeStage, NodeCommit, NodeUpdate, SameSessions, Kept, DirectStep
  <2>2. step' \in DirectStep => UNCHANGED <<port, session>>
    <3>1. \/ \E s \in DirectStep : Goto(s)
          \/ NextPort \/ Await
      BY <1>4 DEF NodeVersion, NodeStage, NodeCommit, NodeUpdate, DirectStep
    <3>2. NextPort \/ Await => step' \notin DirectStep
      BY WaysOn DEF DirectStep
    <3> QED BY <3>1, <3>2 DEF Goto
  <2> QED BY <2>1, <2>2, CacheSteps DEF Sessions
<1>5. CASE SignFresh
  <2> DEFINE new == issued[target] + 1
  <2>1. /\ target \in Node /\ port \in 1 .. Ports
        /\ issued \in [Node -> Nat] /\ cached \in [Node -> [1 .. Ports -> Nat]]
    BY <1>5 DEF SignFresh, TypeOK, NodeStep
  <2>2. /\ issued' = [issued EXCEPT ![target] = new]
        /\ cached' = [cached EXCEPT ![target][port] = new]
        /\ refused' = refused /\ UNCHANGED <<target, port>> /\ session' = new
    BY <1>5, <2>1 DEF SignFresh, Kept, Signed
  <2>3. new \in Nat /\ new # None /\ new \in 1 .. new
    BY <2>1 DEF None
  <2>4. ASSUME NEW n \in Node PROVE issued'[n] = IF n = target THEN new ELSE issued[n]
    BY <2>1, <2>2
  <2>5. ASSUME NEW n \in Node, NEW p \in 1 .. Ports
        PROVE  cached'[n][p] = IF n = target /\ p = port THEN new ELSE cached[n][p]
    BY <2>1, <2>2
  <2>6. ASSUME NEW n \in Node PROVE (refused[n] \subseteq 1 .. issued[n])'
    <3>1. refused[n] \subseteq 1 .. issued[n]
      BY DEF Sessions
    <3> QED BY <2>1, <2>2, <2>3, <2>4, <3>1
  <2>7. ASSUME NEW n \in Node, NEW p \in 1 .. Ports, cached'[n][p] # None
        PROVE  cached'[n][p] \in 1 .. issued'[n] /\ cached'[n][p] \notin refused'[n]
    <3>1. CASE n = target /\ p = port
      <4>1. new \notin refused[target]
        BY <2>1 DEF Sessions
      <4> QED BY <2>2, <2>3, <2>4, <2>5, <3>1, <4>1
    <3>2. CASE ~(n = target /\ p = port)
      <4>1. cached'[n][p] = cached[n][p]
        BY <2>5, <3>2
      <4>2. cached[n][p] \in 1 .. issued[n] /\ cached[n][p] \notin refused[n]
        BY <2>7, <4>1 DEF Sessions
      <4> QED BY <2>1, <2>2, <2>4, <4>1, <4>2
    <3> QED BY <3>1, <3>2
  <2>8. ASSUME NEW n \in Node, NEW p \in 1 .. Ports, NEW q \in 1 .. Ports,
               cached'[n][p] # None, cached'[n][p] = cached'[n][q]
        PROVE  p = q
    <3>1. \A r \in 1 .. Ports : cached[target][r] # new
      <4> SUFFICES ASSUME NEW r \in 1 .. Ports, cached[target][r] = new PROVE FALSE
        OBVIOUS
      <4>1. cached[target][r] \in 1 .. issued[target]
        BY <2>1, <2>3 DEF Sessions
      <4> QED BY <2>1, <4>1
    <3>2. CASE n # target
      BY <2>5, <2>8, <3>2 DEF Sessions
    <3>3. CASE n = target
      <4>1. CASE p = port \/ q = port
        BY <2>5, <2>8, <3>1, <3>3, <4>1
      <4>2. CASE p # port /\ q # port
        BY <2>5, <2>8, <3>3, <4>2 DEF Sessions
      <4> QED BY <4>1, <4>2
    <3> QED BY <3>2, <3>3
  <2>9. session' = cached'[target'][port'] /\ session' # None
    BY <2>1, <2>2, <2>3, <2>5
  <2> QED BY <2>6, <2>7, <2>8, <2>9 DEF Sessions
<1>6. CASE NodeRejects
  <2>1. /\ target \in Node /\ port \in 1 .. Ports /\ step \in DirectStep
        /\ cached \in [Node -> [1 .. Ports -> Nat]] /\ refused \in [Node -> SUBSET Nat]
    BY <1>6, Steps DEF NodeRejects, TypeOK
  <2>2. /\ cached' = [cached EXCEPT ![target][port] = None]
        /\ refused' = [refused EXCEPT ![target] = @ \cup {session}]
        /\ issued' = issued /\ step' \notin DirectStep
    BY <1>6, WaysOn DEF NodeRejects, Dropped, DirectStep
  <2>3. session = cached[target][port] /\ session # None
    BY <2>1 DEF Sessions
  <2>4. ASSUME NEW n \in Node
        PROVE  refused'[n] = IF n = target THEN refused[n] \cup {session} ELSE refused[n]
    BY <2>1, <2>2
  <2>5. ASSUME NEW n \in Node, NEW p \in 1 .. Ports
        PROVE  cached'[n][p] = IF n = target /\ p = port THEN None ELSE cached[n][p]
    BY <2>1, <2>2
  <2>6. ASSUME NEW n \in Node PROVE refused'[n] \subseteq 1 .. issued'[n]
    <3>1. session \in 1 .. issued[target]
      BY <2>1, <2>3 DEF Sessions
    <3> QED BY <2>2, <2>4, <3>1 DEF Sessions
  <2>7. ASSUME NEW n \in Node, NEW p \in 1 .. Ports, cached'[n][p] # None
        PROVE  cached'[n][p] \in 1 .. issued'[n] /\ cached'[n][p] \notin refused'[n]
    <3>1. cached'[n][p] = cached[n][p] /\ ~(n = target /\ p = port)
      BY <2>5, <2>7
    <3>2. cached[n][p] \in 1 .. issued[n] /\ cached[n][p] \notin refused[n]
      BY <2>7, <3>1 DEF Sessions
    <3>3. n = target => cached[n][p] # session
      BY <2>1, <2>3, <3>1 DEF Sessions
    <3> QED BY <2>2, <2>4, <3>1, <3>2, <3>3
  <2>8. ASSUME NEW n \in Node, NEW p \in 1 .. Ports, NEW q \in 1 .. Ports,
               cached'[n][p] # None, cached'[n][p] = cached'[n][q]
        PROVE  p = q
    <3>1. cached'[n][p] = cached[n][p] /\ cached'[n][q] = cached[n][q]
      BY <2>5, <2>8
    <3> QED BY <2>8, <3>1 DEF Sessions
  <2> QED BY <2>2, <2>6, <2>7, <2>8 DEF Sessions
<1> QED BY <1>1, <1>2, <1>3, <1>4, <1>5, <1>6 DEF Next, Direct

\* A session that a node answered with 401 is never sent to it again, on this
\* port or another, in this install or a later one.
THEOREM NeverReofferedAlways == Spec => []NeverReoffered
<1>1. Init => Sessions
  BY DEF Init, Sessions, DirectStep, None
<1>2. TypeOK /\ Sessions => NeverReoffered
  BY Steps DEF TypeOK, Sessions, NeverReoffered
<1> QED BY <1>1, <1>2, Initially, Inductive, SessionsInductive, PTL DEF Spec

=============================================================================
