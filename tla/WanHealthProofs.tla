--------------------------- MODULE WanHealthProofs ---------------------------
(***************************************************************************)
(* Proofs about WanHealth, for any uplinks, any reports of the router, any *)
(* boot grace and publication step, and behaviours of any length: what the *)
(* clocks of an outage and the failover counter add up to.                 *)
(***************************************************************************)
EXTENDS WanHealth, FiniteSetTheorems, WellFoundedInduction, TLAPS

\* The clocks that hear the updates.
Heard == known \cup {Internet}

-----------------------------------------------------------------------------
(***************************************************************************)
(* Payloads.                                                               *)
(***************************************************************************)
LEMMA WanSet ==
    /\ IsFiniteSet(Wan) /\ Wan \subseteq Nat \ {0}
    /\ Internet \notin Wan /\ Internet \in Clock /\ Wan \subseteq Clock
BY WanAssumption DEF WanAssumption, Internet, Clock

LEMMA WanEntryNotAbsent == ASSUME NEW e \in WanEntry PROVE e # Absent
<1>1. "iface" \in DOMAIN e
  BY DEF WanEntry
<1>2. "iface" \notin DOMAIN Absent
  BY DEF Absent
<1> QED BY <1>1, <1>2

LEMMA PayloadNotNoData == ASSUME NEW d \in Payload PROVE d # NoData
<1>1. "wans" \in DOMAIN d
  BY DEF Payload
<1>2. "wans" \notin DOMAIN NoData
  BY DEF NoData
<1> QED BY <1>1, <1>2

LEMMA VerdictType == ASSUME NEW obs PROVE PingVerdict(obs) \in Verdict
BY DEF PingVerdict, Verdict

LEMMA EntryType ==
    ASSUME NEW i \in Interface, NEW obs, NEW at \in Nat
    PROVE  Entry(i, obs, at) \in WanEntry
<1>1. PingVerdict(obs) \in Verdict
  BY VerdictType
<1>2. InternetAccess(i, PingVerdict(obs)) \in BOOLEAN
  BY DEF InternetAccess, Heuristic, Interface
<1>3. (obs # {}) \in BOOLEAN
  OBVIOUS
<1>4. [bound |-> obs # {}, verdict |-> PingVerdict(obs)]
        \in [bound : BOOLEAN, verdict : Verdict]
  BY <1>1, <1>3
<1> QED BY <1>2, <1>4 DEF Entry, WanEntry

LEMMA ReportType ==
    ASSUME NEW r \in AnyReport, NEW w \in Wan
    PROVE  r[w].iface \in Interface \cup {Absent} /\ r[w].checks \in SUBSET Observation
<1>1. r[w] \in Reports[w] /\ Reports[w] \subseteq Report
  BY ReportAssumption DEF ReportAssumption, AnyReport
<1> QED BY <1>1 DEF Report

LEMMA ChecksType ==
    ASSUME NEW r \in AnyReport, NEW reads \in Reads, data \in Payload \cup {NoData}
    PROVE  ChecksRead(reads, r) \in [Wan -> SUBSET Observation]
<1>1. reads.ping \in {"answered", "swallowed", "raised"}
  BY DEF Reads
<1>2. CASE reads.ping = "answered"
  BY <1>2, ReportType DEF ChecksRead
<1>3. CASE reads.ping = "swallowed"
  BY <1>3 DEF ChecksRead
<1>4. CASE reads.ping = "raised"
  <2>1. CASE data = NoData
    BY <1>4, <2>1 DEF ChecksRead
  <2>2. CASE data # NoData
    BY <1>4, <2>2 DEF ChecksRead, Payload
  <2> QED BY <2>1, <2>2
<1> QED BY <1>1, <1>2, <1>3, <1>4

LEMMA RebuiltType ==
    ASSUME NEW r \in AnyReport, NEW reads \in Reads, NEW w \in Wan, NEW checks,
           NEW t \in Nat, data \in Payload \/ reads.interfaces = "read"
    PROVE  Rebuilt(w, reads, r, checks, t) \in WanEntry \cup {Absent}
<1> DEFINE i == IF reads.interfaces = "read" THEN r[w].iface
                ELSE IF data.wans[w] = Absent THEN Absent
                ELSE data.wans[w].iface
           at == IF i # Absent /\ checks[w] # {} /\ reads.ping = "answered" THEN t
                 ELSE IF i = Absent \/ ~i.up THEN 0
                 ELSE IF reads.interfaces = "read" THEN t
                 ELSE data.wans[w].moved
<1>1. i \in Interface \cup {Absent}
  BY ReportType DEF Payload, WanEntry
<1>2. at \in Nat
  <2>1. CASE i = Absent \/ reads.interfaces = "read"
    BY <2>1
  <2>2. CASE i # Absent /\ reads.interfaces # "read"
    <3>1. data.wans[w] \in WanEntry
      BY <2>2 DEF Payload
    <3> QED BY <3>1 DEF WanEntry
  <2> QED BY <2>1, <2>2
<1>3. Rebuilt(w, reads, r, checks, t)
        = IF i # Absent /\ Ranked(i) THEN Entry(i, checks[w], at) ELSE Absent
  BY DEF Rebuilt
<1>4. CASE i # Absent
  <2>1. Entry(i, checks[w], at) \in WanEntry
    BY <1>1, <1>2, <1>4, EntryType
  <2> QED BY <1>3, <2>1
<1>5. CASE i = Absent
  BY <1>3, <1>5
<1> QED BY <1>4, <1>5

LEMMA PayloadType ==
    ASSUME NEW r \in AnyReport, NEW reads \in Reads, NEW t \in Nat,
           NEW booted \in BOOLEAN, data \in Payload \cup {NoData},
           data \in Payload \/ (reads.interfaces = "read" /\ reads.system = "read")
    PROVE  NextPayload(reads, r, t, booted) \in Payload
<1>1. ChecksRead(reads, r) \in [Wan -> SUBSET Observation]
  BY ChecksType
<1>2. \A w \in Wan : Rebuilt(w, reads, r, ChecksRead(reads, r), t) \in WanEntry \cup {Absent}
  BY RebuiltType
<1>3. Complete(reads) \in BOOLEAN
  BY DEF Complete
<1>4. (IF reads.system = "read" THEN booted ELSE data.booted) \in BOOLEAN
  BY DEF Payload
<1> QED BY <1>1, <1>2, <1>3, <1>4 DEF NextPayload, Payload

LEMMA ActiveType == ASSUME NEW wans PROVE ActiveWan(wans) \in Wan \cup {NoWan}
<1>1. CASE Holders(wans) = {}
  BY <1>1 DEF ActiveWan
<1>2. CASE Holders(wans) # {}
  <2>1. Holders(wans) \subseteq Nat /\ Holders(wans) \subseteq Wan
    BY WanSet DEF Holders, Present
  <2>2. PICK m \in Holders(wans) : \A v \in Holders(wans) : m <= v
    <3>1. \E m \in Holders(wans) :
            \A v \in Holders(wans) : ~(<<v, m>> \in OpToRel(<, Nat))
      BY <1>2, <2>1, WFMin, NatLessThanWellFounded
    <3>2. ASSUME NEW v \in Nat, NEW m \in Nat, v < m
          PROVE  <<v, m>> \in OpToRel(<, Nat)
      BY <3>2 DEF OpToRel
    <3>3. PICK m \in Holders(wans) :
            \A v \in Holders(wans) : ~(<<v, m>> \in OpToRel(<, Nat))
      BY <3>1
    <3>4. ASSUME NEW v \in Holders(wans) PROVE m <= v
      <4>1. m \in Nat /\ v \in Nat
        BY <2>1
      <4>2. ~(v < m)
        BY <3>2, <3>3, <4>1
      <4> QED BY <4>1, <4>2
    <3> QED BY <3>4
  <2> QED BY <1>2, <2>1, <2>2 DEF ActiveWan
<1> QED BY <1>1, <1>2

LEMMA RoleType == ASSUME NEW wans, NEW w PROVE Role(wans, w) \in Nat
<1> DEFINE before == {v \in Present(wans) \ {w} : Precedes(wans, v, w)}
<1>1. before \subseteq Wan
  BY DEF Present
<1>2. IsFiniteSet(before)
  BY <1>1, WanSet, FS_Subset
<1> QED BY <1>2, FS_CardinalityType DEF Role

-----------------------------------------------------------------------------
(***************************************************************************)
(* The world and the types.                                                *)
(***************************************************************************)
LEMMA ElapseType ==
    ASSUME TypeOK, NEW dt \in 0 .. MaxStep, Elapse(dt)
    PROVE  now' \in 0 .. MaxTime /\ now' = now + dt /\ uptime' \in 0 .. BootGrace
<1> USE TimeAssumption DEF TimeAssumption
<1>1. dt \in Nat /\ now \in Nat /\ uptime \in 0 .. BootGrace
  BY DEF TypeOK
<1>2. Capped(uptime + dt) \in 0 .. BootGrace
  BY <1>1 DEF Capped
<1>3. 0 .. Capped(dt - 1) \subseteq 0 .. BootGrace
  BY <1>1 DEF Capped
<1> QED BY <1>1, <1>2, <1>3 DEF Elapse

LEMMA WholeType == ASSUME NEW t \in Nat PROVE Whole(t) \in Nat
BY TimeAssumption DEF TimeAssumption, Whole

LEMMA AccruedType ==
    ASSUME NEW k \in ClockState, NEW told, NEW t \in Nat,
           k.since # Stopped => k.since <= t
    PROVE  Accrued(k, told, t) \in ClockState
<1>1. k.secs \in Nat /\ k.since \in {Stopped} \cup Nat /\ k.pub \in Nat
  BY DEF ClockState
<1>2. CASE told = "unknown"
  BY <1>2 DEF Accrued, ClockState
<1>3. CASE told # "unknown"
  <2>1. (IF k.since = Stopped THEN k.secs ELSE k.secs + (t - k.since)) \in Nat
    BY <1>1 DEF Stopped
  <2> QED BY <1>3, <2>1 DEF Accrued, ClockState
<1> QED BY <1>2, <1>3

LEMMA PublishedType == ASSUME NEW k \in ClockState PROVE Published(k) \in ClockState
<1>1. Whole(k.secs) \in Nat
  BY WholeType DEF ClockState
<1> QED BY <1>1 DEF Published, ClockState

\* A clock runs since the last update its entity handled.
Running ==
    ha => \A c \in Clock :
            clock[c].since # Stopped => c \in Heard /\ clock[c].since = lastAt

\* A payload is published while the entry is loaded.
Loaded == ha => data \in Payload

Inv == TypeOK /\ Running /\ Loaded

LEMMA HearType ==
    ASSUME Inv, ha, NEW success, NEW d, NEW t \in Nat, lastAt <= t,
           ClocksHear(success, d, t)
    PROVE  /\ clock' \in [Clock -> ClockState]
           /\ \A c \in Heard : clock'[c] = Published(Accrued(clock[c], Told(c, success, d), t))
           /\ \A c \in Clock \ Heard : clock'[c] = clock[c]
<1>1. Heard \subseteq Clock
  BY WanSet DEF Heard, Inv, TypeOK
<1>2. ASSUME NEW c \in Clock
      PROVE  Published(Accrued(clock[c], Told(c, success, d), t)) \in ClockState
  <2>1. clock[c] \in ClockState
    BY DEF Inv, TypeOK
  <2>2. clock[c].since # Stopped => clock[c].since <= t
    BY DEF Inv, Running
  <2>3. Accrued(clock[c], Told(c, success, d), t) \in ClockState
    BY <2>1, <2>2, AccruedType
  <2> QED BY <2>3, PublishedType
<1>3. clock' = [c \in Clock |->
                   IF c \in Heard
                   THEN Published(Accrued(clock[c], Told(c, success, d), t))
                   ELSE clock[c]]
  BY DEF ClocksHear, Heard
<1>4. \A c \in Clock : clock[c] \in ClockState
  BY DEF Inv, TypeOK
<1> QED BY <1>1, <1>2, <1>3, <1>4

LEMMA WriteType ==
    ASSUME Inv, clock' \in [Clock -> ClockState], NEW success \in BOOLEAN,
           NEW d \in Payload, ProvidersWrite(success, d)
    PROVE  shown' \in [Wan -> {Hidden} \cup Nat] /\ seen' \in [Wan -> SeenState]
<1>1. ASSUME NEW w \in Wan PROVE KeyOf(d, w, success) \in SeenState
  <2>1. CASE d.wans[w] = Absent
    BY <2>1 DEF KeyOf, Fingerprint, NoPrint, SeenState
  <2>2. CASE d.wans[w] # Absent
    <3>1. d.wans[w] \in WanEntry /\ Role(d.wans, w) \in Nat
      BY <2>2, RoleType DEF Payload
    <3> QED BY <2>2, <3>1 DEF KeyOf, Fingerprint, SeenState
  <2> QED BY <2>1, <2>2
<1>2. \A w \in Wan : seen[w] \in SeenState /\ shown[w] \in {Hidden} \cup Nat
  BY DEF Inv, TypeOK
<1>3. \A w \in Wan : clock'[w].pub \in Nat
  BY WanSet DEF ClockState
<1>4. seen' \in [Wan -> SeenState]
  BY <1>1, <1>2 DEF ProvidersWrite, PrintKept
<1>5. \A w \in Wan : shown'[w] \in {Hidden} \cup Nat
  BY <1>2, <1>3 DEF ProvidersWrite
<1> QED BY <1>4, <1>5 DEF ProvidersWrite

LEMMA RecordType ==
    ASSUME Inv, NEW t \in Nat, lastAt <= t, Record(t)
    PROVE  lastAt' = t /\ owed' \in [Clock -> Nat] /\ doubt' \in [Clock -> Nat]
<1>1. \A c \in Clock : owed[c] \in Nat /\ doubt[c] \in Nat
  BY DEF Inv, TypeOK
<1>2. t - lastAt \in Nat
  BY DEF Inv, TypeOK
<1> QED BY <1>1, <1>2 DEF Record

LEMMA AccruedValue ==
    ASSUME NEW k \in ClockState, NEW told, NEW t
    PROVE  /\ Accrued(k, told, t).secs = IF told = "unknown" \/ k.since = Stopped
                                         THEN k.secs ELSE k.secs + (t - k.since)
           /\ Accrued(k, told, t).since = IF told = "down" THEN t ELSE Stopped
BY DEF Accrued, ClockState

LEMMA PublishedValue ==
    ASSUME NEW k \in ClockState
    PROVE  /\ Published(k).secs = k.secs /\ Published(k).since = k.since
           /\ Published(k).pub = IF Due(k) THEN Whole(k.secs) ELSE k.pub
BY DEF Published, ClockState

LEMMA HeardValue ==
    ASSUME Inv, ha, NEW success, NEW d, NEW t \in Nat, lastAt <= t,
           ClocksHear(success, d, t), NEW c \in Heard
    PROVE  LET told == Told(c, success, d)
           IN  /\ clock'[c].secs = IF told = "unknown" \/ clock[c].since = Stopped
                                   THEN clock[c].secs
                                   ELSE clock[c].secs + (t - clock[c].since)
               /\ clock'[c].since = IF told = "down" THEN t ELSE Stopped
               /\ clock'[c].pub = LET k == Accrued(clock[c], told, t)
                                  IN  IF Due(k) THEN Whole(k.secs) ELSE clock[c].pub
<1> DEFINE told == Told(c, success, d)
           k == Accrued(clock[c], told, t)
<1>1. c \in Clock /\ clock[c] \in ClockState
  BY WanSet DEF Heard, Inv, TypeOK
<1>2. clock[c].since # Stopped => clock[c].since <= t
  BY <1>1 DEF Inv, Running
<1>3. k \in ClockState
  BY <1>1, <1>2, AccruedType
<1>4. clock'[c] = Published(k)
  BY HearType
<1>5. k.pub = clock[c].pub
  BY <1>1 DEF Accrued, ClockState
<1> QED BY <1>1, <1>3, <1>4, <1>5, AccruedValue, PublishedValue

LEMMA HeardSince ==
    ASSUME Inv, ha, NEW success, NEW d, NEW t \in Nat, lastAt <= t,
           ClocksHear(success, d, t), NEW c \in Heard
    PROVE  clock'[c].since = IF Told(c, success, d) = "down" THEN t ELSE Stopped
BY HeardValue

\* After an update the clocks that run do so since that update.
LEMMA RunningAfter ==
    ASSUME Inv, ha, NEW success, NEW d, NEW t \in Nat, lastAt <= t,
           ClocksHear(success, d, t), lastAt' = t, Heard \subseteq Heard'
    PROVE  Running'
<1> SUFFICES ASSUME NEW c \in Clock, clock'[c].since # Stopped
             PROVE  c \in Heard' /\ clock'[c].since = lastAt'
  BY DEF Running
<1>1. CASE c \in Heard
  BY <1>1, HeardValue
<1>2. CASE c \notin Heard
  <2>1. clock'[c] = clock[c]
    BY <1>2, HearType
  <2> QED BY <1>2, <2>1 DEF Inv, Running
<1> QED BY <1>1, <1>2

LEMMA BootType == PastBoot \subseteq BOOLEAN
BY DEF PastBoot

LEMMA Inductive == Inv /\ [Next]_vars => Inv'
<1> SUFFICES ASSUME Inv, [Next]_vars PROVE Inv'
  OBVIOUS
<1> USE TimeAssumption DEF TimeAssumption
<1>t. /\ now \in Nat /\ lastAt \in Nat /\ lastAt <= now
      /\ data \in Payload \cup {NoData} /\ known \subseteq Wan /\ count \in Nat
      /\ switches \in Nat
  BY DEF Inv, TypeOK
<1>1. CASE \E dt \in 0 .. MaxStep : Start(dt)
  <2> PICK dt \in 0 .. MaxStep : Start(dt)
    BY <1>1
  <2>1. now' \in 0 .. MaxTime /\ uptime' \in 0 .. BootGrace
    BY ElapseType DEF Start, Inv
  <2>2. data' \in Payload
    <3>1. PICK report \in AnyReport, ping \in {"answered", "swallowed", "raised"},
               booted \in PastBoot :
            data' = NextPayload([system |-> "read", interfaces |-> "read", ping |-> ping],
                                report, now', booted)
      BY DEF Start
    <3>2. [system |-> "read", interfaces |-> "read", ping |-> ping] \in Reads
      BY DEF Reads
    <3>3. now' \in Nat /\ booted \in BOOLEAN
      BY <2>1, BootType
    <3> QED BY <1>t, <3>1, <3>2, <3>3, PayloadType
  <2>3. /\ active' \in Wan \cup {NoWan} /\ failover' \in BOOLEAN
        /\ ha' = TRUE /\ ok' = TRUE /\ known' \subseteq Wan
    BY ActiveType DEF Start, Failover, Present
  <2>4. \A c \in Clock : Restored(saved.secs[c]) \in ClockState
                         /\ Restored(saved.secs[c]).since = Stopped
    BY WholeType DEF Inv, TypeOK, SavedState, Restored, ClockState
  <2>5. clock' \in [Clock -> ClockState] /\ \A c \in Clock : clock'[c].since = Stopped
    BY <2>4 DEF Start
  <2>6. /\ shown' \in [Wan -> {Hidden} \cup Nat]
        /\ seen' \in [Wan -> SeenState]
    <3>1. \A w \in Wan : clock'[w].pub \in Nat
      BY <2>5, WanSet DEF ClockState
    <3>2. NoSeen \in SeenState
      BY DEF NoSeen, SeenState
    <3> QED BY <3>1, <3>2 DEF Start
  <2>7. /\ saved' = saved /\ switches' \in Nat
        /\ owed' \in [Clock -> Nat] /\ doubt' \in [Clock -> Nat]
        /\ count' \in Nat /\ lastAt' = now'
        /\ observed' \in [Clock -> {"nothing", "guessed", "up", "down"}]
    BY DEF Start, Inv, TypeOK, SavedState
  <2>8. TypeOK'
    BY <2>1, <2>2, <2>3, <2>5, <2>6, <2>7 DEF Inv, TypeOK
  <2> QED BY <2>2, <2>5, <2>8 DEF Inv, Running, Loaded
<1>2. CASE \E dt \in 1 .. MaxStep : Tick(dt)
  <2> PICK dt \in 1 .. MaxStep : Tick(dt)
    BY <1>2
  <2>1. /\ now' \in 0 .. MaxTime /\ uptime' \in 0 .. BootGrace
        /\ now' \in Nat /\ lastAt <= now'
    BY <1>t, ElapseType DEF Tick, Inv
  <2>2. PICK reads \in Reads, report \in AnyReport, booted \in PastBoot :
          /\ data' = NextPayload(reads, report, now', booted)
          /\ observed' = [c \in Clock |-> Observed(c, reads, data')]
    BY DEF Tick
  <2>3. ha /\ data \in Payload
    BY DEF Tick, Inv, Loaded
  <2>4. data' \in Payload
    BY <2>1, <2>2, <2>3, BootType, PayloadType
  <2>5. /\ active' \in Wan \cup {NoWan} /\ failover' \in BOOLEAN
        /\ ha' = ha /\ ok' = TRUE /\ known' \subseteq Wan /\ Heard \subseteq Heard'
    BY <1>t, ActiveType DEF Tick, Failover, Added, Present, Heard
  <2>6. ClocksHear(TRUE, data', now') /\ ProvidersWrite(TRUE, data') /\ Record(now')
    BY DEF Tick, Listeners
  <2>7. clock' \in [Clock -> ClockState]
    BY <2>1, <2>3, <2>6, HearType
  <2>8. shown' \in [Wan -> {Hidden} \cup Nat] /\ seen' \in [Wan -> SeenState]
    BY <2>4, <2>6, <2>7, WriteType
  <2>9. lastAt' = now' /\ owed' \in [Clock -> Nat] /\ doubt' \in [Clock -> Nat]
    BY <2>1, <2>6, RecordType
  <2>10. observed' \in [Clock -> {"nothing", "guessed", "up", "down"}]
    BY <2>2 DEF Observed, Reaches
  <2>11. count' \in Nat /\ switches' \in Nat /\ saved' = saved
    BY <1>t DEF Tick, Counted
  <2>12. TypeOK'
    BY <2>1, <2>3, <2>4, <2>5, <2>7, <2>8, <2>9, <2>10, <2>11 DEF Inv, TypeOK
  <2>13. Running'
    BY <2>1, <2>3, <2>5, <2>6, <2>9, RunningAfter
  <2> QED BY <2>4, <2>12, <2>13 DEF Inv, Loaded
<1>3. CASE \E dt \in 1 .. MaxStep : TickFails(dt)
  <2> PICK dt \in 1 .. MaxStep : TickFails(dt)
    BY <1>3
  <2>1. /\ now' \in 0 .. MaxTime /\ uptime' \in 0 .. BootGrace
        /\ now' \in Nat /\ lastAt <= now'
    BY <1>t, ElapseType DEF TickFails, Inv
  <2>2. /\ ha /\ ha' = ha /\ UNCHANGED <<data, active, failover, known, saved, switches>>
        /\ data \in Payload /\ Heard \subseteq Heard' /\ ok' = FALSE
    BY DEF TickFails, payload, Inv, Loaded, Heard
  <2>3. observed' \in [Clock -> {"nothing", "guessed", "up", "down"}]
    BY DEF TickFails
  <2>4. CASE ok
    <3>1. ClocksHear(FALSE, data, now') /\ ProvidersWrite(FALSE, data) /\ Record(now')
      BY <2>4 DEF TickFails, Listeners
    <3>2. clock' \in [Clock -> ClockState]
      BY <2>1, <2>2, <3>1, HearType
    <3>3. shown' \in [Wan -> {Hidden} \cup Nat] /\ seen' \in [Wan -> SeenState]
      BY <2>2, <3>1, <3>2, WriteType
    <3>4. lastAt' = now' /\ owed' \in [Clock -> Nat] /\ doubt' \in [Clock -> Nat]
      BY <2>1, <3>1, RecordType
    <3>5. count' \in Nat
      BY <1>t, <2>4 DEF TickFails, Counted
    <3>6. TypeOK'
      <4>1. lastAt' \in 0 .. now'
        BY <2>1, <3>4
      <4>2. /\ ha' \in BOOLEAN /\ ok' \in BOOLEAN /\ data' \in Payload \cup {NoData}
            /\ active' \in Wan \cup {NoWan} /\ failover' \in BOOLEAN
            /\ known' \subseteq Wan /\ saved' \in SavedState /\ switches' \in Nat
        BY <2>2 DEF Inv, TypeOK
      <4> QED BY <2>1, <2>3, <3>2, <3>3, <3>4, <3>5, <4>1, <4>2 DEF TypeOK
    <3>7. Running'
      BY <2>1, <2>2, <3>1, <3>4, RunningAfter
    <3> QED BY <2>2, <3>6, <3>7 DEF Inv, Loaded
  <2>5. CASE ~ok
    <3>1. UNCHANGED <<clock, shown, seen, count, lastAt, owed, doubt>>
      BY <2>5 DEF TickFails
    <3>2. lastAt' \in 0 .. now'
      BY <1>t, <2>1, <3>1
    <3>3. TypeOK'
      BY <2>1, <2>2, <2>3, <3>1, <3>2 DEF Inv, TypeOK
    <3> QED BY <2>2, <3>1, <3>3 DEF Inv, Loaded, Running, Heard
  <2> QED BY <2>4, <2>5
<1>s. Stored \in SavedState
  <2>1. \A c \in Clock : clock[c].secs \in Nat /\ saved.secs[c] \in Nat
    BY DEF Inv, TypeOK, ClockState, SavedState
  <2> QED BY <1>t, <2>1 DEF Stored, SavedState, Inv, TypeOK
<1>u. ASSUME Unloaded
      PROVE  /\ ha' = FALSE /\ ok' \in BOOLEAN /\ data' = NoData
             /\ active' \in Wan \cup {NoWan} /\ failover' \in BOOLEAN /\ known' \subseteq Wan
             /\ observed' \in [Clock -> {"nothing", "guessed", "up", "down"}]
             /\ shown' \in [Wan -> {Hidden} \cup Nat]
             /\ seen' \in [Wan -> SeenState]
  <2>1. NoSeen \in SeenState
    BY DEF NoSeen, SeenState
  <2> QED BY <1>u, <2>1 DEF Unloaded
<1>4. CASE Dump
  <2>1. saved' \in SavedState
    BY <1>4, <1>s DEF Dump
  <2>2. TypeOK'
    BY <1>4, <2>1 DEF Dump, Inv, TypeOK, world, payload, entities, history
  <2> QED BY <1>4, <2>2
          DEF Dump, Inv, Running, Loaded, Heard, world, payload, entities, history
<1>5. CASE Stop
  <2>1. saved' \in SavedState
    BY <1>5, <1>s DEF Stop
  <2>2. TypeOK'
    BY <1>5, <1>u, <2>1 DEF Stop, Inv, TypeOK, world
  <2> QED BY <1>5, <1>u, <2>2 DEF Stop, Inv, Running, Loaded
<1>6. CASE Crash
  <2>1. TypeOK'
    BY <1>6, <1>u DEF Crash, Inv, TypeOK, world
  <2> QED BY <1>6, <1>u, <2>1 DEF Crash, Inv, Running, Loaded
<1>7. CASE UNCHANGED vars
  <2>1. TypeOK'
    BY <1>7 DEF vars, Inv, TypeOK, world, payload, entities, history
  <2> QED BY <1>7, <2>1
          DEF vars, Inv, Running, Loaded, Heard, world, payload, entities, history
<1> QED BY <1>1, <1>2, <1>3, <1>4, <1>5, <1>6, <1>7 DEF Next

LEMMA Initially == Init => Inv
<1> SUFFICES ASSUME Init PROVE Inv
  OBVIOUS
<1> USE TimeAssumption DEF TimeAssumption
<1>1. NewClock \in ClockState /\ NoSeen \in SeenState
  BY DEF NewClock, ClockState, NoSeen, SeenState
<1>2. clock \in [Clock -> ClockState] /\ seen \in [Wan -> SeenState]
  BY <1>1 DEF Init
<1>3. saved \in SavedState
  BY DEF Init, SavedState
<1>4. TypeOK
  <2>1. now \in 0 .. MaxTime /\ uptime \in 0 .. BootGrace /\ lastAt \in 0 .. now
    BY DEF Init
  <2>2. /\ ha \in BOOLEAN /\ ok \in BOOLEAN /\ failover \in BOOLEAN
        /\ data \in Payload \cup {NoData} /\ active \in Wan \cup {NoWan}
        /\ known \subseteq Wan /\ count \in Nat /\ switches \in Nat
    BY DEF Init
  <2>3. /\ shown \in [Wan -> {Hidden} \cup Nat]
        /\ observed \in [Clock -> {"nothing", "guessed", "up", "down"}]
        /\ owed \in [Clock -> Nat] /\ doubt \in [Clock -> Nat]
    BY DEF Init
  <2> QED BY <1>2, <1>3, <2>1, <2>2, <2>3 DEF TypeOK
<1> QED BY <1>4 DEF Init, Inv, Running, Loaded

\* Every variable keeps its type.
THEOREM TypeCorrect == Spec => []TypeOK
<1>1. Inv => TypeOK
  BY DEF Inv
<1> QED BY <1>1, Initially, Inductive, PTL DEF Spec

-----------------------------------------------------------------------------
(***************************************************************************)
(* The clocks and what is owed to them.                                    *)
(***************************************************************************)
\* A total and what was owed for it differ by what is in doubt at most.
Settles(secs, due, slack) == secs - due \in 0 .. slack

\* A clock runs when the last update said that its uplink is down, and may run
\* when that was guessed.
Runs(k, seenAs) ==
    /\ seenAs \in {"nothing", "up"} => k.since = Stopped
    /\ seenAs = "down" => k.since # Stopped

\* What is stored of a clock, and what it has counted, is what was owed then.
Accounts ==
    /\ \A c \in Clock : Settles(saved.secs[c], saved.owed[c], saved.doubt[c])
    /\ ha => \A c \in Clock :
               /\ Settles(clock[c].secs, owed[c], doubt[c])
               /\ Runs(clock[c], observed[c])
               /\ c \notin Heard => owed[c] = saved.owed[c] /\ doubt[c] = saved.doubt[c]
    /\ ha /\ ~ok => \A c \in Clock : observed[c] = "nothing"

\* What a clock is told fits what an update observes.
Fits(told, seenAs) ==
    /\ told = "unknown" <=> seenAs = "nothing"
    /\ seenAs = "down" => told = "down"
    /\ seenAs = "up" => told = "up"

\* An update says the same to a clock and to the history.
LEMMA ToldAsObserved ==
    ASSUME NEW reads \in Reads, NEW d \in Payload, d.fresh = Complete(reads),
           NEW c \in Heard, known \subseteq Wan
    PROVE  Fits(Told(c, TRUE, d), Observed(c, reads, d))
<1>1. Settled(TRUE, d) <=> GoodReading(reads, d)
  BY DEF Settled, GoodReading
<1>2. CASE ~GoodReading(reads, d)
  BY <1>1, <1>2 DEF Told, Observed, Fits
<1>3. CASE GoodReading(reads, d) /\ c = Internet
  <2>1. InternetDown(d) <=> ~\E w \in Present(d.wans) : d.wans[w].access
    BY DEF InternetDown, ActiveWan, Holders
  <2>2. Present(d.wans) = {} => InternetDown(d)
    BY <2>1
  <2> QED BY <1>1, <1>3, <2>1, <2>2 DEF Told, Observed, Reaches, Fits, Heard
<1>4. CASE GoodReading(reads, d) /\ c # Internet
  <2>1. c \in known
    BY <1>4 DEF Heard
  <2>2. c \in Present(d.wans) => c \in Wan /\ d.wans[c] # Absent
    BY DEF Present
  <2>3. CASE d.wans[c] = Absent
    BY <1>1, <1>4, <2>1, <2>2, <2>3 DEF Told, Observed, Fits, Heard
  <2>4. CASE d.wans[c] # Absent /\ c \in Wan
    <3>1. c \in Present(d.wans)
      BY <2>4 DEF Present
    <3> QED BY <1>1, <1>4, <2>1, <2>4, <3>1
            DEF Told, Observed, Reaches, Fits, Heard, ProviderDown, Enabled
  <2> QED BY <2>1, <2>3, <2>4
<1> QED BY <1>2, <1>3, <1>4

\* An update bills the clocks what is owed, or what is in doubt.
LEMMA Billed ==
    ASSUME Inv, Accounts, ha, NEW success, NEW d, NEW t \in Nat, lastAt <= t,
           ClocksHear(success, d, t), Record(t),
           observed' \in [Clock -> {"nothing", "guessed", "up", "down"}],
           \A c \in Heard : Fits(Told(c, success, d), observed'[c]),
           \A c \in Clock \ Heard : observed'[c] = "nothing",
           NEW c \in Clock
    PROVE  /\ Settles(clock'[c].secs, owed'[c], doubt'[c])
           /\ Runs(clock'[c], observed'[c])
           /\ c \notin Heard => owed'[c] = owed[c] /\ doubt'[c] = doubt[c]
<1>1. /\ owed'[c] = owed[c] + (IF Owing(c) THEN t - lastAt ELSE 0)
      /\ doubt'[c] = doubt[c] + (IF Doubtful(c) THEN t - lastAt ELSE 0)
  BY DEF Record
<1>2. /\ Settles(clock[c].secs, owed[c], doubt[c])
      /\ Runs(clock[c], observed[c])
      /\ clock[c].since # Stopped => c \in Heard /\ clock[c].since = lastAt
  BY DEF Accounts, Inv, Running
<1>3. /\ t # Stopped /\ t - lastAt \in Nat
      /\ owed[c] \in Nat /\ doubt[c] \in Nat /\ clock[c].secs \in Nat
      /\ observed[c] \in {"nothing", "guessed", "up", "down"}
      /\ observed'[c] \in {"nothing", "guessed", "up", "down"}
  BY DEF Stopped, Inv, TypeOK, ClockState
<1>4. CASE c \in Heard
  <2>1. /\ clock'[c].secs = IF Told(c, success, d) = "unknown" \/ clock[c].since = Stopped
                            THEN clock[c].secs
                            ELSE clock[c].secs + (t - clock[c].since)
        /\ clock'[c].since = IF Told(c, success, d) = "down" THEN t ELSE Stopped
    BY <1>4, HeardValue
  <2>2. Fits(Told(c, success, d), observed'[c])
    BY <1>4
  <2>3. Runs(clock'[c], observed'[c])
    BY <1>3, <2>1, <2>2 DEF Runs, Fits
  <2>4. CASE observed'[c] = "nothing" \/ clock[c].since = Stopped
    <3>1. clock'[c].secs = clock[c].secs /\ ~Owing(c)
      BY <1>2, <1>3, <2>1, <2>2, <2>4 DEF Fits, Runs, Owing
    <3> QED BY <1>1, <1>2, <1>3, <1>4, <2>3, <3>1 DEF Settles
  <2>5. CASE observed'[c] # "nothing" /\ clock[c].since # Stopped
    <3>1. clock'[c].secs = clock[c].secs + (t - lastAt)
      BY <1>2, <2>1, <2>2, <2>5 DEF Fits
    <3>2. (Owing(c) /\ ~Doubtful(c)) \/ (Doubtful(c) /\ ~Owing(c))
      BY <1>2, <1>3, <2>5 DEF Runs, Owing, Doubtful
    <3> QED BY <1>1, <1>2, <1>3, <1>4, <2>3, <3>1, <3>2 DEF Settles
  <2> QED BY <2>4, <2>5
<1>5. CASE c \notin Heard
  <2>1. clock'[c] = clock[c] /\ observed'[c] = "nothing" /\ clock[c].since = Stopped
    BY <1>2, <1>5, HearType
  <2>2. ~Owing(c) /\ ~Doubtful(c)
    BY <2>1 DEF Owing, Doubtful
  <2> QED BY <1>1, <1>2, <1>3, <1>5, <2>1, <2>2 DEF Runs
<1> QED BY <1>4, <1>5

LEMMA AccountsInductive == Inv /\ Accounts /\ [Next]_vars => Accounts'
<1> SUFFICES ASSUME Inv, Accounts, [Next]_vars PROVE Accounts'
  OBVIOUS
<1>t. /\ now \in Nat /\ lastAt \in Nat /\ lastAt <= now /\ known \subseteq Wan
      /\ Heard \subseteq Clock
  BY WanSet DEF Inv, TypeOK, Heard
<1>1. CASE \E dt \in 0 .. MaxStep : Start(dt)
  <2>1. /\ saved' = saved /\ owed' = saved.owed /\ ok' = TRUE
        /\ clock' = [c \in Clock |-> Restored(saved.secs[c])] /\ doubt' = saved.doubt
        /\ observed' = [c \in Clock |-> "nothing"]
    BY <1>1 DEF Start
  <2>2. ASSUME NEW c \in Clock
        PROVE  clock'[c].secs = saved.secs[c] /\ clock'[c].since = Stopped
    BY <2>1 DEF Restored
  <2> QED BY <2>1, <2>2 DEF Accounts, Runs
<1>2. CASE \E dt \in 1 .. MaxStep : Tick(dt)
  <2> PICK dt \in 1 .. MaxStep : Tick(dt)
    BY <1>2
  <2>1. now' \in Nat /\ lastAt <= now'
    BY <1>t, ElapseType, TimeAssumption DEF TimeAssumption, Tick, Inv
  <2>2. PICK reads \in Reads, report \in AnyReport, booted \in PastBoot :
          /\ data' = NextPayload(reads, report, now', booted)
          /\ observed' = [c \in Clock |-> Observed(c, reads, data')]
    BY DEF Tick
  <2>3. ha /\ data \in Payload /\ ok' = TRUE /\ saved' = saved /\ Heard \subseteq Heard'
    BY DEF Tick, Inv, Loaded, Heard, Added
  <2>4. data' \in Payload /\ data'.fresh = Complete(reads)
    <3>1. data' \in Payload
      BY <2>1, <2>2, <2>3, BootType, PayloadType
    <3>2. data'.fresh = Complete(reads)
      BY <2>2 DEF NextPayload
    <3> QED BY <3>1, <3>2
  <2>5. ClocksHear(TRUE, data', now') /\ Record(now')
    BY DEF Tick, Listeners
  <2>6. ASSUME NEW c \in Heard
        PROVE  Fits(Told(c, TRUE, data'), observed'[c])
    <3>1. observed'[c] = Observed(c, reads, data')
      BY <1>t, <2>2
    <3> QED BY <1>t, <2>4, <3>1, ToldAsObserved
  <2>7. ASSUME NEW c \in Clock \ Heard PROVE observed'[c] = "nothing"
    BY <2>2 DEF Observed, Heard
  <2>8. ASSUME NEW c \in Clock
        PROVE  /\ Settles(clock'[c].secs, owed'[c], doubt'[c])
               /\ Runs(clock'[c], observed'[c])
               /\ c \notin Heard => owed'[c] = owed[c] /\ doubt'[c] = doubt[c]
    <3>1. observed' \in [Clock -> {"nothing", "guessed", "up", "down"}]
      BY <2>2 DEF Observed, Reaches
    <3> QED BY <2>1, <2>3, <2>5, <2>6, <2>7, <3>1, Billed
  <2> QED BY <2>3, <2>8 DEF Accounts
<1>3. CASE \E dt \in 1 .. MaxStep : TickFails(dt)
  <2> PICK dt \in 1 .. MaxStep : TickFails(dt)
    BY <1>3
  <2>1. now' \in Nat /\ lastAt <= now'
    BY <1>t, ElapseType, TimeAssumption DEF TimeAssumption, TickFails, Inv
  <2>2. /\ ha /\ ok' = FALSE /\ saved' = saved /\ Heard' = Heard
        /\ observed' = [c \in Clock |-> "nothing"]
    BY DEF TickFails, Heard
  <2>3. CASE ok
    <3>1. ClocksHear(FALSE, data, now') /\ Record(now')
      BY <2>3 DEF TickFails, Listeners
    <3>2. \A c \in Heard : Fits(Told(c, FALSE, data), observed'[c])
      BY <1>t, <2>2 DEF Told, Settled, Fits
    <3>3. /\ \A c \in Clock \ Heard : observed'[c] = "nothing"
          /\ observed' \in [Clock -> {"nothing", "guessed", "up", "down"}]
      BY <2>2
    <3>4. ASSUME NEW c \in Clock
          PROVE  /\ Settles(clock'[c].secs, owed'[c], doubt'[c])
                 /\ Runs(clock'[c], observed'[c])
                 /\ c \notin Heard => owed'[c] = owed[c] /\ doubt'[c] = doubt[c]
      BY <2>1, <2>2, <3>1, <3>2, <3>3, Billed
    <3> QED BY <2>2, <3>4 DEF Accounts
  <2>4. CASE ~ok
    <3>1. UNCHANGED <<clock, owed, doubt>>
      BY <2>4 DEF TickFails
    <3> QED BY <2>2, <2>4, <3>1 DEF Accounts, Runs
  <2> QED BY <2>3, <2>4
<1>s. ASSUME ha, saved' = Stored
      PROVE  \A c \in Clock : /\ Settles(saved'.secs[c], saved'.owed[c], saved'.doubt[c])
                              /\ saved'.owed[c] = owed[c] /\ saved'.doubt[c] = doubt[c]
  <2>1. \A c \in Clock : saved'.owed[c] = owed[c] /\ saved'.doubt[c] = doubt[c]
    BY <1>s DEF Stored
  <2>2. \A c \in Clock : saved'.secs[c] = IF c \in Heard THEN clock[c].secs
                                          ELSE saved.secs[c]
    BY <1>s DEF Stored, Heard
  <2> QED BY <1>s, <2>1, <2>2 DEF Accounts
<1>4. CASE Dump
  <2>1. /\ ha /\ saved' = Stored
        /\ UNCHANGED <<ha, ok, clock, owed, doubt, observed, known>>
    BY <1>4 DEF Dump, entities, history
  <2> QED BY <1>s, <2>1 DEF Accounts, Heard
<1>5. CASE Stop
  BY <1>5, <1>s DEF Stop, Unloaded, Accounts
<1>6. CASE Crash
  BY <1>6 DEF Crash, Unloaded, Accounts
<1>7. CASE UNCHANGED vars
  BY <1>7 DEF vars, entities, history, Accounts, Heard
<1> QED BY <1>1, <1>2, <1>3, <1>4, <1>5, <1>6, <1>7 DEF Next

\* The downtime totals are exact: nothing is billed across a failed poll, an
\* old snapshot or a boot, no restart loses what was billed, and only the time
\* beside a swallowed ping check is left in doubt.
THEOREM ExactAccountingAlways == Spec => []ExactAccounting
<1>1. Init => Accounts
  BY DEF Init, Accounts, Settles
<1>2. Accounts => ExactAccounting
  BY DEF Accounts, Settles, ExactAccounting
<1> QED BY <1>1, <1>2, Initially, Inductive, AccountsInductive, PTL DEF Spec

-----------------------------------------------------------------------------
Counting == saved.count = saved.switches /\ (ha => count = switches)

LEMMA CountingInductive == Inv /\ Counting /\ [Next]_vars => Counting'
<1> SUFFICES ASSUME Inv, Counting, [Next]_vars PROVE Counting'
  OBVIOUS
<1>1. CASE \E dt \in 0 .. MaxStep : Start(dt)
  BY <1>1 DEF Start, Counting
<1>2. CASE \E dt \in 1 .. MaxStep : Tick(dt)
  <2>1. data # NoData
    BY <1>2, PayloadNotNoData DEF Tick, Inv, Loaded
  <2>2. failover' <=> active' # active
    BY <1>2, <2>1 DEF Tick, Failover
  <2> QED BY <1>2, <2>2 DEF Tick, Counting, Counted
<1>3. CASE \E dt \in 1 .. MaxStep : TickFails(dt)
  <2>0. count \in Nat
    BY DEF Inv, TypeOK
  <2>1. count' = count
    <3>1. CASE ok
      <4>1. count' = count + (IF FALSE THEN 1 ELSE 0)
        BY <1>3, <3>1 DEF TickFails, Counted
      <4> QED BY <2>0, <4>1
    <3>2. CASE ~ok
      BY <1>3, <3>2 DEF TickFails
    <3> QED BY <3>1, <3>2
  <2> QED BY <1>3, <2>1 DEF TickFails, Counting
<1>4. CASE Dump
  BY <1>4 DEF Dump, Stored, Counting, entities, history
<1>5. CASE Stop
  BY <1>5 DEF Stop, Unloaded, Stored, Counting
<1>6. CASE Crash
  BY <1>6 DEF Crash, Unloaded, Counting
<1>7. CASE UNCHANGED vars
  BY <1>7 DEF vars, entities, history, Counting
<1> QED BY <1>1, <1>2, <1>3, <1>4, <1>5, <1>6, <1>7 DEF Next

\* Each change of the published default route is counted once, also when the
\* update of a failed poll shows the same payload again.
THEOREM FailoverCountedAlways == Spec => []FailoverCounted
<1>1. Init => Counting
  BY DEF Init, Counting
<1>2. Counting => FailoverCounted
  BY DEF Counting, FailoverCounted
<1> QED BY <1>1, <1>2, Initially, Inductive, CountingInductive, PTL DEF Spec

-----------------------------------------------------------------------------
\* While the router is without internet, the clocks of its providers run too.
LEMMA OutageInductive == Inv /\ OutageExplained /\ [Next]_vars => OutageExplained'
<1> SUFFICES ASSUME Inv, OutageExplained, [Next]_vars PROVE OutageExplained'
  OBVIOUS
<1>t. /\ now \in Nat /\ lastAt \in Nat /\ lastAt <= now /\ known \subseteq Wan
  BY DEF Inv, TypeOK
<1>1. CASE \E dt \in 0 .. MaxStep : Start(dt)
  <2>1. clock'[Internet].since = Stopped
    BY <1>1, WanSet DEF Start, Restored
  <2> QED BY <2>1 DEF OutageExplained
<1>2. CASE \E dt \in 1 .. MaxStep : Tick(dt)
  <2> PICK dt \in 1 .. MaxStep : Tick(dt)
    BY <1>2
  <2>1. now' \in Nat /\ lastAt <= now'
    BY <1>t, ElapseType, TimeAssumption DEF TimeAssumption, Tick, Inv
  <2>2. PICK reads \in Reads, report \in AnyReport, booted \in PastBoot :
          /\ data' = NextPayload(reads, report, now', booted)
          /\ observed' = [c \in Clock |-> Observed(c, reads, data')]
    BY DEF Tick
  <2>3. ha /\ data \in Payload /\ ClocksHear(TRUE, data', now')
    BY DEF Tick, Inv, Loaded, Listeners
  <2>4. data' \in Payload
    BY <2>1, <2>2, <2>3, BootType, PayloadType
  <2>5. data'.fresh = Complete(reads)
    BY <2>2 DEF NextPayload
  <2>6. ASSUME NEW c \in Heard
        PROVE  clock'[c].since = IF Told(c, TRUE, data') = "down" THEN now' ELSE Stopped
    BY <2>1, <2>3, HeardSince
  <2> SUFFICES ASSUME clock'[Internet].since # Stopped,
                      NEW w \in Present(data'.wans),
                      Enabled(data'.wans[w].iface), observed'[w] # "nothing"
               PROVE  clock'[w].since = clock'[Internet].since
    BY DEF OutageExplained
  <2>7. w \in Wan /\ data'.wans[w] # Absent /\ w \in Heard /\ w # Internet
    <3>1. w \in Wan /\ data'.wans[w] # Absent
      BY DEF Present
    <3>2. observed'[w] = Observed(w, reads, data')
      BY <2>2, <3>1, WanSet
    <3> QED BY <3>1, <3>2, WanSet DEF Observed, Heard
  <2>8. Internet \in Heard /\ Told(Internet, TRUE, data') = "down"
    BY <2>6 DEF Heard
  <2>9. InternetDown(data') /\ Settled(TRUE, data')
    BY <2>8 DEF Told
  <2>10. ~data'.wans[w].access
    BY <2>9 DEF InternetDown
  <2>11. Told(w, TRUE, data') = "down"
    BY <2>7, <2>9, <2>10 DEF Told, ProviderDown
  <2> QED BY <2>6, <2>7, <2>8, <2>11
<1>3. CASE \E dt \in 1 .. MaxStep : TickFails(dt)
  <2>1. \A w \in Wan : observed'[w] = "nothing"
    BY <1>3, WanSet DEF TickFails
  <2> QED BY <2>1 DEF OutageExplained, Present
<1>4. CASE Dump
  BY <1>4 DEF Dump, OutageExplained, payload, entities, history
<1>5. CASE Stop
  BY <1>5 DEF Stop, Unloaded, OutageExplained
<1>6. CASE Crash
  BY <1>6 DEF Crash, Unloaded, OutageExplained
<1>7. CASE UNCHANGED vars
  BY <1>7 DEF vars, payload, entities, history, OutageExplained
<1> QED BY <1>1, <1>2, <1>3, <1>4, <1>5, <1>6, <1>7 DEF Next

\* An outage of the router is explained by its providers: the clock of each
\* that is present and switched on runs from the same instant.
THEOREM OutageExplainedAlways == Spec => []OutageExplained
<1>1. Init => OutageExplained
  BY DEF Init, OutageExplained
<1> QED BY <1>1, Initially, Inductive, OutageInductive, PTL DEF Spec

-----------------------------------------------------------------------------
LEMMA WholeMonotone ==
    ASSUME NEW a \in Nat, NEW b \in Nat, a <= b PROVE Whole(a) <= Whole(b)
<1> USE TimeAssumption DEF TimeAssumption
<1> DEFINE p == a \div Second
           q == b \div Second
<1>1. /\ p \in Nat /\ q \in Nat
      /\ a = Second * p + (a % Second) /\ a % Second \in 0 .. Second - 1
      /\ b = Second * q + (b % Second) /\ b % Second \in 0 .. Second - 1
  OBVIOUS
<1>2. CASE q < p
  <2>1. Second * (q + 1) <= Second * p
    BY <1>1, <1>2
  <2>2. Second * (q + 1) = Second * q + Second
    BY <1>1
  <2>3. Second * q \in Nat /\ Second * p \in Nat
    BY <1>1
  <2> QED BY <1>1, <2>1, <2>2, <2>3
<1> QED BY <1>1, <1>2 DEF Whole

\* What is published of a clock.
Pub(k) ==
    /\ k.since = Stopped => k.pub = Whole(k.secs)
    /\ Whole(k.secs) - k.pub \in 0 .. PublishStep - 1

OnDisplay ==
    ha => /\ \A c \in Clock : Pub(clock[c])
          /\ \A w \in known : shown[w] \in {Hidden, clock[w].pub}

LEMMA PubAfter ==
    ASSUME NEW k \in ClockState, NEW told, NEW t \in Nat, Pub(k),
           k.since # Stopped => k.since <= t
    PROVE  Pub(Published(Accrued(k, told, t)))
<1> USE TimeAssumption DEF TimeAssumption
<1> DEFINE a == Accrued(k, told, t)
<1>1. a \in ClockState /\ a.secs \in Nat /\ a.pub = k.pub /\ k.pub \in Nat /\ k.secs \in Nat
  BY AccruedType DEF Accrued, ClockState
<1>2. k.secs <= a.secs
  <2>1. k.since \in {Stopped} \cup Nat
    BY DEF ClockState
  <2> QED BY <1>1, <2>1, AccruedValue DEF Stopped
<1>3. Whole(k.secs) <= Whole(a.secs) /\ Whole(k.secs) \in Nat /\ Whole(a.secs) \in Nat
  BY <1>1, <1>2, WholeMonotone, WholeType
<1>4. /\ Published(a).secs = a.secs /\ Published(a).since = a.since
      /\ Published(a).pub = IF Due(a) THEN Whole(a.secs) ELSE a.pub
  BY <1>1, PublishedValue
<1>5. CASE Due(a)
  BY <1>3, <1>4, <1>5 DEF Pub
<1>6. CASE ~Due(a)
  <2>1. \/ Whole(a.secs) = a.pub
        \/ a.since # Stopped /\ ~(Whole(a.secs) - a.pub >= PublishStep)
    BY <1>6 DEF Due
  <2>2. k.pub <= Whole(a.secs)
    BY <1>1, <1>3 DEF Pub
  <2>3. Whole(a.secs) - a.pub \in 0 .. PublishStep - 1
    BY <1>1, <1>3, <2>1, <2>2
  <2> QED BY <1>4, <1>6, <2>1, <2>3 DEF Pub
<1> QED BY <1>5, <1>6

\* An update leaves the totals of the entities that heard it in order.
LEMMA DisplayAfter ==
    ASSUME Inv, OnDisplay, ha, NEW success, NEW d, NEW t \in Nat, lastAt <= t,
           ClocksHear(success, d, t), ProvidersWrite(success, d),
           known' \subseteq Wan, known' \subseteq known \cup Present(d.wans)
    PROVE  OnDisplay'
<1>1. ASSUME NEW c \in Clock PROVE Pub(clock'[c])
  <2>1. clock[c] \in ClockState /\ Pub(clock[c])
    BY DEF Inv, TypeOK, OnDisplay
  <2>2. CASE c \in Heard
    <3>1. clock[c].since # Stopped => clock[c].since <= t
      BY DEF Inv, Running
    <3>2. clock'[c] = Published(Accrued(clock[c], Told(c, success, d), t))
      BY <2>2, HearType
    <3> QED BY <2>1, <3>1, <3>2, PubAfter
  <2>3. CASE c \notin Heard
    BY <2>1, <2>3, HearType
  <2> QED BY <2>2, <2>3
<1>2. ASSUME NEW w \in known' PROVE shown'[w] \in {Hidden, clock'[w].pub}
  <2>1. w \in Wan
    OBVIOUS
  <2>2. CASE w \in known /\ Writes(d, w)
    BY <2>1, <2>2 DEF ProvidersWrite
  <2>3. CASE w \in known /\ ~Writes(d, w)
    <3>1. shown'[w] = shown[w] /\ clock'[w].pub = clock[w].pub
      BY <2>1, <2>3 DEF ProvidersWrite, Writes, Moved
    <3> QED BY <2>3, <3>1 DEF OnDisplay
  <2>4. CASE w \notin known
    <3>1. w \in Present(d.wans)
      BY <2>4
    <3> QED BY <2>1, <2>4, <3>1 DEF ProvidersWrite
  <2> QED BY <2>2, <2>3, <2>4
<1> QED BY <1>1, <1>2 DEF OnDisplay

LEMMA DisplayInductive == Inv /\ OnDisplay /\ [Next]_vars => OnDisplay'
<1> SUFFICES ASSUME Inv, OnDisplay, [Next]_vars PROVE OnDisplay'
  OBVIOUS
<1>t. now \in Nat /\ lastAt \in Nat /\ lastAt <= now /\ known \subseteq Wan
  BY DEF Inv, TypeOK
<1>1. CASE \E dt \in 0 .. MaxStep : Start(dt)
  <2>1. ASSUME NEW c \in Clock PROVE Pub(clock'[c])
    <3>1. clock'[c] = Restored(saved.secs[c])
      BY <1>1 DEF Start
    <3>2. Whole(saved.secs[c]) \in Nat
      BY WholeType DEF Inv, TypeOK, SavedState
    <3>3. Whole(saved.secs[c]) - Whole(saved.secs[c]) \in 0 .. PublishStep - 1
      BY <3>2, TimeAssumption DEF TimeAssumption
    <3> QED BY <3>1, <3>3 DEF Restored, Pub
  <2>2. ASSUME NEW w \in known' PROVE shown'[w] \in {Hidden, clock'[w].pub}
    BY <1>1 DEF Start, Present
  <2> QED BY <2>1, <2>2 DEF OnDisplay
<1>2. CASE \E dt \in 1 .. MaxStep : Tick(dt)
  <2> PICK dt \in 1 .. MaxStep : Tick(dt)
    BY <1>2
  <2>1. now' \in Nat /\ lastAt <= now'
    BY <1>t, ElapseType, TimeAssumption DEF TimeAssumption, Tick, Inv
  <2>2. /\ ha /\ ClocksHear(TRUE, data', now') /\ ProvidersWrite(TRUE, data')
        /\ known' \subseteq Wan /\ known' \subseteq known \cup Present(data'.wans)
    BY <1>t DEF Tick, Listeners, Added, Present
  <2> QED BY <2>1, <2>2, DisplayAfter
<1>3. CASE \E dt \in 1 .. MaxStep : TickFails(dt)
  <2> PICK dt \in 1 .. MaxStep : TickFails(dt)
    BY <1>3
  <2>1. now' \in Nat /\ lastAt <= now'
    BY <1>t, ElapseType, TimeAssumption DEF TimeAssumption, TickFails, Inv
  <2>2. ha /\ ha' = ha /\ known' = known
    BY DEF TickFails
  <2>3. CASE ok
    <3>1. ClocksHear(FALSE, data, now') /\ ProvidersWrite(FALSE, data)
      BY <2>3 DEF TickFails, Listeners
    <3> QED BY <1>t, <2>1, <2>2, <3>1, DisplayAfter
  <2>4. CASE ~ok
    BY <2>2, <2>4 DEF TickFails, OnDisplay
  <2> QED BY <2>3, <2>4
<1>4. CASE Dump
  BY <1>4 DEF Dump, OnDisplay, entities
<1>5. CASE Stop
  BY <1>5 DEF Stop, Unloaded, OnDisplay
<1>6. CASE Crash
  BY <1>6 DEF Crash, Unloaded, OnDisplay
<1>7. CASE UNCHANGED vars
  BY <1>7 DEF vars, entities, OnDisplay
<1> QED BY <1>1, <1>2, <1>3, <1>4, <1>5, <1>6, <1>7 DEF Next

\* A total on display is the published one, exact as soon as its outage is over
\* and less than a publication step behind before.
THEOREM PublishedExactAlways == Spec => []PublishedExact
<1>1. Init => OnDisplay
  BY DEF Init, OnDisplay
<1>2. Inv /\ OnDisplay => PublishedExact
  <2> SUFFICES ASSUME Inv, OnDisplay, ha, NEW c \in known \cup {Internet}
               PROVE  /\ c \in Wan => shown[c] \in {Hidden, clock[c].pub}
                      /\ Pub(clock[c])
    BY DEF PublishedExact, Pub
  <2>1. c \in Clock /\ (c \in Wan => c \in known)
    BY WanSet DEF Inv, TypeOK
  <2> QED BY <2>1 DEF OnDisplay
<1> QED BY <1>1, <1>2, Initially, Inductive, DisplayInductive, PTL DEF Spec

=============================================================================
