---------------------- MODULE RefreshCoordinatorProofs ----------------------
(***************************************************************************)
(* Theorems about RefreshCoordinator, for every set of sources, every tier *)
(* and every bound.                                                        *)
(***************************************************************************)
EXTENDS RefreshCoordinator, TLAPS

(***************************************************************************)
(* The strengthening.  While a tick runs:                                  *)
(*   - its plan is what a tick beginning now would plan, except for        *)
(*     requests made since (PlanSound);                                    *)
(*   - a token seen at the start and still current means no request of     *)
(*     that kind arrived since (SnapSound);                                *)
(*   - such a tick read everything after the last request (ReadSound).     *)
(***************************************************************************)
PlanSound ==
    phase # "idle" =>
        \A s \in Source :
            /\ Due(s) => s \in plan
            /\ \A k \in Kind : snap[k].armed /\ s \in Covers[k] => s \in plan
            /\ s \in plan => Due(s) \/ Forced(s)

SnapSound ==
    phase # "idle" => \A k \in Kind : /\ snap[k].token <= token[k]
                                      /\ snap[k].armed => k \in pending

Current(k) == k \notin pending \/ (snap[k].armed /\ token[k] = snap[k].token)

ReadSound ==
    /\ \A k \in Kind : asked[k] <= gen
    /\ phase # "idle" =>
         \A k \in Kind : Current(k) =>
             \A s \in Source : outcome[s] # "none" => readAt[s] >= asked[k]

StageSound ==
    phase = "stage2" => \A s \in plan \ Stage2 : outcome[s] # "none"

RequestInv ==
    PlanSound /\ SnapSound /\ ReadSound /\ StageSound /\ RequestsHonoured

(***************************************************************************)
(* A tracked source whose flag and failure count disagree is read by the   *)
(* tick in flight, and by the next one should this one raise.              *)
(***************************************************************************)
Agrees(s) == s \in fresh <=> streak[s] <= OptGrace

FreshInv ==
    /\ ~published => blank = Source
    /\ \A s \in Tracked \ blank :
         ~Agrees(s) => /\ Due(s) \/ Forced(s)
                       /\ phase # "idle" => s \in plan
    /\ phase = "stage2" =>
         \A s \in (Tracked \cap plan) \ Stage2 :
             outcome[s] = "ok" => streak[s] = 0
    /\ FreshnessSound

OutageInv ==
    /\ phase = "stage2" => critStreak <= CritGrace
    /\ OutageSound

USE SourceAssumption, KindAssumption, TierAssumption, BoundAssumption
    DEF SourceAssumption, KindAssumption, TierAssumption, BoundAssumption

-----------------------------------------------------------------------------
(***************************************************************************)
(* Type correctness.                                                       *)
(***************************************************************************)
LEMMA CoversSource == \A k \in Kind : Covers[k] \subseteq Source
  BY DEF Covers

LEMMA NextStreakType ==
    ASSUME BooksType, NEW stage
    PROVE  NextStreak(stage) \in [Tracked -> 0 .. OptGrace + 1]
  BY DEF BooksType, NextStreak

LEMMA NextCritStreakType ==
    ASSUME BooksType
    PROVE  NextCritStreak \in 0 .. CritGrace + 1
  BY DEF BooksType, NextCritStreak, Decision

LEMMA NoTickType == NoTick => TickType'
  BY DEF NoTick, TickType, Outcome

LEMMA NewCoordinatorType ==
    ASSUME NewCoordinator, NoTick, TypeOK, scheduled' \in BOOLEAN,
           UNCHANGED <<gen, asked>>
    PROVE  TypeOK'
<1>1. SnapshotType'
  <2>1. value' \in [Source -> 0 .. MaxGen] BY DEF NewCoordinator
  <2> QED BY <2>1 DEF NewCoordinator, SnapshotType
<1>2. BooksType'
  BY DEF NewCoordinator, BooksType, FastInterval
<1>3. RequestsType'
  BY DEF NewCoordinator, RequestsType
<1>4. HistoryType'
  BY DEF NewCoordinator, HistoryType, TypeOK
<1> QED BY <1>1, <1>2, <1>3, <1>4, NoTickType DEF TypeOK

LEMMA RaiseType ==
    ASSUME Raise, NoTick, TypeOK, UNCHANGED <<gen, asked>>,
           scheduled' \in BOOLEAN,
           published => /\ backoffCount' \in 0 .. 2
                        /\ interval' \in {FastInterval, SlowInterval}
    PROVE  TypeOK'
<1>1. CASE published
  <2>1. /\ streak' = NextStreak(Source \ Stage2)
        /\ critStreak' = NextCritStreak
        /\ lastSuccess' = FALSE
        /\ UNCHANGED <<snapshot, refreshCount, requests, triedAt>>
    BY <1>1 DEF Raise
  <2>2. SnapshotType' /\ RequestsType' /\ HistoryType'
    BY <2>1 DEF TypeOK, SnapshotType, RequestsType, HistoryType, snapshot,
                requests
  <2>3. BooksType'
    BY <1>1, <2>1, NextStreakType, NextCritStreakType DEF TypeOK, BooksType
  <2> QED BY <2>2, <2>3, NoTickType DEF TypeOK
<1>2. CASE ~published
  BY <1>2, NewCoordinatorType DEF Raise
<1> QED BY <1>1, <1>2

LEMMA TypeInit == Init => TypeOK
<1> SUFFICES ASSUME Init PROVE TypeOK OBVIOUS
<1>1. SnapshotType
  <2>1. value \in [Source -> 0 .. MaxGen] BY DEF Init
  <2> QED BY <2>1 DEF Init, SnapshotType
<1>2. BooksType BY DEF Init, BooksType, FastInterval
<1>3. RequestsType BY DEF Init, RequestsType
<1>4. TickType BY DEF Init, TickType, Outcome
<1>5. HistoryType BY DEF Init, HistoryType
<1> QED BY <1>1, <1>2, <1>3, <1>4, <1>5 DEF TypeOK

LEMMA TypeStep == TypeOK /\ [Next]_vars => TypeOK'
<1> SUFFICES ASSUME TypeOK, [Next]_vars PROVE TypeOK' OBVIOUS
<1> USE DEF TypeOK
<1>1. CASE Command
  BY <1>1 DEF Command, SnapshotType, BooksType, RequestsType, TickType,
              HistoryType, snapshot, books, requests, tick
<1>2. ASSUME NEW k \in Kind, Request(k) PROVE TypeOK'
  <2>1. RequestsType'
    BY <1>2 DEF Request, RequestsType
  <2>2. HistoryType'
    BY <1>2 DEF Request, HistoryType
  <2> QED BY <1>2, <2>1, <2>2 DEF Request, SnapshotType, BooksType, TickType,
                                  snapshot, books, tick
<1>3. CASE TickBegin
  <2>1. TickType' BY <1>3 DEF TickBegin, TickType, RequestsType, Outcome
  <2> QED BY <1>3, <2>1 DEF TickBegin, SnapshotType, BooksType, RequestsType,
                            HistoryType, snapshot, books, requests
<1>4. ASSUME NEW s \in Source, Read(s) PROVE TypeOK'
  <2>1. TickType' BY <1>4 DEF Read, TickType, HistoryType, Outcome
  <2> QED BY <1>4, <2>1 DEF Read, SnapshotType, BooksType, RequestsType,
                            HistoryType, snapshot, books, requests
<1>5. CASE RaiseAuth
  BY <1>5, RaiseType DEF RaiseAuth, BooksType, HistoryType
<1>6. CASE RaiseOutage
  BY <1>6, RaiseType DEF RaiseOutage, BooksType, BackoffInterval
<1>7. CASE RaiseEmpty
  BY <1>7, RaiseType DEF RaiseEmpty, BooksType
<1>8. CASE BeginStage2
  <2>1. BooksType'
    BY <1>8, NextStreakType, NextCritStreakType DEF BeginStage2, BooksType
  <2> QED BY <1>8, <2>1 DEF BeginStage2, SnapshotType, RequestsType, TickType,
                            HistoryType, snapshot, requests
<1>9. CASE Publish
  <2>1. SnapshotType'
    BY <1>9 DEF Publish, SnapshotType, TickType
  <2>2. BooksType'
    BY <1>9, NextStreakType DEF Publish, BooksType, RestoredInterval,
                                FastInterval
  <2>3. RequestsType' /\ HistoryType'
    BY <1>9 DEF Publish, RequestsType, HistoryType, TickType
  <2> QED BY <1>9, <2>1, <2>2, <2>3, NoTickType DEF Publish
<1>10. CASE Reload
  BY <1>10, NewCoordinatorType DEF Reload
<1>11. CASE UNCHANGED vars
  BY <1>11 DEF SnapshotType, BooksType, RequestsType, TickType, HistoryType,
               vars, snapshot, books, requests, tick
<1> QED
  BY <1>1, <1>2, <1>3, <1>4, <1>5, <1>6, <1>7, <1>8, <1>9, <1>10, <1>11
  DEF Next, TickStep

\* Every variable keeps its type: the coordinator's counters stay within the
\* values the code tells apart.
THEOREM TypeCorrect == Spec => []TypeOK
<1> QED BY TypeInit, TypeStep, PTL DEF Spec

-----------------------------------------------------------------------------
(***************************************************************************)
(* No request is lost.                                                     *)
(***************************************************************************)
LEMMA NewCoordinatorRequest ==
    ASSUME NewCoordinator, NoTick, RequestInv, UNCHANGED <<gen, asked>>
    PROVE  RequestInv'
  BY DEF NewCoordinator, NoTick, RequestInv, PlanSound, SnapSound, ReadSound,
         StageSound, RequestsHonoured

LEMMA RaiseRequest ==
    ASSUME Raise, NoTick, RequestInv, UNCHANGED <<gen, asked>>
    PROVE  RequestInv'
<1>1. CASE published
  BY <1>1 DEF Raise, NoTick, RequestInv, PlanSound, SnapSound, ReadSound,
              StageSound, RequestsHonoured, snapshot, requests
<1>2. CASE ~published
  BY <1>2, NewCoordinatorRequest DEF Raise
<1> QED BY <1>1, <1>2

LEMMA RequestInit == Init => RequestInv
  BY CoversSource
  DEF Init, RequestInv, PlanSound, SnapSound, ReadSound, StageSound,
      RequestsHonoured

\* A request that arrives during a tick outdates the token the tick took.
LEMMA RequestRequest ==
    ASSUME TypeOK, RequestInv, NEW k \in Kind, Request(k)
    PROVE  RequestInv'
<1> USE DEF Request, TypeOK, RequestsType, TickType, HistoryType, snapshot,
            books, tick
<1>1. PlanSound'
  BY DEF RequestInv, PlanSound, Due, Forced
<1>2. SnapSound'
  BY DEF RequestInv, SnapSound
<1>3. ReadSound'
  <2>1. \A j \in Kind : asked'[j] <= gen'
    BY DEF RequestInv, ReadSound
  <2>2. phase # "idle" => ~Current(k)'
    BY DEF RequestInv, SnapSound, Current
  <2>3. \A j \in Kind \ {k} : /\ Current(j)' => Current(j)
                               /\ asked'[j] = asked[j]
    BY DEF Current
  <2> QED BY <2>1, <2>2, <2>3 DEF RequestInv, ReadSound
<1>4. StageSound' /\ RequestsHonoured'
  BY DEF RequestInv, StageSound, RequestsHonoured
<1> QED BY <1>1, <1>2, <1>3, <1>4 DEF RequestInv

\* Whatever a tick publishes for a request it consumes, it read after it.
LEMMA PublishRequest ==
    ASSUME TypeOK, RequestInv, Publish
    PROVE  RequestInv'
<1>1. PlanSound' /\ SnapSound' /\ StageSound'
  BY DEF Publish, NoTick, PlanSound, SnapSound, StageSound
<1>2. ReadSound'
  BY DEF Publish, NoTick, RequestInv, ReadSound
<1>3. RequestsHonoured'
  <2> SUFFICES ASSUME NEW k \in Kind \ pending', NEW s \in Covers[k]
               PROVE  triedAt'[s] >= asked'[k]
    BY DEF RequestsHonoured
  <2> s \in Source
    BY CoversSource
  <2>1. Current(k)
    BY DEF Publish, Consumed, Current
  <2>2. CASE s \in plan
    <3>1. outcome[s] # "none"
      BY <2>2 DEF Publish, StageDone, Reading, RequestInv, StageSound
    <3>2. readAt[s] >= asked[k]
      BY <2>1, <3>1 DEF Publish, RequestInv, ReadSound
    <3> QED BY <2>2, <3>2 DEF Publish
  <2>3. CASE s \notin plan
    <3>1. published /\ ~snap[k].armed
      BY <2>3 DEF Publish, RequestInv, PlanSound, Due
    <3>2. k \notin pending
      BY <3>1, <2>1 DEF Current
    <3>3. triedAt[s] >= asked[k]
      BY <3>1, <3>2 DEF RequestInv, RequestsHonoured
    <3> QED BY <2>3, <3>3 DEF Publish
  <2> QED BY <2>2, <2>3
<1> QED BY <1>1, <1>2, <1>3 DEF RequestInv

\* A tick begins by looking at every flag, and has read nothing yet.
LEMMA TickBeginRequest ==
    ASSUME TypeOK, RequestInv, TickBegin
    PROVE  RequestInv'
<1>1. PlanSound'
  BY DEF TickBegin, PlanSound, Due, Forced, snapshot, books, requests
<1>2. SnapSound'
  <2> SUFFICES ASSUME NEW k \in Kind
               PROVE  /\ snap'[k].token <= token'[k]
                      /\ snap'[k].armed => k \in pending'
    BY DEF SnapSound
  <2>1. token[k] \in Nat
    BY DEF TypeOK, RequestsType
  <2>2. snap'[k].token = token[k] /\ token'[k] = token[k]
    BY DEF TickBegin, requests
  <2>3. snap'[k].armed => k \in pending'
    BY DEF TickBegin, requests
  <2> QED BY <2>1, <2>2, <2>3
<1>3. ReadSound'
  BY DEF TickBegin, RequestInv, ReadSound, Current, requests
<1>4. StageSound'
  BY DEF TickBegin, StageSound
<1>5. RequestsHonoured'
  BY DEF TickBegin, RequestInv, RequestsHonoured, snapshot, requests
<1> QED BY <1>1, <1>2, <1>3, <1>4, <1>5 DEF RequestInv

LEMMA RequestStep == TypeOK /\ RequestInv /\ [Next]_vars => RequestInv'
<1> SUFFICES ASSUME TypeOK, RequestInv, [Next]_vars PROVE RequestInv' OBVIOUS
<1> USE DEF PlanSound, SnapSound, ReadSound, StageSound, RequestsHonoured, Due,
            Forced, Current
<1>1. CASE Command
  <2>1. ReadSound'
    BY <1>1 DEF Command, RequestInv, TypeOK, HistoryType, requests, tick
  <2>2. PlanSound' /\ SnapSound'
    BY <1>1 DEF Command, RequestInv, snapshot, books, requests, tick
  <2>3. StageSound' /\ RequestsHonoured'
    BY <1>1 DEF Command, RequestInv, snapshot, requests, tick
  <2> QED BY <2>1, <2>2, <2>3 DEF RequestInv
<1>2. ASSUME NEW k \in Kind, Request(k) PROVE RequestInv'
  BY <1>2, RequestRequest
<1>3. CASE TickBegin
  BY <1>3, TickBeginRequest
<1>4. ASSUME NEW s \in Source, Read(s) PROVE RequestInv'
  <2>1. ReadSound'
    BY <1>4 DEF Read, RequestInv, TypeOK, TickType, HistoryType, requests
  <2>2. StageSound'
    BY <1>4 DEF Read, RequestInv, TypeOK, TickType
  <2> QED BY <1>4, <2>1, <2>2 DEF Read, RequestInv, snapshot, books, requests
<1>5. CASE RaiseAuth \/ RaiseOutage \/ RaiseEmpty
  BY <1>5, RaiseRequest DEF RaiseAuth, RaiseOutage, RaiseEmpty
<1>6. CASE BeginStage2
  BY <1>6 DEF BeginStage2, RequestInv, Stage1Over, StageDone, Reading,
              snapshot, requests
<1>7. CASE Publish
  BY <1>7, PublishRequest
<1>8. CASE Reload
  BY <1>8, NewCoordinatorRequest DEF Reload
<1>9. CASE UNCHANGED vars
  BY <1>9 DEF RequestInv, vars, snapshot, books, requests, tick
<1> QED
  BY <1>1, <1>2, <1>3, <1>4, <1>5, <1>6, <1>7, <1>8, <1>9 DEF Next, TickStep

\* No one-shot request is lost, whatever interleaving of commands, requests,
\* ticks, failures and reloads: a request whose flag is down was answered by a
\* tick that read everything it covers after it was made.
THEOREM RequestsAreHonoured == Spec => []RequestsHonoured
<1>1. Spec => []RequestInv
  BY RequestInit, RequestStep, TypeCorrect, PTL DEF Spec
<1>2. RequestInv => RequestsHonoured
  BY DEF RequestInv
<1> QED BY <1>1, <1>2, PTL

-----------------------------------------------------------------------------
(***************************************************************************)
(* Freshness flags and failure counts.                                     *)
(***************************************************************************)
LEMMA NewCoordinatorFresh ==
    ASSUME NewCoordinator, NoTick
    PROVE  FreshInv'
  BY DEF NewCoordinator, NoTick, FreshInv, FreshnessSound

LEMMA FreshInit == Init => FreshInv
  BY DEF Init, FreshInv, FreshnessSound

\* A tick that raises counts failures of sources it will plan again.
LEMMA RaiseFresh ==
    ASSUME TypeOK, PlanSound, FreshInv, Raise, NoTick, Stage1Over
    PROVE  FreshInv'
<1>1. CASE published
  <2>1. /\ streak' = NextStreak(Source \ Stage2)
        /\ lastSuccess' = FALSE
        /\ UNCHANGED <<published, blank, fresh, refreshCount, pending>>
    BY <1>1 DEF Raise, snapshot, requests
  <2>2. ASSUME NEW s \in Tracked \ blank, ~Agrees(s)'
        PROVE  Due(s)' \/ Forced(s)'
    <3>1. s \in plan
      BY <2>1, <2>2 DEF NextStreak, Agrees, FreshInv, Stage1Over
    <3>2. Due(s) \/ Forced(s)
      BY <3>1 DEF PlanSound, Stage1Over
    <3> QED BY <2>1, <3>2 DEF Due, Forced
  <2> QED BY <1>1, <2>1, <2>2 DEF NoTick, FreshInv, FreshnessSound
<1>2. CASE ~published
  BY <1>2, NewCoordinatorFresh DEF Raise
<1> QED BY <1>1, <1>2

LEMMA BeginStage2Fresh ==
    ASSUME TypeOK, PlanSound, FreshInv, BeginStage2
    PROVE  FreshInv'
<1>1. /\ streak' = NextStreak(Source \ Stage2)
      /\ phase = "stage1" /\ phase' = "stage2"
      /\ UNCHANGED <<published, blank, fresh, refreshCount, pending, plan,
                     outcome>>
  BY DEF BeginStage2, Stage1Over, snapshot, requests
<1>2. ASSUME NEW s \in Tracked \ blank, ~Agrees(s)'
      PROVE  s \in plan /\ (Due(s)' \/ Forced(s)')
  <2>1. s \in plan
    BY <1>1, <1>2 DEF NextStreak, Agrees, FreshInv
  <2>2. Due(s) \/ Forced(s)
    BY <1>1, <2>1 DEF PlanSound
  <2> QED BY <1>1, <2>1, <2>2 DEF Due, Forced
<1>3. \A s \in (Tracked \cap plan) \ Stage2 :
          outcome[s] = "ok" => streak'[s] = 0
  BY <1>1 DEF NextStreak
<1> QED BY <1>1, <1>2, <1>3 DEF FreshInv, FreshnessSound

LEMMA PublishFresh ==
    ASSUME TypeOK, PlanSound, FreshInv, Publish
    PROVE  FreshInv'
<1> DEFINE s2 == NextStreak(Stage2)
<1>1. /\ phase = "stage2" /\ phase' = "idle"
      /\ streak' = s2
      /\ published' = TRUE
      /\ blank' = (blank \ ReadOk) \cup (Volatile \cap ReadLost)
  BY DEF Publish, NoTick
<1>f. fresh' = {s \in Tracked :
                   IF s \notin plan THEN s \in fresh
                   ELSE \/ outcome[s] = "ok"
                        \/ published /\ s2[s] <= OptGrace}
  BY DEF Publish
<1>2. ASSUME NEW s \in Tracked \ blank' PROVE Agrees(s)'
  <2>1. s \in Source /\ s \notin Volatile
    OBVIOUS
  <2>2. s \notin blank \/ s \in ReadOk
    BY <1>1, <1>2
  <2>3. CASE s \in plan /\ outcome[s] = "ok"
    <3>1. s2[s] = 0
      BY <1>1, <2>1, <2>3 DEF NextStreak, FreshInv
    <3>2. s \in fresh'
      BY <1>f, <2>3
    <3> QED BY <1>1, <3>1, <3>2 DEF Agrees
  <2>4. CASE s \in plan /\ outcome[s] # "ok"
    <3>1. published
      BY <2>1, <2>2, <2>4 DEF ReadOk, FreshInv
    <3> QED BY <1>1, <1>f, <2>4, <3>1 DEF Agrees
  <2>5. CASE s \notin plan
    <3>1. Agrees(s)
      BY <1>1, <2>2, <2>5 DEF ReadOk, FreshInv
    <3>2. s2[s] = streak[s]
      BY <2>5 DEF NextStreak
    <3> QED BY <1>1, <1>f, <2>5, <3>1, <3>2 DEF Agrees
  <2> QED BY <2>3, <2>4, <2>5
<1> QED BY <1>1, <1>2 DEF FreshInv, FreshnessSound, Agrees

LEMMA FreshStep ==
    TypeOK /\ PlanSound /\ FreshInv /\ [Next]_vars => FreshInv'
<1> SUFFICES ASSUME TypeOK, PlanSound, FreshInv, [Next]_vars PROVE FreshInv'
  OBVIOUS
<1> USE DEF Agrees, Due, Forced, FreshnessSound
<1>1. CASE Command
  BY <1>1 DEF Command, FreshInv, snapshot, books, requests, tick
<1>2. ASSUME NEW k \in Kind, Request(k) PROVE FreshInv'
  BY <1>2 DEF Request, FreshInv, snapshot, books, tick
<1>3. CASE TickBegin
  BY <1>3 DEF TickBegin, FreshInv, snapshot, books, requests
<1>4. ASSUME NEW s \in Source, Read(s) PROVE FreshInv'
  <2>1. \A r \in Source \ Stage2 :
            phase = "stage2" => outcome'[r] = outcome[r]
    BY <1>4 DEF Read, Reading, TypeOK, TickType
  <2> QED BY <1>4, <2>1 DEF Read, FreshInv, snapshot, books, requests
<1>5. CASE RaiseAuth \/ RaiseOutage \/ RaiseEmpty
  BY <1>5, RaiseFresh DEF RaiseAuth, RaiseOutage, RaiseEmpty
<1>6. CASE BeginStage2
  BY <1>6, BeginStage2Fresh
<1>7. CASE Publish
  BY <1>7, PublishFresh
<1>8. CASE Reload
  BY <1>8, NewCoordinatorFresh DEF Reload
<1>9. CASE UNCHANGED vars
  BY <1>9 DEF FreshInv, vars, snapshot, books, requests, tick
<1> QED
  BY <1>1, <1>2, <1>3, <1>4, <1>5, <1>6, <1>7, <1>8, <1>9 DEF Next, TickStep

\* The published "<name>_fresh" flag of a source that was ever read says, after
\* every successful tick, whether its failures fit the grace window - although
\* ticks that raised in between moved the count and not the flag.
THEOREM FreshnessIsSound == Spec => []FreshnessSound
<1>1. Spec => [](TypeOK /\ RequestInv)
  BY RequestInit, RequestStep, TypeCorrect, PTL DEF Spec
<1>2. RequestInv => PlanSound
  BY DEF RequestInv
<1>3. Spec => []FreshInv
  BY <1>1, <1>2, FreshInit, FreshStep, PTL DEF Spec
<1>4. FreshInv => FreshnessSound
  BY DEF FreshInv
<1> QED BY <1>3, <1>4, PTL

-----------------------------------------------------------------------------
(***************************************************************************)
(* The critical grace window and the poll interval.                        *)
(***************************************************************************)
LEMMA OutageStep == TypeOK /\ OutageInv /\ [Next]_vars => OutageInv'
<1> SUFFICES ASSUME TypeOK, OutageInv, [Next]_vars PROVE OutageInv' OBVIOUS
<1> USE DEF OutageInv, OutageSound, TypeOK, BooksType, FastInterval,
            SlowInterval
<1>1. CASE Command
  BY <1>1 DEF Command, books, tick
<1>2. ASSUME NEW k \in Kind, Request(k) PROVE OutageInv'
  BY <1>2 DEF Request, books, tick
<1>3. CASE TickBegin
  BY <1>3 DEF TickBegin, books
<1>4. ASSUME NEW s \in Source, Read(s) PROVE OutageInv'
  BY <1>4 DEF Read, books
<1>5. CASE RaiseAuth \/ RaiseEmpty
  BY <1>5 DEF RaiseAuth, RaiseEmpty, Raise, NewCoordinator, NoTick
<1>6. CASE RaiseOutage
  BY <1>6 DEF RaiseOutage, Raise, NewCoordinator, NoTick, BackoffInterval
<1>7. CASE BeginStage2
  BY <1>7 DEF BeginStage2, NextCritStreak, Decision
<1>8. CASE Publish
  BY <1>8 DEF Publish, NoTick, RestoredInterval
<1>9. CASE Reload
  BY <1>9 DEF Reload, NewCoordinator, NoTick
<1>10. CASE UNCHANGED vars
  BY <1>10 DEF vars, books, tick
<1> QED
  BY <1>1, <1>2, <1>3, <1>4, <1>5, <1>6, <1>7, <1>8, <1>9, <1>10
  DEF Next, TickStep

\* An entry is available only inside the critical grace window, and whenever
\* it is available it is polled at the fast interval.
THEOREM OutageIsSound == Spec => []OutageSound
<1>1. Init => OutageInv
  BY DEF Init, OutageInv, OutageSound, FastInterval, SlowInterval
<1>2. OutageInv => OutageSound
  BY DEF OutageInv
<1> QED BY <1>1, <1>2, OutageStep, TypeCorrect, PTL DEF Spec

\* Home Assistant stops polling only where the user is told: an entry with no
\* tick running and none scheduled has no snapshot yet, or shows its last update
\* as failed.  This is what "polling goes on" in RequestsServed and Converges can
\* fail by: no debounced request that is dropped, and no tick that raises for
\* any other reason, ends the polling of an entry that looks healthy.
THEOREM PollingStopsVisibly == Spec => [](Parked => ~published \/ ~lastSuccess)
<1> DEFINE Visible == Parked => ~published \/ ~lastSuccess
<1> USE DEF Parked
<1>1. Init => Visible
  BY DEF Init
<1>2. TypeOK /\ Visible /\ [Next]_vars => Visible'
  <2> SUFFICES ASSUME TypeOK, Visible, [Next]_vars PROVE Visible'
    OBVIOUS
  <2>1. CASE Command
    BY <2>1 DEF Command, snapshot, books, tick
  <2>2. ASSUME NEW k \in Kind, Request(k) PROVE Visible'
    BY <2>2 DEF Request, snapshot, books, tick, TypeOK, HistoryType
  <2>3. CASE TickBegin
    BY <2>3 DEF TickBegin
  <2>4. ASSUME NEW s \in Source, Read(s) PROVE Visible'
    BY <2>4 DEF Read, snapshot, books
  <2>5. CASE RaiseAuth
    BY <2>5 DEF RaiseAuth, Raise, NewCoordinator, snapshot
  <2>6. CASE RaiseOutage \/ RaiseEmpty \/ Publish \/ Reload
    BY <2>6 DEF RaiseOutage, RaiseEmpty, Publish, Reload
  <2>7. CASE BeginStage2
    BY <2>7 DEF BeginStage2
  <2>8. CASE UNCHANGED vars
    BY <2>8 DEF vars, snapshot, books, tick
  <2> QED
    BY <2>1, <2>2, <2>3, <2>4, <2>5, <2>6, <2>7, <2>8 DEF Next, TickStep
<1> HIDE DEF Visible
<1>3. Spec => []Visible
  BY <1>1, <1>2, TypeCorrect, PTL DEF Spec
<1> QED
  BY <1>3 DEF Visible

-----------------------------------------------------------------------------
(***************************************************************************)
(* The requests implement the mailbox.                                     *)
(***************************************************************************)
LEMMA ReplaceMapped == NewCoordinator /\ NoTick => Mailbox!Replace
BY DEF NewCoordinator, NoTick, Mailbox!Replace, Waiting, Taken

\* A tick that raises puts everything it took up back.
LEMMA RaiseMapped ==
    ASSUME SnapSound, RequestsType, phase # "idle", Raise, NoTick,
           pending \subseteq Kind
    PROVE  Mailbox!Next
<1>1. CASE published
  <2>1. Mailbox!GiveUp
    BY <1>1 DEF Raise, NoTick, Mailbox!GiveUp, Waiting, Taken, SnapSound,
                requests, snapshot
  <2> QED BY <2>1 DEF Mailbox!Next
<1>2. CASE ~published
  BY <1>2, ReplaceMapped DEF Raise, Mailbox!Next
<1> QED BY <1>1, <1>2

\* Asking while a tick runs puts the kind in front of the next tick.
LEMMA RequestMapped ==
    ASSUME TypeOK, SnapSound, NEW k \in Kind, Request(k)
    PROVE  Mailbox!Post(k)
<1> USE DEF Request, TypeOK, RequestsType, TickType, tick
<1>1. published /\ published' = published
  BY DEF snapshot
<1>2. Taken' = Taken
  BY DEF Taken
<1>3. Waiting' \subseteq Waiting \cup {k}
  BY DEF Waiting
<1>4. Waiting \subseteq Waiting'
  BY DEF Waiting, SnapSound
<1>5. k \in Waiting'
  BY DEF Waiting, SnapSound
<1> QED BY <1>1, <1>2, <1>3, <1>4, <1>5 DEF Mailbox!Post

LEMMA MailboxStep ==
    TypeOK /\ SnapSound /\ [Next]_vars => [Mailbox!Next]_(Mailbox!vars)
<1> SUFFICES ASSUME TypeOK, SnapSound, [Next]_vars
             PROVE  Mailbox!Next \/ UNCHANGED <<published, Waiting, Taken>>
  BY DEF Mailbox!vars
<1> USE DEF TypeOK, RequestsType
<1>1. CASE Command
  BY <1>1 DEF Command, snapshot, requests, tick, Waiting, Taken
<1>2. ASSUME NEW k \in Kind, Request(k) PROVE Mailbox!Next
  BY <1>2, RequestMapped DEF Mailbox!Next
<1>3. CASE TickBegin
  <2>1. Mailbox!Begin
    BY <1>3 DEF TickBegin, Mailbox!Begin, Waiting, Taken, snapshot, requests
  <2> QED BY <2>1 DEF Mailbox!Next
<1>4. ASSUME NEW s \in Source, Read(s)
      PROVE  UNCHANGED <<published, Waiting, Taken>>
  BY <1>4 DEF Read, Reading, snapshot, requests, Waiting, Taken
<1>5. CASE RaiseAuth \/ RaiseOutage \/ RaiseEmpty
  BY <1>5, RaiseMapped DEF RaiseAuth, RaiseOutage, RaiseEmpty, Stage1Over
<1>6. CASE BeginStage2
  BY <1>6 DEF BeginStage2, Stage1Over, snapshot, requests, Waiting, Taken
<1>7. CASE Publish
  <2>1. Mailbox!Answer
    BY <1>7 DEF Publish, NoTick, Consumed, Mailbox!Answer, Waiting, Taken
  <2> QED BY <2>1 DEF Mailbox!Next
<1>8. CASE Reload
  BY <1>8, ReplaceMapped DEF Reload, Mailbox!Next
<1>9. CASE UNCHANGED vars
  BY <1>9 DEF vars, snapshot, requests, tick, Waiting, Taken
<1> QED
  BY <1>1, <1>2, <1>3, <1>4, <1>5, <1>6, <1>7, <1>8, <1>9 DEF Next, TickStep

\* However requests and ticks interleave, the entities see a mailbox: what is
\* asked for while a tick runs is left for a later tick, what a raised tick had
\* taken up is put back, and nothing else disappears.
THEOREM RequestsAreAMailbox == Spec => MailboxSpec
<1>1. Init => Mailbox!Init
  BY DEF Init, Mailbox!Init, Waiting, Taken
<1>2. Spec => [](TypeOK /\ RequestInv)
  BY RequestInit, RequestStep, TypeCorrect, PTL DEF Spec
<1>3. RequestInv => SnapSound
  BY DEF RequestInv
<1> QED
  BY <1>1, <1>2, <1>3, MailboxStep, PTL DEF Spec, MailboxSpec, Mailbox!Spec
=============================================================================
