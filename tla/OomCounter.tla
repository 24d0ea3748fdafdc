----------------------------- MODULE OomCounter -----------------------------
(***************************************************************************)
(* The out-of-memory counter: router log lines, which carry a local time   *)
(* in whole seconds and no identity, are folded into a total that is kept  *)
(* in Home Assistant's storage (coordinator_parts/oom.py and the counter's *)
(* block of coordinator.py).                                               *)
(*                                                                         *)
(* An event is its position in the router's log; stamp[i] is the second it *)
(* was logged in, 1, 2, ...; 0 stands for "no timestamp" (None).           *)
(***************************************************************************)
EXTENDS Integers, FiniteSets, FiniteSetsExt

CONSTANTS
    MaxEvents,  \* bound: events logged
    MaxTime,    \* bound: seconds of Home Assistant's clock
    MaxSkew,    \* by how much the router's clock may be ahead
    MaxFolds,   \* bound: times both clocks are set back by a second (DST)
    MaxDelay    \* the cap of the save backoff, in ticks (15 in the code)

ASSUME BoundAssumption ==
    /\ MaxEvents \in Nat
    /\ MaxTime \in Nat \ {0}
    /\ MaxSkew \in Nat
    /\ MaxFolds \in Nat
    /\ MaxDelay \in Nat \ {0}

Event == 1 .. MaxEvents
Stamp == 1 .. MaxTime + MaxSkew
Record == [last : Stamp \cup {0}, mark : 0 .. MaxEvents, total : Nat]

Zero == [last |-> 0, mark |-> 0, total |-> 0]

VARIABLES
    now,     \* Home Assistant's clock
    skew,    \* the router's clock runs ahead by this much
    folds,   \* times the clocks were set back
    logged,  \* number of events in the router's log so far
    stamp,   \* stamp[i]: when event i was logged
    cut,     \* events 1 .. cut have rotated out of the log window
    mem,     \* _oom_state
    loaded,  \* _oom_state_loaded
    dirty,   \* _oom_state_dirty
    delay,   \* _oom_save_backoff_ticks
    retry,   \* _oom_save_retry_after
    disk,    \* the stored record
    phase,   \* "idle", "tick": the log has been read
    events,  \* the events this tick read
    kept,    \* the events of the published diagnostics
    seen,    \* history: the events taken into account in mem
    stored   \* history: the same for disk

clocks == <<now, skew, folds>>
router == <<logged, stamp, cut>>
store  == <<mem, loaded, dirty, delay, retry, disk>>
tick   == <<phase, events, kept>>
vars   == <<clocks, router, store, tick, seen, stored>>

TypeOK ==
    /\ now \in 1 .. MaxTime
    /\ skew \in 0 .. MaxSkew
    /\ folds \in 0 .. MaxFolds
    /\ logged \in 0 .. MaxEvents
    /\ stamp \in [1 .. logged -> Stamp]
    /\ cut \in 0 .. logged
    /\ mem \in Record
    /\ loaded \in BOOLEAN
    /\ dirty \in BOOLEAN
    /\ delay \in 0 .. MaxDelay
    /\ retry \in 0 .. MaxDelay - 1
    /\ disk \in Record
    /\ phase \in {"idle", "tick"}
    /\ events \subseteq 1 .. logged
    /\ kept \subseteq 1 .. logged
    /\ seen \subseteq 1 .. logged
    /\ stored \subseteq 1 .. logged

\* The constructor of a coordinator: the counter is zero until it is loaded.
Fresh ==
    /\ mem' = Zero
    /\ loaded' = FALSE
    /\ dirty' = FALSE
    /\ delay' = 0
    /\ retry' = 0
    /\ phase' = "idle"
    /\ events' = {}
    /\ kept' = {}
    /\ seen' = {}

\* Nothing stored yet, or the record of a version that stored no mark.
Init ==
    /\ now = 1
    /\ skew \in 0 .. MaxSkew
    /\ folds = 0
    /\ cut = 0
    /\ \/ /\ logged = 0
          /\ disk = Zero
          /\ stored = {}
       \/ /\ MaxEvents > 0
          /\ logged = 1
          /\ disk = [last |-> 1, mark |-> 0, total |-> 1]
          /\ stored = {1}
    /\ stamp = [i \in 1 .. logged |-> 1]
    /\ mem = Zero
    /\ loaded = FALSE
    /\ dirty = FALSE
    /\ delay = 0
    /\ retry = 0
    /\ phase = "idle"
    /\ events = {}
    /\ kept = {}
    /\ seen = {}

-----------------------------------------------------------------------------
(***************************************************************************)
(* The router and the clocks.                                              *)
(***************************************************************************)
Log ==
    /\ logged < MaxEvents
    /\ logged' = logged + 1
    /\ stamp' = [i \in 1 .. logged' |-> IF i <= logged THEN stamp[i]
                                        ELSE now + skew]
    /\ UNCHANGED <<clocks, cut, store, tick, seen, stored>>

\* Other log lines push the oldest event out of the window that is read.
Rotate ==
    /\ cut < logged
    /\ cut' = cut + 1
    /\ UNCHANGED <<clocks, logged, stamp, store, tick, seen, stored>>

Pass ==
    /\ now < MaxTime
    /\ now' = now + 1
    /\ UNCHANGED <<skew, folds, router, store, tick, seen, stored>>

\* The end of daylight saving time: both clocks show local time.
Fold ==
    /\ now > 1
    /\ folds < MaxFolds
    /\ now' = now - 1
    /\ folds' = folds + 1
    /\ UNCHANGED <<skew, router, store, tick, seen, stored>>

-----------------------------------------------------------------------------
(***************************************************************************)
(* The tick.                                                               *)
(***************************************************************************)
Visible == cut + 1 .. logged

\* On the very slow tier the log is read; a read that fails in a way the API
\* client does not catch leaves the events of the previous snapshot in place.
ReadLog ==
    /\ phase = "idle"
    /\ phase' = "tick"
    /\ events' \in {Visible, kept, {}}
    /\ UNCHANGED <<clocks, router, store, kept, seen, stored>>

\* advance_oom_state: the record m after the events of the tick.
Due == {i \in events : stamp[i] <= now}

At(t) == Cardinality({i \in Due : stamp[i] = t})

\* A record without a mark stands for one event at its second.
Known(m) == IF m.last > 0 /\ m.mark = 0 THEN 1 ELSE m.mark

\* A change that would break the code: events that share the last counted
\* second are dropped.
NoExtra(m) == 0

\* Events of the last second that were not there when it was last counted.
Extra(m) ==
    IF At(m.last) > Known(m) THEN At(m.last) - Known(m) ELSE 0

\* A change that would break the code: the mark is computed from the visible
\* window alone.
VisibleMark(m) == At(m.last)

\* The mark of a second does not shrink when the log window slides.
KeptMark(m) == Known(m) + Extra(m)

Advanced(m) ==
    LET newer == {i \in Due : stamp[i] > m.last}
        last  == Max({m.last} \cup {stamp[i] : i \in newer})
    IN  [last  |-> last,
         mark  |-> IF newer = {} THEN KeptMark(m) ELSE At(last),
         total |-> m.total + Cardinality(newer) + Extra(m)]

\* The events taken into account: all but those that had left the window and
\* lie before the last second (the events a failed read left in place).
Taken(m) == {i \in Due : i > cut \/ stamp[i] >= m.last}

\* A stored timestamp in the future is dropped.
Rewound(m) == IF m.last > now THEN [Zero EXCEPT !.total = m.total] ELSE m

\* A change that would break the code: a failed load counts as an empty store.
LoadFailsOpen(ok) == TRUE

\* A failed load leaves the counter unloaded, to be retried.
LoadedBy(ok) == loaded \/ ok

\* The delay before the next attempt to save.
NextDelay ==
    LET double == IF delay = 0 THEN 1 ELSE 2 * delay
    IN  IF double > MaxDelay THEN MaxDelay ELSE double

\* A change that would break the code: the delay of a failed save is not
\* counted down.
StuckWait == retry

\* What is left of the wait after a tick that waits.
Wait == retry - 1

\* The counter's block of a tick; `m` is the record after the load, `ok` says
\* whether a load and `saves` whether a save succeeds in this tick.
Count(ok, saves) ==
    LET have == LoadedBy(ok)
        m    == IF ~loaded /\ ok THEN disk ELSE mem
        s    == IF ~loaded /\ ok THEN stored ELSE seen
        run  == have /\ events # {}
        next == IF run THEN Advanced(Rewound(m)) ELSE m
        new  == next # m
        r    == IF new THEN 0 ELSE retry
        try  == have /\ (dirty \/ new) /\ r = 0
    IN
      /\ loaded' = have
      /\ mem' = next
      /\ seen' = IF run THEN s \cup Taken(Rewound(m)) ELSE s
      /\ IF try /\ saves
         THEN /\ disk' = mem'
              /\ stored' = seen'
              /\ dirty' = FALSE
              /\ delay' = 0
              /\ retry' = 0
         ELSE /\ dirty' = (dirty \/ new)
              /\ delay' = IF try THEN NextDelay ELSE delay
              /\ retry' = IF try THEN NextDelay - 1
                          ELSE IF have /\ dirty' THEN Wait ELSE r
              /\ UNCHANGED <<disk, stored>>

\* Afterwards the tick publishes its diagnostics, or it raises (or, off the very
\* slow tier, republishes the previous ones) and those are kept.
EndTick ==
    /\ phase = "tick"
    /\ \E ok, saves \in BOOLEAN : Count(ok, saves)
    /\ kept' \in {events, kept}
    /\ phase' = "idle"
    /\ events' = {}
    /\ UNCHANGED <<clocks, router>>

\* Home Assistant restarts, or the entry is reloaded: what was not saved is lost.
Restart ==
    /\ Fresh
    /\ UNCHANGED <<clocks, router, disk, stored>>

-----------------------------------------------------------------------------
Next ==
    \/ Log
    \/ Rotate
    \/ Pass
    \/ Fold
    \/ ReadLog
    \/ EndTick
    \/ Restart

Spec == Init /\ [][Next]_vars

\* Home Assistant polls; storage that fails recovers before it is too late, that
\* is, a save that is tried again and again succeeds.
FairSpec ==
    /\ Spec
    /\ WF_vars(ReadLog)
    /\ WF_vars(EndTick)
    /\ SF_vars(EndTick /\ ~dirty')
-----------------------------------------------------------------------------
\* "Each OOM is counted exactly once even when polling windows overlap": never
\* twice, whatever the window shows again, whatever was lost by a restart, and
\* also when several events share a second - as long as the clock only advances.
CountedAtMostOnce == folds = 0 => mem.total <= Cardinality(seen)

\* ... and never not at all: every second with a counted event is in the total,
\* and every event is, unless the window slid past one.
NothingMissed ==
    (folds = 0 /\ loaded) =>
        /\ mem.total >= Cardinality({stamp[i] : i \in seen})
        /\ cut = 0 => mem.total = Cardinality(seen)

\* "The count survives HA restarts": what storage holds only grows, although a
\* restarted integration starts from zero and its first loads may fail.
StoredTotalGrows == [][disk'.total >= disk.total]_vars

\* What was counted reaches storage, however often saving failed before and
\* whatever is counted meanwhile, unless a restart comes first.
EventuallyStored == []<>(disk = mem \/ ~loaded)

=============================================================================
