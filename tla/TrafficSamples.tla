--------------------------- MODULE TrafficSamples ---------------------------
(***************************************************************************)
(* From a byte counter of the router to the rate and the total that Home   *)
(* Assistant shows: enrichment.py turns two readings of a counter into a   *)
(* rate, derived.py clamps what a reset counter would yield, the           *)
(* coordinator carries a sample over the ticks that read none, and the     *)
(* mixins of entity.py hold the total until it has moved by a band.        *)
(*                                                                         *)
(* One counter of one WAN uplink or of one site-to-site tunnel; received   *)
(* and sent bytes are treated alike.  The counter is read at one moment of *)
(* a tick and the sample is stamped at its end, when the slowest of the    *)
(* other reads is through.                                                 *)
(***************************************************************************)
EXTENDS Integers

CONSTANTS
    Top,       \* bytes the link can carry in a unit of time
    Band,      \* COUNTER_DEADBAND_BYTES
    Longest,   \* bound on the time from the read of a tick to its end
    MaxTime    \* bound: how long a behaviour is

ASSUME TrafficAssumption ==
    /\ Top \in Nat /\ Band \in Nat \ {0} /\ Longest \in Nat /\ MaxTime \in Nat

Missing == -1      \* no counter, and a total that is not shown
Never   == -1      \* an entry that was not sampled yet
Failed  == -2      \* the read of all counters failed

Absent   == [listed |-> FALSE, bytes |-> Missing, at |-> Never,
             rated |-> FALSE, delta |-> 0, over |-> 1]
Unsampled == [Absent EXCEPT !.listed = TRUE]

VARIABLES
    kind,      \* "uplink" or "tunnel"
    now,       \* the event loop's clock
    raw,       \* the router's counter
    moved,     \* history: the bytes that have really passed
    tick,      \* the tick in flight, and what it has read
    data,      \* the entry in coordinator.data
    total,     \* the total's sensor: last raw value, published value
    \* history of the published sample
    mark,      \* what had passed when its counter was read
    passed,    \* what passed between its read and that of the one before
    exact,     \* both reads gave a counter, which was not reset in between
    clean,     \* no reset since the last read
    stamp,     \* when it was published
    span       \* the time since the one before it was

history == <<mark, passed, exact, clean, stamp, span>>
vars == <<kind, now, raw, moved, tick, data, total, history>>

\* `mark' and `clean' are history: what had passed at the read, and that no
\* reset fell between it and the read of the published sample.
NoTick  == [stage |-> "none", got |-> Failed, at |-> 0, mark |-> 0, clean |-> TRUE]
NoTotal == [raw |-> Missing, shown |-> Missing]

Init ==
    /\ kind \in {"uplink", "tunnel"}
    /\ now = 0 /\ raw = 0 /\ moved = 0
    /\ tick = NoTick
    /\ data = Absent
    /\ total = NoTotal
    /\ mark = 0 /\ passed = 0 /\ exact = FALSE /\ clean = TRUE
    /\ stamp = 0 /\ span = 0

-----------------------------------------------------------------------------
(***************************************************************************)
(* counter_rate_bytes_per_second, as the bytes and the time they took.     *)
(***************************************************************************)
NoBytes == [delta |-> 0, over |-> 1]

\* A change that would break the code: a missing counter is read as zero.
RateFromZero(current, previous, elapsed) ==
    IF elapsed <= 0 \/ current < previous THEN NoBytes
    ELSE [delta |-> current - (IF previous = Missing THEN 0 ELSE previous),
          over  |-> elapsed]

Rate(current, previous, elapsed) ==
    IF elapsed <= 0 \/ current = Missing \/ previous = Missing \/ current < previous
    THEN NoBytes
    ELSE [delta |-> current - previous, over |-> elapsed]

\* enrich_crypto_maps after a read that succeeded; an uplink's is the same.
SinceLast(prev, got, t) ==
    IF prev.at = Never THEN NoBytes ELSE Rate(got, prev.bytes, t - prev.at)

\* A tick that has read the counters: enrich_wan_interfaces.
Sampled(prev, got, t) ==
    LET rate == SinceLast(prev, got, t)
    IN  [listed |-> TRUE, bytes |-> got, at |-> t, rated |-> got # Missing,
         delta |-> rate.delta, over |-> rate.over]

\* A change that would break the code: the old counters are stamped anew.
CarriedRestamped(prev, t) == IF prev.listed THEN [prev EXCEPT !.at = t] ELSE Unsampled

\* A tick that has not: carry_wan_samples.  The list of the uplinks is that of
\* the tick, the samples are of the tick before.
Carried(prev, t) == IF prev.listed THEN prev ELSE Unsampled

(***************************************************************************)
(* CounterDeadbandMixin._publish_counter: a small increase is held back, a *)
(* decrease of the raw counter never is.                                   *)
(***************************************************************************)
Apart(x, y) == IF x > y THEN x - y ELSE y - x

\* A change that would break the code: a reset inside the band is held back.
HeldThroughReset(sensor, value) ==
    IF value = Missing THEN NoTotal
    ELSE [raw   |-> value,
          shown |-> IF \/ sensor.raw = Missing
                       \/ Apart(value, sensor.shown) >= Band
                    THEN value ELSE sensor.shown]

Held(sensor, value) ==
    IF value = Missing THEN NoTotal
    ELSE [raw   |-> value,
          shown |-> IF \/ sensor.raw = Missing \/ value < sensor.raw
                       \/ Apart(value, sensor.shown) >= Band
                    THEN value ELSE sensor.shown]

-----------------------------------------------------------------------------
\* A unit of time, with what the link carries in it.
Pass ==
    /\ now < MaxTime
    /\ tick.stage = "read" => now - tick.at < Longest
    /\ now' = now + 1
    /\ \E bytes \in 0..Top : moved' = moved + bytes /\ raw' = raw + bytes
    /\ UNCHANGED <<kind, tick, data, total, history>>

\* The router reboots, the link is set up anew, or a tunnel is rekeyed: then
\* only a part of its sum may be gone.
Reset ==
    /\ \E left \in 0..raw :
          /\ left < raw
          /\ kind = "uplink" => left = 0
          /\ raw' = left
    /\ clean' = FALSE
    /\ UNCHANGED <<kind, now, moved, tick, data, total, mark, passed, exact,
                   stamp, span>>

\* A tick of the counters' tier, or one in between that reads none.
TickBegin ==
    /\ tick.stage = "none"
    /\ \E stage \in {"reading", "read"} :
          tick' = [NoTick EXCEPT !.stage = stage, !.at = now, !.mark = moved]
    /\ UNCHANGED <<kind, now, raw, moved, data, total, history>>

\* The answer to the read of all counters; the record of one interface may be
\* an error.  A tunnel's counter is the sum over what there is.
Answers == {raw, Failed} \union (IF kind = "uplink" THEN {Missing} ELSE {})

ReadCounter ==
    /\ tick.stage = "reading"
    /\ \E got \in Answers :
          /\ tick' = [tick EXCEPT !.stage = "read", !.got = got, !.at = now,
                                  !.mark = moved,
                                  !.clean = IF got = Failed THEN TRUE ELSE clean]
          /\ clean' = IF got = Failed THEN clean ELSE TRUE
    /\ UNCHANGED <<kind, now, raw, moved, data, total, mark, passed, exact,
                   stamp, span>>

\* The entry is not in this tick's list; its sensors keep what they had.
Unlisted ==
    /\ data' = Absent
    /\ exact' = FALSE
    /\ clean' = clean
    /\ UNCHANGED <<total, mark, passed, stamp, span>>

\* A new sample is published, and the sensors read it.
NewSample ==
    /\ tick.got # Failed
    /\ data' = Sampled(data, tick.got, now)
    /\ total' = Held(total, data'.bytes)
    /\ mark' = tick.mark
    /\ passed' = tick.mark - mark
    /\ exact' = (tick.clean /\ tick.got # Missing /\ data.bytes # Missing)
    /\ clean' = clean
    /\ stamp' = now
    /\ span' = now - stamp

\* Past the grace of its source a sensor is unavailable, and its value is not
\* evaluated.
Evaluated(value) == {total, Held(total, value)}

\* The old sample is published again.
OldSample ==
    /\ tick.got = Failed
    /\ kind = "tunnel" => data.listed
    /\ data' = Carried(data, now)
    /\ total' \in Evaluated(data'.bytes)
    /\ UNCHANGED history

\* The tick ends.  A tunnel's list is as old as its counters.
Publish ==
    /\ tick.stage = "read"
    /\ \/ NewSample
       \/ OldSample
       \/ Unlisted /\ (kind = "uplink" \/ tick.got # Failed \/ ~data.listed)
    /\ tick' = NoTick
    /\ UNCHANGED <<kind, now, raw, moved>>

\* The tick raises: what it has read is gone.
TickFails ==
    /\ tick.stage = "read"
    /\ clean' = (clean /\ tick.clean)
    /\ tick' = NoTick
    /\ UNCHANGED <<kind, now, raw, moved, data, total, mark, passed, exact,
                   stamp, span>>

\* The integration is loaded again: no data, and new sensors.
Reload ==
    /\ data' = Absent
    /\ total' = NoTotal
    /\ tick' = NoTick
    /\ exact' = FALSE
    /\ UNCHANGED <<kind, now, raw, moved, mark, passed, clean, stamp, span>>

Next == \/ Pass \/ Reset
        \/ TickBegin \/ ReadCounter \/ Publish \/ TickFails
        \/ Reload

Spec == Init /\ [][Next]_vars

-----------------------------------------------------------------------------
Sample == [listed : BOOLEAN, bytes : Nat \union {Missing}, at : Nat \union {Never},
           rated : BOOLEAN, delta : Nat, over : Nat \ {0}]

TypeOK ==
    /\ kind \in {"uplink", "tunnel"}
    /\ now \in 0..MaxTime
    /\ raw \in Nat /\ moved \in Nat
    /\ tick \in [stage : {"none", "reading", "read"},
                 got : Nat \union {Missing, Failed}, at : Nat, mark : Nat,
                 clean : BOOLEAN]
    /\ data \in Sample
    /\ total \in [raw : Nat \union {Missing}, shown : Nat \union {Missing}]
    /\ mark \in Nat /\ passed \in Nat
    /\ exact \in BOOLEAN /\ clean \in BOOLEAN
    /\ stamp \in Nat /\ span \in Nat

(***************************************************************************)
(* A rate never speaks of more bytes than have passed between the two      *)
(* reads it comes from, whatever was reset, missing, carried over or lost  *)
(* with a raised tick in between; and of exactly these bytes when both     *)
(* reads gave a counter that was not reset (derived.py:15-33).             *)
(***************************************************************************)
RateExplained ==
    data.rated => /\ data.delta <= passed
                  /\ exact /\ span > 0 => /\ data.delta = passed
                                          /\ data.over = span

(***************************************************************************)
(* Reading early and stamping late distorts a rate by no more than one     *)
(* tick: it stays below what the link could have carried in the interval   *)
(* and one tick more.  No reset, gap or carried sample makes a spike.      *)
(***************************************************************************)
RateBounded == data.rated => data.delta <= Top * (data.over + Longest)

(***************************************************************************)
(* The total that is shown is never ahead of the counter last read and     *)
(* never a band behind it, across resets, gaps and reloads                 *)
(* (entity.py:76-95).                                                      *)
(***************************************************************************)
TotalHeld ==
    total.raw # Missing => /\ total.shown <= total.raw
                           /\ total.raw - total.shown < Band
=============================================================================
