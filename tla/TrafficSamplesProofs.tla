------------------------ MODULE TrafficSamplesProofs ------------------------
(***************************************************************************)
(* Proofs about TrafficSamples, for any capacity of the link, any band,    *)
(* any length of a tick and of a behaviour: a rate is explained by what    *)
(* has passed, makes no spike, and a total stays within its band.          *)
(***************************************************************************)
EXTENDS TrafficSamples, TLAPS

\* What is in a sample, a read and the history was in this order.
Order ==
    /\ stamp <= now
    /\ mark <= moved
    /\ tick.stage # "none" => mark <= tick.mark /\ tick.mark <= moved
    /\ data.at # Never => data.at = stamp
    /\ data.at = Never => data.bytes = Missing

\* The read of the tick in flight gave a counter.
Counter == tick.stage = "read" /\ tick.got # Failed /\ tick.got # Missing

\* The counter never runs ahead of what passes, and with it if it is not
\* reset: from the published sample to the read, and from either to now.
Drift ==
    /\ data.bytes # Missing => raw + mark <= data.bytes + moved
    /\ Counter => raw + tick.mark <= tick.got + moved
    /\ Counter /\ data.bytes # Missing => tick.got + mark <= data.bytes + tick.mark

Clean ==
    /\ tick.stage # "read" \/ tick.got = Failed => tick.clean
    /\ tick.clean /\ clean /\ data.bytes # Missing => raw + mark = data.bytes + moved
    /\ Counter /\ clean => raw + tick.mark = tick.got + moved
    /\ Counter /\ tick.clean /\ data.bytes # Missing
         => tick.got + mark = data.bytes + tick.mark

\* No more passes than the link carries.
Capacity ==
    /\ moved - mark <= Top * (now - stamp + Longest)
    /\ tick.stage = "read" => /\ tick.at <= now
                              /\ now - tick.at <= Longest
                              /\ moved - tick.mark <= Top * (now - tick.at)

Inv == TypeOK /\ Order

-----------------------------------------------------------------------------
LEMMA RateType ==
    ASSUME NEW c \in Nat \union {Missing}, NEW p \in Nat \union {Missing},
           NEW e \in Int
    PROVE  Rate(c, p, e) \in [delta : Nat, over : Nat \ {0}]
BY DEF Rate, NoBytes, Missing

LEMMA SampledType ==
    ASSUME NEW prev \in Sample, NEW got \in Nat \union {Missing}, NEW t \in Nat
    PROVE  Sampled(prev, got, t) \in Sample
<1>1. CASE prev.at = Never
  BY <1>1 DEF Sampled, SinceLast, NoBytes, Sample, Missing, Never
<1>2. CASE prev.at # Never
  <2>1. t - prev.at \in Int /\ prev.bytes \in Nat \union {Missing}
    BY <1>2 DEF Sample, Never
  <2>2. Rate(got, prev.bytes, t - prev.at) \in [delta : Nat, over : Nat \ {0}]
    BY <2>1, RateType
  <2> QED BY <1>2, <2>2 DEF Sampled, SinceLast, Sample
<1> QED BY <1>1, <1>2

LEMMA CarriedType ==
    ASSUME NEW prev \in Sample, NEW t \in Nat PROVE Carried(prev, t) \in Sample
<1>1. Absent \in Sample
  BY DEF Absent, Sample, Missing, Never
<1>2. Unsampled \in Sample
  BY <1>1 DEF Unsampled, Sample
<1>3. CASE prev.listed
  BY <1>3 DEF Carried
<1>4. CASE ~prev.listed
  BY <1>2, <1>4 DEF Carried
<1> QED BY <1>3, <1>4

LEMMA HeldType ==
    ASSUME NEW s \in [raw : Nat \union {Missing}, shown : Nat \union {Missing}],
           NEW v \in Nat \union {Missing}
    PROVE  Held(s, v) \in [raw : Nat \union {Missing}, shown : Nat \union {Missing}]
BY DEF Held, NoTotal, Missing

Total == [raw : Nat \union {Missing}, shown : Nat \union {Missing}]
Flight == [stage : {"none", "reading", "read"},
           got : Nat \union {Missing, Failed}, at : Nat, mark : Nat,
           clean : BOOLEAN]

LEMMA Inductive == Inv /\ [Next]_vars => Inv'
<1> SUFFICES ASSUME Inv, [Next]_vars PROVE Inv'
  OBVIOUS
<1> USE TrafficAssumption DEF TrafficAssumption
<1>t. /\ tick \in Flight /\ data \in Sample /\ total \in Total
      /\ now \in Nat /\ raw \in Nat /\ moved \in Nat /\ mark \in Nat /\ stamp \in Nat
      /\ NoTick \in Flight /\ Absent \in Sample /\ NoTotal \in Total
  BY DEF Inv, TypeOK, Flight, Total, NoTick, Absent, NoTotal, Sample,
         Missing, Failed, Never
<1>1. CASE Pass
  <2>1. PICK b \in 0..Top : moved' = moved + b /\ raw' = raw + b
    BY <1>1 DEF Pass
  <2>2. now' = now + 1 /\ now' \in 0..MaxTime /\ b \in Nat
    BY <1>1 DEF Pass, Inv, TypeOK
  <2>3. TypeOK'
    BY <1>1, <2>1, <2>2 DEF Pass, Inv, TypeOK, history
  <2>4. Order'
    BY <1>1, <1>t, <2>1, <2>2 DEF Pass, Inv, Order, history, Flight
  <2> QED BY <2>3, <2>4 DEF Inv
<1>2. CASE Reset
  <2>1. raw' \in Nat
    BY <1>2 DEF Reset
  <2>2. TypeOK'
    BY <1>2, <2>1 DEF Reset, Inv, TypeOK
  <2>3. Order'
    BY <1>2 DEF Reset, Inv, Order
  <2> QED BY <2>2, <2>3 DEF Inv
<1>3. CASE TickBegin
  <2>1. PICK stage \in {"reading", "read"} :
          tick' = [NoTick EXCEPT !.stage = stage, !.at = now, !.mark = moved]
    BY <1>3 DEF TickBegin
  <2>2. tick' \in Flight /\ tick'.mark = moved
    BY <1>t, <2>1 DEF Flight, NoTick
  <2>3. TypeOK'
    BY <1>3, <2>2 DEF TickBegin, Inv, TypeOK, Flight, history
  <2>4. Order'
    BY <1>3, <1>t, <2>2 DEF TickBegin, Inv, Order, history
  <2> QED BY <2>3, <2>4 DEF Inv
<1>4. CASE ReadCounter
  <2>1. PICK got \in Answers :
          /\ tick' = [tick EXCEPT !.stage = "read", !.got = got, !.at = now,
                                  !.mark = moved,
                                  !.clean = IF got = Failed THEN TRUE ELSE clean]
          /\ clean' = IF got = Failed THEN clean ELSE TRUE
    BY <1>4 DEF ReadCounter
  <2>2. got \in Nat \union {Missing, Failed} /\ clean \in BOOLEAN
    BY <1>t DEF Answers, Inv, TypeOK
  <2>3. tick' \in Flight /\ tick'.mark = moved /\ clean' \in BOOLEAN
    BY <1>t, <2>1, <2>2 DEF Flight
  <2>4. TypeOK'
    BY <1>4, <2>3 DEF ReadCounter, Inv, TypeOK, Flight
  <2>5. Order'
    BY <1>4, <1>t, <2>3 DEF ReadCounter, Inv, Order
  <2> QED BY <2>4, <2>5 DEF Inv
<1>5. CASE Publish
  <2>0. /\ tick' = NoTick /\ UNCHANGED <<kind, now, raw, moved>>
        /\ mark <= tick.mark /\ tick.mark <= moved /\ tick.mark \in Nat
    BY <1>5, <1>t DEF Publish, Inv, Order, Flight
  <2>1. CASE NewSample
    <3>1. tick.got \in Nat \union {Missing}
      BY <1>t, <2>1 DEF NewSample, Flight
    <3>2. data' \in Sample
      BY <1>t, <2>1, <3>1, SampledType DEF NewSample
    <3>3. total' \in Total
      <4>1. data'.bytes \in Nat \union {Missing}
        BY <3>2 DEF Sample
      <4> QED BY <1>t, <2>1, <4>1, HeldType DEF NewSample, Total
    <3>4. /\ mark' = tick.mark /\ mark' \in Nat /\ passed' \in Nat
          /\ stamp' = now /\ span' \in Nat
      BY <1>t, <2>0, <2>1 DEF NewSample, Inv, Order
    <3>5. exact' \in BOOLEAN /\ clean' \in BOOLEAN
      BY <1>t, <2>1 DEF NewSample, Inv, TypeOK, Flight
    <3>6. TypeOK'
      BY <1>t, <2>0, <3>2, <3>3, <3>4, <3>5 DEF Inv, TypeOK, Flight, Total
    <3>7. data'.at = now
      BY <2>1 DEF NewSample, Sampled
    <3>8. Order'
      BY <1>t, <2>0, <3>4, <3>7 DEF Order, NoTick, Never
    <3> QED BY <3>6, <3>8 DEF Inv
  <2>2. CASE OldSample
    <3>1. data' \in Sample
      BY <1>t, <2>2, CarriedType DEF OldSample
    <3>2. total' \in Total
      <4>1. data'.bytes \in Nat \union {Missing}
        BY <3>1 DEF Sample
      <4>2. Held(total, data'.bytes) \in Total
        BY <1>t, <4>1, HeldType DEF Total
      <4> QED BY <1>t, <2>2, <4>2 DEF OldSample, Evaluated
    <3>3. TypeOK'
      BY <1>t, <2>0, <2>2, <3>1, <3>2
      DEF OldSample, Inv, TypeOK, Flight, Total, history
    <3>4. data' = data \/ (data'.at = Never /\ data'.bytes = Missing)
      BY <2>2 DEF OldSample, Carried, Unsampled, Absent
    <3>5. Order'
      BY <1>t, <2>0, <2>2, <3>4 DEF OldSample, history, Inv, Order, NoTick
    <3> QED BY <3>3, <3>5 DEF Inv
  <2>3. CASE Unlisted
    <3>1. TypeOK'
      BY <1>t, <2>0, <2>3 DEF Unlisted, Inv, TypeOK, Flight
    <3>2. Order'
      BY <1>t, <2>0, <2>3 DEF Unlisted, Inv, Order, NoTick, Absent
    <3> QED BY <3>1, <3>2 DEF Inv
  <2> QED BY <1>5, <2>1, <2>2, <2>3 DEF Publish
<1>6. CASE TickFails
  <2>1. clean' \in BOOLEAN
    BY <1>6, <1>t DEF TickFails, Inv, TypeOK, Flight
  <2>2. TypeOK'
    BY <1>6, <1>t, <2>1 DEF TickFails, Inv, TypeOK, Flight
  <2>3. Order'
    BY <1>6 DEF TickFails, Inv, Order, NoTick
  <2> QED BY <2>2, <2>3 DEF Inv
<1>7. CASE Reload
  <2>1. TypeOK'
    BY <1>7, <1>t DEF Reload, Inv, TypeOK, Flight, Total
  <2>2. Order'
    BY <1>7 DEF Reload, Inv, Order, NoTick, Absent
  <2> QED BY <2>1, <2>2 DEF Inv
<1>8. CASE UNCHANGED vars
  <2>1. TypeOK'
    BY <1>8 DEF vars, history, Inv, TypeOK
  <2>2. Order'
    BY <1>8 DEF vars, history, Inv, Order
  <2> QED BY <2>1, <2>2 DEF Inv
<1> QED BY <1>1, <1>2, <1>3, <1>4, <1>5, <1>6, <1>7, <1>8 DEF Next

LEMMA Initially == Init => Inv
<1> SUFFICES ASSUME Init PROVE Inv
  OBVIOUS
<1>1. 0 \in 0..MaxTime
  BY TrafficAssumption DEF TrafficAssumption
<1>2. data \in Sample
  BY DEF Init, Absent, Sample, Missing, Never
<1>3. tick \in Flight
  BY DEF Init, NoTick, Flight
<1>4. total \in Total
  BY DEF Init, NoTotal, Total
<1>5. TypeOK
  BY <1>1, <1>2, <1>3, <1>4 DEF Init, TypeOK, Flight, Total
<1>6. Order
  BY DEF Init, Order, NoTick, Absent
<1> QED BY <1>5, <1>6 DEF Inv

\* Every variable keeps its type.
THEOREM TypeCorrect == Spec => []TypeOK
<1>1. Inv => TypeOK
  BY DEF Inv
<1> QED BY <1>1, Initially, Inductive, PTL DEF Spec

-----------------------------------------------------------------------------
LEMMA HeldBand ==
    ASSUME NEW s \in Total, NEW v \in Nat \union {Missing},
           s.raw # Missing => s.shown <= s.raw /\ s.raw - s.shown < Band
    PROVE  LET h == Held(s, v)
           IN  h.raw # Missing => h.shown <= h.raw /\ h.raw - h.shown < Band
<1> USE TrafficAssumption DEF TrafficAssumption
<1>1. CASE v = Missing
  BY <1>1 DEF Held, NoTotal
<1>2. CASE v # Missing /\ (s.raw = Missing \/ v < s.raw \/ Apart(v, s.shown) >= Band)
  BY <1>2 DEF Held
<1>3. CASE v # Missing /\ ~(s.raw = Missing \/ v < s.raw \/ Apart(v, s.shown) >= Band)
  <2>1. /\ Held(s, v) = [raw |-> v, shown |-> s.shown]
        /\ s.raw \in Nat /\ v \in Nat /\ s.shown \in Nat \union {Missing}
        /\ s.raw <= v /\ s.shown <= s.raw
    BY <1>3 DEF Held, Total
  <2>2. Apart(v, s.shown) = v - s.shown
    BY <2>1 DEF Apart, Missing
  <2> QED BY <1>3, <2>1, <2>2 DEF Missing
<1> QED BY <1>1, <1>2, <1>3

LEMMA TotalInductive == Inv /\ TotalHeld /\ [Next]_vars => TotalHeld'
<1> SUFFICES ASSUME Inv, TotalHeld, [Next]_vars PROVE TotalHeld'
  OBVIOUS
<1>1. total \in Total /\ data'.bytes \in Nat \union {Missing}
  BY Inductive DEF Inv, TypeOK, Total, Sample
<1>2. LET h == Held(total, data'.bytes)
      IN  h.raw # Missing => h.shown <= h.raw /\ h.raw - h.shown < Band
  BY <1>1, HeldBand DEF TotalHeld
<1>3. total' \in {total, NoTotal, Held(total, data'.bytes)}
  BY DEF Next, vars, history, Pass, Reset, TickBegin, ReadCounter, Publish,
         NewSample, OldSample, Evaluated, Unlisted, TickFails, Reload
<1> QED BY <1>2, <1>3 DEF TotalHeld, NoTotal

\* The total that is shown stays within its band of the counter that was read,
\* whatever is reset, missing, carried or reloaded.
THEOREM TotalHeldAlways == Spec => []TotalHeld
<1>1. Init => TotalHeld
  BY DEF Init, NoTotal, TotalHeld
<1> QED BY <1>1, Initially, Inductive, TotalInductive, PTL DEF Spec

-----------------------------------------------------------------------------
\* What a published rate says of the bytes that passed between its two reads.
LEMMA SampleExplained ==
    ASSUME Inv, Drift, Clean, tick.stage = "read", NewSample
    PROVE  RateExplained'
<1>1. /\ tick.got \in Nat \union {Missing} /\ tick.mark \in Nat /\ tick.clean \in BOOLEAN
      /\ data.bytes \in Nat \union {Missing} /\ data.at \in Nat \union {Never}
      /\ mark \in Nat /\ now \in Nat /\ stamp \in Nat
      /\ mark <= tick.mark /\ stamp <= now
  BY DEF Inv, TypeOK, Sample, Order, NewSample
<1>2. /\ data'.rated = (tick.got # Missing)
      /\ data'.delta = SinceLast(data, tick.got, now).delta
      /\ data'.over = SinceLast(data, tick.got, now).over
      /\ passed' = tick.mark - mark
      /\ span' = now - stamp
      /\ exact' = (tick.clean /\ tick.got # Missing /\ data.bytes # Missing)
  BY DEF NewSample, Sampled
<1>3. CASE data.at = Never
  <2>1. data.bytes = Missing /\ data'.delta = 0
    BY <1>2, <1>3 DEF Inv, Order, SinceLast, NoBytes
  <2>2. exact' = FALSE
    BY <2>1 DEF NewSample
  <2> QED BY <1>1, <1>2, <2>1, <2>2 DEF RateExplained
<1>4. CASE data.at # Never
  <2>1. SinceLast(data, tick.got, now) = Rate(tick.got, data.bytes, now - stamp)
    BY <1>4 DEF SinceLast, Inv, Order
  <2>2. CASE tick.got = Missing
    <3>1. data'.rated = FALSE
      BY <2>2 DEF NewSample, Sampled
    <3> QED BY <3>1 DEF RateExplained
  <2>3. CASE tick.got # Missing /\ data.bytes = Missing
    <3>1. data'.delta = 0
      BY <1>2, <2>1, <2>3 DEF Rate, NoBytes
    <3>2. exact' = FALSE
      BY <2>3 DEF NewSample
    <3> QED BY <1>1, <1>2, <3>1, <3>2 DEF RateExplained
  <2>4. CASE tick.got # Missing /\ data.bytes # Missing
    <3>1. Counter
      BY <1>1, <2>4 DEF Counter, Failed, Missing
    <3>2. tick.got + mark <= data.bytes + tick.mark
      BY <2>4, <3>1 DEF Drift
    <3>3. exact' => tick.got + mark = data.bytes + tick.mark
      BY <1>2, <3>1 DEF Clean
    <3>4. tick.got \in Nat /\ data.bytes \in Nat
      BY <1>1, <2>4
    <3>5. CASE now - stamp <= 0 \/ tick.got < data.bytes
      <4>1. data'.delta = 0
        BY <1>2, <2>1, <3>5 DEF Rate, NoBytes
      <4>2. ~(exact' /\ span' > 0)
        BY <1>1, <1>2, <3>3, <3>4, <3>5
      <4> QED BY <1>1, <1>2, <4>1, <4>2 DEF RateExplained
    <3>6. CASE ~(now - stamp <= 0 \/ tick.got < data.bytes)
      <4>1. data'.delta = tick.got - data.bytes /\ data'.over = now - stamp
        BY <1>2, <2>1, <2>4, <3>6 DEF Rate
      <4> QED BY <1>1, <1>2, <3>2, <3>3, <3>4, <4>1 DEF RateExplained
    <3> QED BY <3>5, <3>6
  <2> QED BY <2>2, <2>3, <2>4
<1> QED BY <1>3, <1>4

Flow == Drift /\ Clean /\ RateExplained

LEMMA FlowInductive == Inv /\ Flow /\ [Next]_vars => Flow'
<1> SUFFICES ASSUME Inv, Flow, [Next]_vars PROVE Flow'
  OBVIOUS
<1>t. /\ raw \in Nat /\ moved \in Nat /\ mark \in Nat
      /\ tick \in Flight /\ tick.mark \in Nat /\ tick.clean \in BOOLEAN
      /\ clean \in BOOLEAN
      /\ data.bytes \in Nat \union {Missing}
      /\ tick.got \in Nat \union {Missing, Failed}
  BY DEF Inv, TypeOK, Sample, Flight
<1>e. UNCHANGED <<data, passed, exact, span>> => RateExplained'
  BY DEF Flow, RateExplained
<1>1. CASE Pass
  <2>1. PICK b \in 0..Top : moved' = moved + b /\ raw' = raw + b
    BY <1>1 DEF Pass
  <2>2. b \in Int
    BY TrafficAssumption DEF TrafficAssumption
  <2>3. Drift'
    BY <1>1, <1>t, <2>1, <2>2 DEF Pass, Flow, Drift, Counter, history, Missing
  <2>4. UNCHANGED <<tick, data, mark, clean>>
    BY <1>1 DEF Pass, history
  <2>5. tick.clean /\ clean /\ data.bytes # Missing
          => raw + b + mark = data.bytes + (moved + b)
    BY <1>t, <2>2 DEF Flow, Clean, Missing
  <2>6. Counter /\ clean => raw + b + tick.mark = tick.got + (moved + b)
    BY <1>t, <2>2 DEF Flow, Clean, Counter, Missing, Failed
  <2>7. Clean'
    BY <2>1, <2>4, <2>5, <2>6 DEF Flow, Clean, Counter
  <2> QED BY <1>1, <1>e, <2>3, <2>7 DEF Pass, Flow, history
<1>2. CASE Reset
  <2>1. raw' \in Nat /\ raw' < raw /\ clean' = FALSE
    BY <1>2, <1>t DEF Reset
  <2>2. Drift'
    BY <1>2, <1>t, <2>1 DEF Reset, Flow, Drift, Counter, Missing
  <2>3. Clean'
    BY <1>2, <1>t, <2>1 DEF Reset, Flow, Clean, Counter
  <2> QED BY <1>2, <1>e, <2>2, <2>3 DEF Reset, Flow
<1>3. CASE TickBegin
  <2>0. PICK stage \in {"reading", "read"} :
          tick' = [NoTick EXCEPT !.stage = stage, !.at = now, !.mark = moved]
    BY <1>3 DEF TickBegin
  <2>1. tick'.got = Failed /\ tick'.clean = TRUE /\ tick.clean
    BY <1>3, <1>t, <2>0 DEF TickBegin, NoTick, Flow, Clean
  <2>2. Drift'
    BY <1>3, <2>1 DEF TickBegin, Flow, Drift, Counter, history
  <2>3. Clean'
    BY <1>3, <2>1 DEF TickBegin, Flow, Clean, Counter, history
  <2> QED BY <1>3, <1>e, <2>2, <2>3 DEF TickBegin, Flow, history
<1>4. CASE ReadCounter
  <2>1. PICK got \in Answers :
          /\ tick' = [tick EXCEPT !.stage = "read", !.got = got, !.at = now,
                                  !.mark = moved,
                                  !.clean = IF got = Failed THEN TRUE ELSE clean]
          /\ clean' = IF got = Failed THEN clean ELSE TRUE
    BY <1>4 DEF ReadCounter
  <2>2. got \in {raw, Failed, Missing} /\ tick.clean
    BY <1>4, <1>t DEF ReadCounter, Answers, Flow, Clean
  <2>3. /\ tick'.stage = "read" /\ tick'.got = got /\ tick'.mark = moved
        /\ tick'.clean = IF got = Failed THEN TRUE ELSE clean
    BY <1>t, <2>1 DEF Flight
  <2>4. UNCHANGED <<raw, moved, data, mark, passed, exact, span>>
    BY <1>4 DEF ReadCounter
  <2>5. Drift'
    BY <1>t, <2>2, <2>3, <2>4 DEF Flow, Drift, Counter, Missing, Failed
  <2>6. CASE got = Failed
    <3>1. Clean'
      BY <1>t, <2>1, <2>2, <2>3, <2>4, <2>6 DEF Flow, Clean, Counter
    <3> QED BY <1>e, <2>4, <2>5, <3>1 DEF Flow
  <2>7. CASE got # Failed
    <3>1. clean' = TRUE /\ tick'.clean = clean
      BY <2>1, <2>3, <2>7
    <3>2. Clean'
      BY <1>t, <2>2, <2>3, <2>4, <2>7, <3>1 DEF Flow, Clean, Counter, Missing
    <3> QED BY <1>e, <2>4, <2>5, <3>2 DEF Flow
  <2> QED BY <2>6, <2>7
<1>5. CASE Publish
  <2>0. /\ tick.stage = "read" /\ tick' = NoTick /\ UNCHANGED <<raw, moved>>
        /\ NoTick.stage = "none" /\ NoTick.clean = TRUE
    BY <1>5 DEF Publish, NoTick
  <2>1. CASE NewSample
    <3>1. data'.bytes = tick.got /\ mark' = tick.mark /\ clean' = clean /\ tick.got # Failed
      BY <2>1 DEF NewSample, Sampled
    <3>2. Drift'
      BY <1>t, <2>0, <3>1 DEF Flow, Drift, Counter
    <3>3. Clean'
      BY <1>t, <2>0, <3>1 DEF Flow, Clean, Counter
    <3>4. RateExplained'
      BY <2>0, <2>1, SampleExplained DEF Flow
    <3> QED BY <3>2, <3>3, <3>4 DEF Flow
  <2>2. CASE OldSample
    <3>1. /\ UNCHANGED history /\ tick.clean
          /\ data' = data \/ (data'.bytes = Missing /\ data'.rated = FALSE)
      BY <2>0, <2>2 DEF OldSample, Carried, Unsampled, Absent, Flow, Clean
    <3>2. Drift'
      BY <1>t, <2>0, <3>1 DEF Flow, Drift, Counter, history
    <3>3. Clean'
      BY <1>t, <2>0, <3>1 DEF Flow, Clean, Counter, history
    <3>4. RateExplained'
      BY <3>1 DEF Flow, RateExplained, history
    <3> QED BY <3>2, <3>3, <3>4 DEF Flow
  <2>3. CASE Unlisted
    <3>1. data'.bytes = Missing /\ data'.rated = FALSE
      BY <2>3 DEF Unlisted, Absent
    <3>2. Drift' /\ RateExplained'
      BY <2>0, <3>1 DEF Drift, Counter, RateExplained
    <3>3. Clean'
      BY <2>0, <3>1 DEF Clean, Counter
    <3> QED BY <3>2, <3>3 DEF Flow
  <2> QED BY <1>5, <2>1, <2>2, <2>3 DEF Publish
<1>6. CASE TickFails
  <2>1. Drift'
    BY <1>6 DEF TickFails, Flow, Drift, Counter, NoTick
  <2>2. Clean'
    BY <1>6, <1>t DEF TickFails, Flow, Clean, Counter, NoTick
  <2> QED BY <1>6, <1>e, <2>1, <2>2 DEF TickFails, Flow
<1>7. CASE Reload
  BY <1>7 DEF Reload, Flow, Drift, Clean, Counter, RateExplained, Absent, NoTick
<1>8. CASE UNCHANGED vars
  BY <1>8 DEF vars, history, Flow, Drift, Clean, Counter, RateExplained
<1> QED BY <1>1, <1>2, <1>3, <1>4, <1>5, <1>6, <1>7, <1>8 DEF Next

\* A rate speaks of no more bytes than passed between its two reads, and of
\* exactly those if neither was missing and nothing was reset.
THEOREM RateExplainedAlways == Spec => []RateExplained
<1>1. Init => Flow
  BY DEF Init, Flow, Drift, Clean, Counter, RateExplained, NoTick, Absent
<1>2. Flow => RateExplained
  BY DEF Flow
<1> QED BY <1>1, <1>2, Initially, Inductive, FlowInductive, PTL DEF Spec

-----------------------------------------------------------------------------
\* The link in multiples of a unit of time.
LEMMA OneMore ==
    ASSUME NEW x \in Int PROVE Top * (x + 1) = Top * x + Top /\ Top * x \in Int
BY TrafficAssumption DEF TrafficAssumption

LEMMA NoLess ==
    ASSUME NEW x \in Int, NEW y \in Int, x <= y PROVE Top * x <= Top * y
BY TrafficAssumption DEF TrafficAssumption

Bounds == Capacity /\ RateBounded

LEMMA BoundsInductive ==
    Inv /\ Flow /\ Flow' /\ Bounds /\ [Next]_vars => Bounds'
<1> SUFFICES ASSUME Inv, Flow, Flow', Bounds, [Next]_vars PROVE Bounds'
  OBVIOUS
<1>l. Top \in Nat /\ Longest \in Nat
  BY TrafficAssumption DEF TrafficAssumption
<1>t. /\ now \in Nat /\ stamp \in Nat /\ moved \in Nat /\ mark \in Nat
      /\ tick.at \in Nat /\ tick.mark \in Nat /\ tick \in Flight
  BY DEF Inv, TypeOK, Flight
<1>c. UNCHANGED <<now, stamp, moved, mark>>
        => (moved - mark <= Top * (now - stamp + Longest))'
  BY DEF Bounds, Capacity
<1>0. Top * 0 = 0
  BY <1>l
<1>1. CASE Pass
  <2>1. PICK b \in 0..Top : moved' = moved + b
    BY <1>1 DEF Pass
  <2>2. /\ now' = now + 1 /\ b \in Nat /\ b <= Top
        /\ UNCHANGED <<tick, data, mark, stamp>>
        /\ tick.stage = "read" => now - tick.at < Longest
    BY <1>1, <1>l DEF Pass, history
  <2>3. moved' - mark <= Top * (now' - stamp + Longest)
    <3>1. Top * ((now - stamp + Longest) + 1) = Top * (now - stamp + Longest) + Top
      BY <1>l, <1>t, OneMore
    <3>2. now' - stamp + Longest = (now - stamp + Longest) + 1
      BY <1>l, <1>t, <2>2
    <3>3. Top * (now - stamp + Longest) \in Int
      BY <1>l, <1>t
    <3>4. moved - mark <= Top * (now - stamp + Longest)
      BY DEF Bounds, Capacity
    <3>5. moved' - mark = (moved - mark) + b /\ moved - mark \in Int
      BY <1>t, <2>1, <2>2
    <3>6. (moved - mark) + b <= Top * (now - stamp + Longest) + Top
      BY <1>l, <2>2, <3>3, <3>4, <3>5
    <3> QED BY <3>1, <3>2, <3>5, <3>6
  <2>4. ASSUME tick.stage = "read"
        PROVE  /\ tick.at <= now' /\ now' - tick.at <= Longest
               /\ moved' - tick.mark <= Top * (now' - tick.at)
    <3>1. Top * ((now - tick.at) + 1) = Top * (now - tick.at) + Top
      BY <1>t, OneMore
    <3>2. now' - tick.at = (now - tick.at) + 1
      BY <1>t, <2>2
    <3>3. Top * (now - tick.at) \in Int
      BY <1>l, <1>t
    <3>4. /\ moved - tick.mark <= Top * (now - tick.at)
          /\ tick.at <= now
      BY <2>4 DEF Bounds, Capacity
    <3>5. moved' - tick.mark = (moved - tick.mark) + b /\ moved - tick.mark \in Int
      BY <1>t, <2>1, <2>2
    <3>6. (moved - tick.mark) + b <= Top * (now - tick.at) + Top
      BY <1>l, <2>2, <3>3, <3>4, <3>5
    <3>7. moved' - tick.mark <= Top * (now' - tick.at)
      BY <3>1, <3>2, <3>5, <3>6
    <3>8. tick.at <= now' /\ now' - tick.at <= Longest
      BY <1>l, <1>t, <2>2, <2>4, <3>4
    <3> QED BY <3>7, <3>8
  <2>5. Capacity'
    BY <2>2, <2>3, <2>4 DEF Capacity
  <2>6. RateBounded'
    BY <2>2 DEF Bounds, RateBounded
  <2> QED BY <2>5, <2>6 DEF Bounds
<1>2. CASE Reset
  BY <1>2 DEF Reset, Bounds, Capacity, RateBounded
<1>3. CASE TickBegin
  <2>1. PICK stage \in {"reading", "read"} :
          tick' = [NoTick EXCEPT !.stage = stage, !.at = now, !.mark = moved]
    BY <1>3 DEF TickBegin
  <2>2. /\ tick'.at = now /\ tick'.mark = moved
        /\ UNCHANGED <<now, stamp, moved, mark, data>>
    BY <1>3, <2>1 DEF TickBegin, NoTick, history
  <2>3. moved - moved <= Top * (now - now) /\ now - now <= Longest
    BY <1>0, <1>l, <1>t
  <2>4. Capacity'
    BY <1>c, <1>t, <2>2, <2>3 DEF Capacity
  <2> QED BY <2>2, <2>4 DEF Bounds, RateBounded
<1>4. CASE ReadCounter
  <2>1. PICK got \in Answers :
          tick' = [tick EXCEPT !.stage = "read", !.got = got, !.at = now,
                               !.mark = moved,
                               !.clean = IF got = Failed THEN TRUE ELSE clean]
    BY <1>4 DEF ReadCounter
  <2>2. /\ tick'.at = now /\ tick'.mark = moved
        /\ UNCHANGED <<now, stamp, moved, mark, data>>
    BY <1>4, <1>t, <2>1 DEF ReadCounter, Flight
  <2>3. moved - moved <= Top * (now - now) /\ now - now <= Longest
    BY <1>0, <1>l, <1>t
  <2>4. Capacity'
    BY <1>c, <1>t, <2>2, <2>3 DEF Capacity
  <2> QED BY <2>2, <2>4 DEF Bounds, RateBounded
<1>5. CASE Publish
  <2>0. /\ tick.stage = "read" /\ tick'.stage = "none" /\ UNCHANGED <<now, moved>>
        /\ tick.at <= now /\ now - tick.at <= Longest
        /\ moved - tick.mark <= Top * (now - tick.at)
        /\ mark <= tick.mark /\ tick.mark <= moved
    BY <1>5 DEF Publish, NoTick, Bounds, Capacity, Inv, Order
  <2>1. CASE NewSample
    <3>1. mark' = tick.mark /\ stamp' = now
      BY <2>1 DEF NewSample
    <3>2. moved - tick.mark <= Top * (now - now + Longest)
      <4>1. Top * (now - tick.at) <= Top * Longest
        BY <1>l, <1>t, <2>0, NoLess
      <4>2. Top * (now - tick.at) \in Int /\ Top * Longest \in Int
        BY <1>l, <1>t
      <4>3. now - now + Longest = Longest
        BY <1>l, <1>t
      <4> QED BY <1>t, <2>0, <4>1, <4>2, <4>3
    <3>3. Capacity'
      BY <2>0, <3>1, <3>2 DEF Capacity
    <3>4. ASSUME data'.rated PROVE data'.delta <= Top * (data'.over + Longest)
      <4>0. tick.got \in Nat \union {Missing} /\ data.bytes \in Nat \union {Missing}
        BY <2>1 DEF NewSample, Inv, TypeOK, Sample
      <4>1. data'.delta <= tick.mark - mark
        BY <2>1, <3>4 DEF NewSample, Flow, RateExplained
      <4>2. /\ data'.delta = SinceLast(data, tick.got, now).delta
            /\ data'.over = SinceLast(data, tick.got, now).over
        BY <2>1 DEF NewSample, Sampled
      <4>3. SinceLast(data, tick.got, now)
              \in {NoBytes, [delta |-> tick.got - data.bytes, over |-> now - stamp]}
        BY DEF SinceLast, Rate, Inv, Order
      <4>4. CASE SinceLast(data, tick.got, now) = NoBytes
        <5>1. data'.delta = 0 /\ data'.over = 1
          BY <4>2, <4>4 DEF NoBytes
        <5>2. Top * 0 <= Top * (1 + Longest)
          BY <1>l, NoLess
        <5> QED BY <1>0, <5>1, <5>2
      <4>5. CASE SinceLast(data, tick.got, now)
                   = [delta |-> tick.got - data.bytes, over |-> now - stamp]
        <5>1. data'.over = now - stamp
          BY <4>2, <4>5
        <5>2. moved - mark <= Top * (now - stamp + Longest)
          BY DEF Bounds, Capacity
        <5>3. tick.mark - mark <= moved - mark
          BY <1>t, <2>0
        <5>4. data'.delta \in Int
          BY <4>0, <4>2, <4>5 DEF Missing
        <5>5. Top * (now - stamp + Longest) \in Int
          BY <1>l, <1>t
        <5> QED BY <1>t, <4>1, <5>1, <5>2, <5>3, <5>4, <5>5
      <4> QED BY <4>3, <4>4, <4>5
    <3> QED BY <3>3, <3>4 DEF Bounds, RateBounded
  <2>2. CASE OldSample
    <3>1. /\ UNCHANGED <<mark, stamp>>
          /\ data' = data \/ data'.rated = FALSE
      BY <2>2 DEF OldSample, Carried, Unsampled, Absent, history
    <3>2. Capacity'
      BY <1>c, <2>0, <3>1 DEF Capacity
    <3> QED BY <3>1, <3>2 DEF Bounds, RateBounded
  <2>3. CASE Unlisted
    <3>1. UNCHANGED <<mark, stamp>> /\ data'.rated = FALSE
      BY <2>3 DEF Unlisted, Absent
    <3>2. Capacity'
      BY <1>c, <2>0, <3>1 DEF Capacity
    <3> QED BY <3>1, <3>2 DEF Bounds, RateBounded
  <2> QED BY <1>5, <2>1, <2>2, <2>3 DEF Publish
<1>6. CASE TickFails
  BY <1>6 DEF TickFails, NoTick, Bounds, Capacity, RateBounded
<1>7. CASE Reload
  BY <1>7 DEF Reload, NoTick, Absent, Bounds, Capacity, RateBounded
<1>8. CASE UNCHANGED vars
  BY <1>8 DEF vars, history, Bounds, Capacity, RateBounded
<1> QED BY <1>1, <1>2, <1>3, <1>4, <1>5, <1>6, <1>7, <1>8 DEF Next

\* A rate stays below what the link could have carried in its interval and one
\* tick more: a counter read early in a long tick makes no other spike.
THEOREM RateBoundedAlways == Spec => []RateBounded
<1>1. Init => Flow
  BY DEF Init, Flow, Drift, Clean, Counter, RateExplained, NoTick, Absent
<1>2. Init => Bounds
  <2>1. Top * 0 <= Top * (0 - 0 + Longest) /\ Top * 0 = 0
    BY TrafficAssumption, NoLess DEF TrafficAssumption
  <2> QED BY <2>1 DEF Init, Bounds, Capacity, RateBounded, NoTick, Absent
<1>3. Bounds => RateBounded
  BY DEF Bounds
<1> QED BY <1>1, <1>2, <1>3, Initially, Inductive, FlowInductive, BoundsInductive,
           PTL DEF Spec

=============================================================================
