-------------------------- MODULE OomCounterProofs --------------------------
(***************************************************************************)
(* What holds of the out-of-memory counter for every value of the bounds.  *)
(***************************************************************************)
EXTENDS OomCounter, TLAPS, FiniteSetTheorems

-----------------------------------------------------------------------------
\* A non-empty set of naturals with a bound has a maximum: of the intervals from
\* a member up to the bound, one contains no other.
LEMMA MaxOfBounded ==
    ASSUME NEW n \in Nat, NEW S \in SUBSET (0 .. n), S # {}
    PROVE  Max(S) \in S /\ \A y \in S : y <= Max(S)
<1> DEFINE U == 0 .. n
           T == {y .. n : y \in S}
           R == StrictSubsetOrdering(U)
<1>1. IsFiniteSet(U)
  BY FS_Interval
<1>2. IsWellFoundedOn(R, FiniteSubsetsOf(U))
  BY FS_StrictSubsetOrderingWellFounded
<1>3. T \subseteq FiniteSubsetsOf(U)
  <2> SUFFICES ASSUME NEW y \in S PROVE y .. n \in FiniteSubsetsOf(U)
    OBVIOUS
  <2>1. y .. n \subseteq U
    OBVIOUS
  <2>2. IsFiniteSet(y .. n)
    BY <2>1, <1>1, FS_Subset
  <2> QED
    BY <2>1, <2>2 DEF FiniteSubsetsOf
<1>4. T # {}
  OBVIOUS
<1>5. PICK t \in T : \A u \in T : ~(<<u, t>> \in R)
  <2> HIDE DEF T, R, U
  <2> QED BY <1>2, <1>3, <1>4, WFMin
<1>6. PICK x \in S : t = x .. n
  OBVIOUS
<1>7. \A y \in S : ~(<<y .. n, x .. n>> \in R)
  BY <1>5, <1>6
<1>8. ASSUME NEW y \in S, y > x PROVE FALSE
  <2>1. y .. n \subseteq x .. n /\ y .. n # x .. n
    <3>1. x \in x .. n /\ x \notin y .. n
      BY <1>8
    <3> QED BY <3>1, <1>8
  <2>2. y .. n \in SUBSET U /\ x .. n \in SUBSET U
    OBVIOUS
  <2>3. <<y .. n, x .. n>> \in R
    BY <2>1, <2>2 DEF StrictSubsetOrdering
  <2> QED BY <2>3, <1>7
<1>9. \A y \in S : x >= y
  BY <1>8
<1>10. QED
  BY <1>9 DEF Max
LEMMA BoundTypes ==
    /\ MaxEvents \in Nat
    /\ MaxTime \in Nat /\ MaxTime >= 1
    /\ MaxSkew \in Nat
    /\ MaxFolds \in Nat
    /\ MaxDelay \in Nat /\ MaxDelay >= 1
BY BoundAssumption DEF BoundAssumption

-----------------------------------------------------------------------------
(***************************************************************************)
(* The operators of advance_oom_state.                                     *)
(***************************************************************************)
LEMMA CardinalityOfEvents ==
    ASSUME logged \in Nat, NEW S \in SUBSET (1 .. logged)
    PROVE  /\ IsFiniteSet(S)
           /\ Cardinality(S) \in 0 .. logged
           /\ S # {} => Cardinality(S) >= 1
<1>1. IsFiniteSet(1 .. logged) /\ Cardinality(1 .. logged) = logged
  BY FS_Interval
<1>2. IsFiniteSet(S) /\ Cardinality(S) <= logged
  BY <1>1, FS_Subset
<1>3. Cardinality(S) \in Nat
  BY <1>2, FS_CardinalityType
<1>4. S # {} => Cardinality(S) # 0
  BY <1>2, FS_EmptySet
<1>5. Cardinality(S) \in 0 .. logged
  BY <1>1, <1>2, <1>3
<1>6. S # {} => Cardinality(S) >= 1
  BY <1>3, <1>4
<1> QED
  BY <1>2, <1>5, <1>6

LEMMA CardinalityGrows ==
    ASSUME logged \in Nat, NEW T \in SUBSET (1 .. logged), NEW S \in SUBSET T
    PROVE  Cardinality(S) <= Cardinality(T)
<1>1. IsFiniteSet(T)
  BY CardinalityOfEvents
<1> QED
  BY <1>1, FS_Subset

LEMMA CardinalityOfDisjoint ==
    ASSUME logged \in Nat, NEW S \in SUBSET (1 .. logged),
           NEW T \in SUBSET (1 .. logged), S \cap T = {}
    PROVE  Cardinality(S \cup T) = Cardinality(S) + Cardinality(T)
<1>1. IsFiniteSet(S) /\ IsFiniteSet(T)
  BY CardinalityOfEvents
<1>2. Cardinality(S \cap T) = 0
  BY FS_EmptySet
<1>3. Cardinality(S) \in Nat /\ Cardinality(T) \in Nat
  BY <1>1, FS_CardinalityType
<1>4. Cardinality(S \cup T)
          = Cardinality(S) + Cardinality(T) - Cardinality(S \cap T)
  BY <1>1, FS_Union
<1> QED
  BY <1>2, <1>3, <1>4

\* What the helpers of Advanced return.
LEMMA HelperTypes ==
    ASSUME TypeOK, NEW m \in Record
    PROVE  /\ logged \in Nat
           /\ Due \subseteq 1 .. logged
           /\ \A t : At(t) \in 0 .. logged
           /\ Known(m) \in Nat
           /\ Extra(m) \in Nat
           /\ KeptMark(m) \in {Known(m), At(m.last)}
           /\ KeptMark(m) >= Known(m) /\ KeptMark(m) >= At(m.last)
<1>0. logged \in 0 .. MaxEvents /\ events \subseteq 1 .. logged
  BY DEF TypeOK
<1>1. logged \in Nat /\ Due \subseteq 1 .. logged
  <2>1. logged \in Nat
    BY <1>0, BoundTypes
  <2>2. Due \subseteq events
    BY DEF Due
  <2> QED
    BY <1>0, <2>1, <2>2
<1>2. ASSUME NEW t PROVE At(t) \in 0 .. logged
  BY <1>1, CardinalityOfEvents DEF At
<1>3. Known(m) \in Nat
  BY BoundTypes DEF Record, Known
<1>4. At(m.last) \in Nat
  BY <1>1, <1>2
<1> QED
  BY <1>1, <1>2, <1>3, <1>4 DEF Extra, KeptMark

\* The last second of an advanced record: the old one, or the latest of a newer
\* due event.
LEMMA AdvancedLast ==
    ASSUME TypeOK, NEW m \in Record
    PROVE  LET newer == {i \in Due : stamp[i] > m.last}
               last  == Max({m.last} \cup {stamp[i] : i \in newer})
           IN  /\ \A i \in Due : stamp[i] <= last
               /\ newer = {} => last = m.last
               /\ newer # {} => \E i \in newer : last = stamp[i]
<1> DEFINE newer == {i \in Due : stamp[i] > m.last}
           S == {m.last} \cup {stamp[i] : i \in newer}
           n == MaxTime + MaxSkew
<1>1. n \in Nat
  BY BoundTypes
<1>2. \A i \in Due : stamp[i] \in 1 .. n
  BY DEF TypeOK, Due, Stamp
<1>3. m.last \in 0 .. n
  BY <1>1 DEF Record, Stamp
<1>4. S \subseteq 0 .. n /\ S # {}
  BY <1>1, <1>2, <1>3
<1> HIDE DEF S, n
<1>5. Max(S) \in S /\ \A y \in S : y <= Max(S)
  BY <1>1, <1>4, MaxOfBounded
<1>6. ASSUME NEW i \in Due PROVE stamp[i] <= Max(S)
  BY <1>2, <1>3, <1>4, <1>5 DEF S
<1>7. ASSUME newer = {} PROVE Max(S) = m.last
  BY <1>5, <1>7 DEF S
<1>8. ASSUME newer # {} PROVE \E i \in newer : Max(S) = stamp[i]
  <2>1. PICK i \in newer : TRUE
    BY <1>8
  <2>2. stamp[i] \in S /\ stamp[i] > m.last
    BY <2>1 DEF S
  <2>3. stamp[i] <= Max(S)
    BY <2>2, <1>5
  <2>4. m.last \in Int /\ stamp[i] \in Int /\ Max(S) \in Int
    <3>1. S \subseteq Int
      BY <1>1, <1>4
    <3>2. m.last \in Int
      BY <1>1, <1>3
    <3>3. stamp[i] \in Int /\ Max(S) \in Int
      BY <3>1, <2>2, <1>5
    <3> QED
      BY <3>2, <3>3
  <2>5. Max(S) # m.last
    BY <2>2, <2>3, <2>4
  <2> QED
    BY <2>5, <1>5 DEF S
<1> QED
  BY <1>6, <1>7, <1>8 DEF S

LEMMA AdvancedType ==
    ASSUME TypeOK, events # {}, NEW m \in Record
    PROVE  Advanced(m) \in Record /\ Advanced(m).total >= m.total
<1> DEFINE newer == {i \in Due : stamp[i] > m.last}
           last  == Max({m.last} \cup {stamp[i] : i \in newer})
<1>0. logged \in 0 .. MaxEvents /\ events \subseteq 1 .. logged
  BY DEF TypeOK
<1>1. logged \in 1 .. MaxEvents /\ MaxEvents \in Nat
  <2>1. PICK i \in events : TRUE
    OBVIOUS
  <2>2. i \in 1 .. logged
    BY <2>1, <1>0
  <2> QED
    BY <2>2, <1>0, BoundTypes
<1>2. Due \subseteq 1 .. logged
  BY HelperTypes
<1>3. last \in Stamp \cup {0}
  <2>1. \A i \in Due : stamp[i] \in Stamp
    BY <1>2 DEF TypeOK
  <2>2. last = m.last \/ \E i \in newer : last = stamp[i]
    BY AdvancedLast
  <2> QED
    BY <2>1, <2>2 DEF Record
<1>4. Cardinality(newer) \in Nat
  BY <1>1, <1>2, CardinalityOfEvents
<1>5. At(last) \in 0 .. MaxEvents
  BY <1>1, HelperTypes
<1>6. KeptMark(m) \in 0 .. MaxEvents
  <2>1. Known(m) \in 0 .. MaxEvents
    BY <1>1 DEF Known, Record
  <2>2. At(m.last) \in 0 .. MaxEvents
    BY <1>1, HelperTypes
  <2> QED
    BY <2>1, <2>2, HelperTypes
<1>7. m.total + Cardinality(newer) + Extra(m) \in Nat
  BY <1>4, HelperTypes DEF Record
<1>8. m.total + Cardinality(newer) + Extra(m) >= m.total
  BY <1>4, HelperTypes DEF Record
<1> HIDE DEF newer, last
<1>9. Advanced(m) = [last  |-> last,
                     mark  |-> IF newer = {} THEN KeptMark(m) ELSE At(last),
                     total |-> m.total + Cardinality(newer) + Extra(m)]
  BY DEF Advanced, newer, last
<1> QED
  BY <1>3, <1>5, <1>6, <1>7, <1>8, <1>9 DEF Record

LEMMA RewoundType ==
    ASSUME NEW m \in Record
    PROVE  Rewound(m) \in Record /\ Rewound(m).total = m.total
<1>1. [Zero EXCEPT !.total = m.total]
          = [last |-> 0, mark |-> 0, total |-> m.total]
  BY DEF Zero
<1> QED
  BY <1>1, BoundTypes DEF Rewound, Record

-----------------------------------------------------------------------------
(***************************************************************************)
(* The counter's block of a tick, its LETs taken apart: what is in memory  *)
(* is the loaded record or that record advanced, and what is stored is     *)
(* what was stored or what is in memory.                                   *)
(***************************************************************************)
LEMMA CountCases ==
    ASSUME NEW ok \in BOOLEAN, NEW saves \in BOOLEAN, Count(ok, saves),
           loaded \in BOOLEAN
    PROVE  \E m \in {mem, disk}, s \in {seen, stored} :
             /\ \/ m = mem /\ s = seen /\ loaded' = loaded
                \/ m = disk /\ s = stored /\ loaded' = TRUE
             /\ \/ mem' = m /\ seen' = s
                \/ /\ events # {}
                   /\ loaded' = TRUE
                   /\ mem' = Advanced(Rewound(m))
                   /\ seen' = s \cup Taken(Rewound(m))
             /\ \/ disk' = mem' /\ stored' = seen' /\ loaded' = TRUE
                \/ disk' = disk /\ stored' = stored
BY DEF Count, LoadedBy

LEMMA CountBooks ==
    ASSUME TypeOK, NEW ok \in BOOLEAN, NEW saves \in BOOLEAN, Count(ok, saves)
    PROVE  dirty' \in BOOLEAN /\ delay' \in 0 .. MaxDelay
           /\ retry' \in 0 .. MaxDelay - 1
<1>1. NextDelay \in 1 .. MaxDelay
  BY BoundTypes DEF TypeOK, NextDelay
<1>2. /\ dirty \in BOOLEAN
      /\ delay \in 0 .. MaxDelay
      /\ retry \in 0 .. MaxDelay - 1
  BY DEF TypeOK
<1>3. dirty' \in BOOLEAN
  BY <1>2 DEF Count
<1>4. delay' \in 0 .. MaxDelay
  BY <1>1, <1>2, BoundTypes DEF Count
<1>5. retry' \in 0 .. MaxDelay - 1
  BY <1>1, <1>2, BoundTypes DEF Count, Wait
<1> QED
  BY <1>3, <1>4, <1>5

LEMMA TakenType == ASSUME NEW m PROVE Taken(m) \subseteq events
BY DEF Taken, Due

-----------------------------------------------------------------------------
(***************************************************************************)
(* Types, and the stored total.                                            *)
(***************************************************************************)
\* A loaded counter is never behind the stored one.
StoredBehind == loaded => mem.total >= disk.total

TypeInv == TypeOK /\ StoredBehind

LEMMA InitType == Init => TypeInv
<1> SUFFICES ASSUME Init PROVE TypeInv
  OBVIOUS
<1>1. /\ now \in 1 .. MaxTime
      /\ skew \in 0 .. MaxSkew
      /\ folds \in 0 .. MaxFolds
      /\ delay \in 0 .. MaxDelay
      /\ retry \in 0 .. MaxDelay - 1
  BY BoundTypes DEF Init
<1>2. /\ loaded \in BOOLEAN /\ dirty \in BOOLEAN
      /\ phase \in {"idle", "tick"}
      /\ events \subseteq 1 .. logged
      /\ kept \subseteq 1 .. logged
      /\ seen \subseteq 1 .. logged
  BY DEF Init
<1>9. cut \in 0 .. logged /\ stored \subseteq 1 .. logged
  BY DEF Init
<1>3. mem \in Record
  BY BoundTypes DEF Init, Record, Zero
<1>4. 1 \in Stamp
  BY BoundTypes DEF Stamp
<1>5. disk \in Record
  BY <1>4, BoundTypes DEF Init, Record, Zero
<1>6. logged \in 0 .. MaxEvents
  BY BoundTypes DEF Init
<1>7. stamp \in [1 .. logged -> Stamp]
  BY <1>4 DEF Init
<1>8. StoredBehind
  BY DEF Init, StoredBehind
<1> QED
  BY <1>1, <1>2, <1>3, <1>5, <1>6, <1>7, <1>8, <1>9 DEF TypeInv, TypeOK

LEMMA CountType ==
    ASSUME TypeInv, NEW ok \in BOOLEAN, NEW saves \in BOOLEAN, Count(ok, saves)
    PROVE  /\ mem' \in Record /\ disk' \in Record
           /\ loaded' \in BOOLEAN
           /\ seen' \subseteq 1 .. logged /\ stored' \subseteq 1 .. logged
           /\ StoredBehind'
           /\ disk'.total >= disk.total
<1>1. /\ mem \in Record /\ disk \in Record /\ loaded \in BOOLEAN
      /\ seen \subseteq 1 .. logged /\ stored \subseteq 1 .. logged
      /\ events \subseteq 1 .. logged
      /\ loaded => mem.total >= disk.total
  BY DEF TypeInv, TypeOK, StoredBehind
<1>2. PICK m \in {mem, disk}, s \in {seen, stored} :
             /\ \/ m = mem /\ s = seen /\ loaded' = loaded
                \/ m = disk /\ s = stored /\ loaded' = TRUE
             /\ \/ mem' = m /\ seen' = s
                \/ /\ events # {}
                   /\ loaded' = TRUE
                   /\ mem' = Advanced(Rewound(m))
                   /\ seen' = s \cup Taken(Rewound(m))
             /\ \/ disk' = mem' /\ stored' = seen' /\ loaded' = TRUE
                \/ disk' = disk /\ stored' = stored
  BY <1>1, CountCases
<1>3. m \in Record /\ s \subseteq 1 .. logged
  BY <1>1
<1>4. loaded' \in BOOLEAN
  BY <1>1, <1>2
<1>5. mem' \in Record /\ mem'.total >= m.total
  <2>1. CASE mem' = m
    BY <2>1, <1>3 DEF Record
  <2>2. CASE events # {} /\ mem' = Advanced(Rewound(m))
    <3>1. Rewound(m) \in Record /\ Rewound(m).total = m.total
      BY <1>3, RewoundType
    <3>2. TypeOK
      BY DEF TypeInv
    <3> QED
      BY <2>2, <3>1, <3>2, AdvancedType
  <2> QED
    BY <1>2, <2>1, <2>2
<1>6. seen' \subseteq 1 .. logged
  BY <1>1, <1>2, <1>3, TakenType
<1>7. disk' \in Record /\ stored' \subseteq 1 .. logged
  BY <1>1, <1>2, <1>5, <1>6
<1>8. /\ mem.total \in Nat /\ disk.total \in Nat /\ mem'.total \in Nat
      /\ m.total \in Nat
  BY <1>1, <1>3, <1>5 DEF Record
<1>9. loaded' => m.total >= disk.total
  <2>1. CASE m = mem /\ loaded' = loaded
    BY <2>1, <1>1
  <2>2. CASE m = disk
    BY <2>2, <1>8
  <2> QED
    BY <1>2, <2>1, <2>2
<1>10. StoredBehind' /\ disk'.total >= disk.total
  BY <1>2, <1>5, <1>8, <1>9 DEF StoredBehind
<1> QED
  BY <1>4, <1>5, <1>6, <1>7, <1>10

LEMMA FreshType ==
    ASSUME Fresh
    PROVE  /\ mem' \in Record /\ loaded' = FALSE /\ dirty' = FALSE
           /\ delay' = 0 /\ retry' = 0
           /\ phase' = "idle" /\ events' = {} /\ kept' = {} /\ seen' = {}
BY BoundTypes DEF Fresh, Record, Zero

LEMMA NextType == TypeInv /\ [Next]_vars => TypeInv' /\ disk'.total >= disk.total
<1> SUFFICES ASSUME TypeInv, [Next]_vars
             PROVE  TypeInv' /\ disk'.total >= disk.total
  OBVIOUS
<1> USE DEF TypeInv, StoredBehind
<1>0. disk.total \in Nat
  BY DEF TypeOK, Record
<1>1. CASE Log
  <2>1. now + skew \in Stamp
    BY BoundTypes DEF TypeOK, Stamp
  <2>2. logged' = logged + 1 /\ logged' \in 0 .. MaxEvents
    BY <1>1, BoundTypes DEF Log, TypeOK
  <2>3. stamp' \in [1 .. logged' -> Stamp]
    BY <1>1, <2>1, <2>2, BoundTypes DEF Log, TypeOK
  <2>4. 1 .. logged \subseteq 1 .. logged' /\ cut \in 0 .. logged'
    BY <2>2, BoundTypes DEF TypeOK
  <2>5. /\ events \subseteq 1 .. logged' /\ kept \subseteq 1 .. logged'
        /\ seen \subseteq 1 .. logged' /\ stored \subseteq 1 .. logged'
    BY <2>4 DEF TypeOK
  <2> QED
    BY <1>0, <1>1, <2>2, <2>3, <2>4, <2>5
       DEF Log, TypeOK, clocks, store, tick
<1>2. CASE Rotate
  <2>1. cut' \in 0 .. logged
    BY <1>2, BoundTypes DEF Rotate, TypeOK
  <2> QED
    BY <1>0, <1>2, <2>1 DEF Rotate, TypeOK, clocks, store, tick
<1>3. CASE Pass
  <2>1. now' \in 1 .. MaxTime
    BY <1>3, BoundTypes DEF Pass, TypeOK
  <2> QED
    BY <1>0, <1>3, <2>1 DEF Pass, TypeOK, router, store, tick
<1>4. CASE Fold
  <2>1. now' \in 1 .. MaxTime /\ folds' \in 0 .. MaxFolds
    BY <1>4, BoundTypes DEF Fold, TypeOK
  <2> QED
    BY <1>0, <1>4, <2>1 DEF Fold, TypeOK, router, store, tick
<1>5. CASE ReadLog
  <2>1. events' \subseteq 1 .. logged
    BY <1>5 DEF ReadLog, TypeOK, Visible
  <2> QED
    BY <1>0, <1>5, <2>1 DEF ReadLog, TypeOK, clocks, router, store
<1>6. CASE EndTick
  <2>1. PICK ok \in BOOLEAN, saves \in BOOLEAN : Count(ok, saves)
    BY <1>6 DEF EndTick
  <2>2. /\ mem' \in Record /\ disk' \in Record
        /\ loaded' \in BOOLEAN
        /\ seen' \subseteq 1 .. logged /\ stored' \subseteq 1 .. logged
        /\ StoredBehind'
        /\ disk'.total >= disk.total
    BY <2>1, CountType
  <2>3. /\ dirty' \in BOOLEAN
        /\ delay' \in 0 .. MaxDelay
        /\ retry' \in 0 .. MaxDelay - 1
    BY <2>1, CountBooks
  <2>4. kept' \subseteq 1 .. logged
    BY <1>6 DEF EndTick, TypeOK
  <2> QED
    BY <1>6, <2>2, <2>3, <2>4 DEF EndTick, TypeOK, clocks, router
<1>7. CASE Restart
  <2>1. 0 \in 0 .. MaxDelay /\ 0 \in 0 .. MaxDelay - 1
    BY BoundTypes
  <2> QED
    BY <1>0, <1>7, <2>1, FreshType DEF Restart, TypeOK, clocks, router
<1>8. CASE UNCHANGED vars
  BY <1>0, <1>8 DEF vars, TypeOK, clocks, router, store, tick
<1> QED
  BY <1>1, <1>2, <1>3, <1>4, <1>5, <1>6, <1>7, <1>8 DEF Next

LEMMA TypeInvariant == Spec => []TypeInv
BY InitType, NextType, PTL DEF Spec

\* The declared types hold for every number of events, seconds and ticks.
THEOREM TypeCorrect == Spec => []TypeOK
<1>1. TypeInv => TypeOK
  BY DEF TypeInv
<1> QED
  BY <1>1, TypeInvariant, PTL

\* What storage holds only grows - through restarts, failed loads and failed
\* saves, and even when the clock is set back.
THEOREM StorageIsMonotone == Spec => StoredTotalGrows
<1>1. TypeInv /\ [Next]_vars => [disk'.total >= disk.total]_vars
  BY NextType
<1> QED
  BY <1>1, TypeInvariant, PTL DEF Spec, StoredTotalGrows

-----------------------------------------------------------------------------
(***************************************************************************)
(* Nothing is counted twice while the clock advances.  The invariant says  *)
(* more of a record m and the events s it accounts for: none is later than *)
(* its last second, that second is not in the future (else it would be     *)
(* dropped), and of the total at most the mark falls on the last second,   *)
(* the rest on distinct earlier events.                                    *)
(***************************************************************************)
Before(m, s) == {i \in s : stamp[i] < m.last}
During(m, s) == {i \in s : stamp[i] = m.last}

Sound(m, s) ==
    /\ \A i \in s : stamp[i] <= m.last
    /\ m.last <= now
    /\ Known(m) <= Cardinality(During(m, s))
    /\ m.total <= Cardinality(Before(m, s)) + Known(m)

SoundInv == folds = 0 => Sound(mem, seen) /\ Sound(disk, stored)

CountInv == TypeInv /\ SoundInv

LEMMA SoundBound ==
    ASSUME TypeOK, NEW m \in Record, NEW s \in SUBSET (1 .. logged), Sound(m, s)
    PROVE  m.total <= Cardinality(s)
<1>1. logged \in Nat
  BY HelperTypes
<1>2. /\ Before(m, s) \in SUBSET (1 .. logged)
      /\ During(m, s) \in SUBSET (1 .. logged)
      /\ Before(m, s) \cap During(m, s) = {}
  <2>1. \A i \in s : stamp[i] \in Int
    BY BoundTypes DEF TypeOK, Stamp
  <2>2. m.last \in Int
    BY BoundTypes DEF Record, Stamp
  <2>3. Before(m, s) \subseteq s /\ During(m, s) \subseteq s
    BY DEF Before, During
  <2>4. Before(m, s) \cap During(m, s) = {}
    BY <2>1, <2>2 DEF Before, During
  <2> QED
    BY <2>3, <2>4
<1>3. Cardinality(Before(m, s) \cup During(m, s))
          = Cardinality(Before(m, s)) + Cardinality(During(m, s))
  BY <1>1, <1>2, CardinalityOfDisjoint
<1>4. Cardinality(Before(m, s) \cup During(m, s)) <= Cardinality(s)
  BY <1>1, CardinalityGrows DEF Before, During
<1>5. /\ Cardinality(Before(m, s)) \in Int
      /\ Cardinality(During(m, s)) \in Int
      /\ Cardinality(s) \in Int
  BY <1>1, <1>2, CardinalityOfEvents
<1>6. Known(m) \in Int /\ m.total \in Int
  BY HelperTypes DEF Record
<1> QED
  BY <1>3, <1>4, <1>5, <1>6 DEF Sound

\* A tick without newer events: only the last second may have grown.
LEMMA SoundWithoutNewer ==
    ASSUME TypeOK, events # {}, NEW m \in Record,
           NEW s \in SUBSET (1 .. logged), Sound(m, s),
           {i \in Due : stamp[i] > m.last} = {}
    PROVE  Sound(Advanced(m), s \cup Taken(m))
<1> DEFINE a == Advanced(m)
           t == s \cup Taken(m)
<1>1. /\ logged \in Nat /\ Due \subseteq 1 .. logged
      /\ Known(m) \in Nat /\ Extra(m) \in Nat /\ At(m.last) \in Nat
      /\ KeptMark(m) = Known(m) + Extra(m)
      /\ KeptMark(m) \in {Known(m), At(m.last)}
  <2>1. At(m.last) \in 0 .. logged
    BY HelperTypes
  <2> QED
    BY <2>1, HelperTypes DEF KeptMark
<1>2. m.last \in Int /\ m.mark \in Nat /\ m.total \in Nat /\ m.last >= 0
  BY BoundTypes DEF Record, Stamp
<1>3. /\ a.last = m.last
      /\ a.mark = KeptMark(m)
      /\ a.total = m.total + Extra(m)
  <2>1. Max({m.last} \cup {stamp[i] : i \in {i \in Due : stamp[i] > m.last}})
            = m.last
    BY AdvancedLast
  <2>2. Cardinality({i \in Due : stamp[i] > m.last}) = 0
    BY FS_EmptySet
  <2>3. m.total + 0 + Extra(m) = m.total + Extra(m)
    BY <1>1, <1>2
  <2> QED
    BY <2>1, <2>2, <2>3 DEF Advanced
<1>4. Known(a) = KeptMark(m)
  BY <1>1, <1>2, <1>3 DEF Known
<1>5. \A i \in Due : stamp[i] <= m.last
  BY <1>1, <1>2, BoundTypes DEF TypeOK, Stamp
<1>6. \A i \in t : stamp[i] <= a.last
  BY <1>3, <1>5 DEF Sound, Taken
<1>7. t \in SUBSET (1 .. logged)
  BY <1>1 DEF Taken
<1>8. Known(a) <= Cardinality(During(a, t))
  <2>1. During(a, t) \in SUBSET (1 .. logged)
    BY <1>7 DEF During
  <2>2. Cardinality(During(m, s)) <= Cardinality(During(a, t))
    BY <1>1, <1>3, <2>1, CardinalityGrows DEF During
  <2>3. {i \in Due : stamp[i] = m.last} \subseteq During(a, t)
    BY <1>2, <1>3 DEF During, Taken
  <2>4. At(m.last) <= Cardinality(During(a, t))
    BY <1>1, <2>1, <2>3, CardinalityGrows DEF At
  <2>5. /\ Cardinality(During(m, s)) \in Int
        /\ Cardinality(During(a, t)) \in Int
    <3>1. During(m, s) \in SUBSET (1 .. logged)
      BY DEF During
    <3> QED
      BY <1>1, <2>1, <3>1, CardinalityOfEvents
  <2>6. Known(m) <= Cardinality(During(m, s))
    BY DEF Sound
  <2> QED
    BY <1>1, <1>4, <2>2, <2>4, <2>5, <2>6
<1>9. a.total <= Cardinality(Before(a, t)) + Known(a)
  <2>1. Before(a, t) \in SUBSET (1 .. logged)
    BY <1>7 DEF Before
  <2>2. Before(m, s) \in SUBSET Before(a, t)
    BY <1>3 DEF Before
  <2>3. Cardinality(Before(m, s)) <= Cardinality(Before(a, t))
    BY <1>1, <2>1, <2>2, CardinalityGrows
  <2>4. /\ Cardinality(Before(m, s)) \in Int
        /\ Cardinality(Before(a, t)) \in Int
    BY <1>1, <2>1, <2>2, CardinalityOfEvents
  <2>5. m.total <= Cardinality(Before(m, s)) + Known(m)
    BY DEF Sound
  <2> QED
    BY <1>1, <1>2, <1>3, <1>4, <2>3, <2>4, <2>5
<1>10. a.last <= now
  BY <1>3 DEF Sound
<1> QED
  BY <1>6, <1>8, <1>9, <1>10 DEF Sound

\* A tick with newer events: the old last second is complete.
LEMMA SoundWithNewer ==
    ASSUME TypeOK, events # {}, NEW m \in Record,
           NEW s \in SUBSET (1 .. logged), Sound(m, s),
           {i \in Due : stamp[i] > m.last} # {}
    PROVE  Sound(Advanced(m), s \cup Taken(m))
<1> DEFINE a == Advanced(m)
           t == s \cup Taken(m)
           newer == {i \in Due : stamp[i] > m.last}
           last == Max({m.last} \cup {stamp[i] : i \in newer})
           W == {i \in Due : stamp[i] = last}
           X == {i \in Due : stamp[i] > m.last /\ stamp[i] < last}
           E == {i \in Due : stamp[i] = m.last}
           B == Before(m, s)
           F == During(m, s) \cup E
<1>1. /\ logged \in Nat /\ Due \subseteq 1 .. logged
      /\ Known(m) \in Nat /\ Extra(m) \in Nat /\ At(m.last) \in Nat
      /\ KeptMark(m) = Known(m) + Extra(m)
      /\ KeptMark(m) \in {Known(m), At(m.last)}
  <2>1. At(m.last) \in 0 .. logged
    BY HelperTypes
  <2> QED
    BY <2>1, HelperTypes DEF KeptMark
<1>2. m.last \in Int /\ m.mark \in Nat /\ m.total \in Nat /\ m.last >= 0
  BY BoundTypes DEF Record, Stamp
<1>3. \A i \in 1 .. logged : stamp[i] \in Nat
  BY BoundTypes DEF TypeOK, Stamp
<1>4. /\ \A i \in Due : stamp[i] <= last
      /\ \E i \in newer : last = stamp[i]
  BY AdvancedLast
<1> HIDE DEF last
<1>5. last \in Int /\ last > m.last /\ last > 0 /\ last <= now
  <2>1. PICK i \in newer : last = stamp[i]
    BY <1>4
  <2>2. stamp[i] \in Nat /\ stamp[i] > m.last /\ stamp[i] <= now
    BY <2>1, <1>1, <1>3 DEF Due
  <2> QED
    BY <2>1, <2>2, <1>2
<1>6. /\ W \in SUBSET (1 .. logged)
      /\ X \in SUBSET (1 .. logged)
      /\ E \in SUBSET (1 .. logged)
      /\ t \in SUBSET (1 .. logged)
      /\ B \in SUBSET (1 .. logged)
      /\ During(m, s) \in SUBSET (1 .. logged)
      /\ F \in SUBSET (1 .. logged)
  BY <1>1 DEF Taken, Before, During
<1>7. W # {} /\ Cardinality(W) \in Nat /\ Cardinality(W) >= 1
  <2>1. W # {}
    BY <1>4
  <2> QED
    BY <2>1, <1>1, <1>6, CardinalityOfEvents
<1>8. Cardinality(newer) = Cardinality(W) + Cardinality(X)
  <2>1. newer = W \cup X
    <3>1. \A i \in Due : stamp[i] \in Int
      BY <1>1, <1>3
    <3>2. \A i \in Due : stamp[i] <= last
      BY <1>4
    <3> QED
      BY <3>1, <3>2, <1>2, <1>5
  <2>2. W \cap X = {}
    BY <1>5
  <2> QED
    BY <2>1, <2>2, <1>1, <1>6, CardinalityOfDisjoint
<1>9. /\ a.last = last
      /\ a.mark = Cardinality(W)
      /\ a.total = m.total + Cardinality(newer) + Extra(m)
  BY DEF Advanced, At, last
<1>10. Known(a) = Cardinality(W)
  BY <1>7, <1>9 DEF Known
<1>11. \A i \in t : stamp[i] <= last
  <2>1. ASSUME NEW i \in s PROVE stamp[i] <= last
    <3>1. stamp[i] \in Nat /\ stamp[i] <= m.last
      BY <1>3 DEF Sound
    <3> QED
      BY <3>1, <1>2, <1>5
  <2>2. \A i \in Taken(m) : stamp[i] <= last
    BY <1>4 DEF Taken
  <2> QED
    BY <2>1, <2>2
<1>12. Cardinality(W) <= Cardinality(During(a, t))
  <2>1. During(a, t) \in SUBSET (1 .. logged)
    BY <1>6 DEF During
  <2>2. W \in SUBSET During(a, t)
    BY <1>2, <1>5, <1>9 DEF During, Taken
  <2> QED
    BY <1>1, <2>1, <2>2, CardinalityGrows
<1>13. Known(m) + Extra(m) <= Cardinality(F)
  <2>1. Cardinality(During(m, s)) <= Cardinality(F)
    BY <1>1, <1>6, CardinalityGrows
  <2>2. At(m.last) <= Cardinality(F)
    BY <1>1, <1>6, CardinalityGrows DEF At
  <2>3. Cardinality(During(m, s)) \in Int /\ Cardinality(F) \in Int
    BY <1>1, <1>6, CardinalityOfEvents
  <2>4. Known(m) <= Cardinality(During(m, s))
    BY DEF Sound
  <2> HIDE DEF F
  <2> QED
    BY <1>1, <2>1, <2>2, <2>3, <2>4
<1>14. Cardinality(B) + Cardinality(F) + Cardinality(X)
           <= Cardinality(Before(a, t))
  <2>1. B \cap F = {}
    BY <1>2, <1>3 DEF Before, During
  <2>2. Cardinality(B \cup F) = Cardinality(B) + Cardinality(F)
    BY <2>1, <1>1, <1>6, CardinalityOfDisjoint
  <2>3. (B \cup F) \cap X = {}
    <3>1. \A i \in B \cup F : i \in 1 .. logged /\ stamp[i] <= m.last
      BY <1>2, <1>3, <1>6 DEF Before, During
    <3> QED
      BY <3>1, <1>2, <1>3
  <2>4. Cardinality((B \cup F) \cup X) = Cardinality(B \cup F) + Cardinality(X)
    BY <2>3, <1>1, <1>6, CardinalityOfDisjoint
  <2>5. Before(a, t) \in SUBSET (1 .. logged)
    BY <1>6 DEF Before
  <2>6. (B \cup F) \cup X \in SUBSET Before(a, t)
    <3>1. \A i \in B \cup F \cup X : i \in t
      BY <1>2, <1>3, <1>6 DEF Before, During, Taken
    <3>2. \A i \in B \cup F \cup X : stamp[i] < last
      BY <1>2, <1>3, <1>5, <1>6 DEF Before, During
    <3> QED
      BY <3>1, <3>2, <1>9 DEF Before
  <2>7. Cardinality((B \cup F) \cup X) <= Cardinality(Before(a, t))
    BY <1>1, <2>5, <2>6, CardinalityGrows
  <2> QED
    BY <2>2, <2>4, <2>7
<1>15. /\ Cardinality(B) \in Int /\ Cardinality(F) \in Int
       /\ Cardinality(X) \in Int /\ Cardinality(Before(a, t)) \in Int
  <2>1. Before(a, t) \in SUBSET (1 .. logged)
    BY <1>6 DEF Before
  <2>2. \A S \in SUBSET (1 .. logged) : Cardinality(S) \in Int
    BY <1>1, CardinalityOfEvents
  <2> HIDE DEF B, F, X, t, a
  <2> QED
    BY <1>6, <2>1, <2>2
<1>16. m.total <= Cardinality(B) + Known(m)
  BY DEF Sound
<1> HIDE DEF a, t, W, X, B, F, newer
<1>17. a.total <= Cardinality(Before(a, t)) + Known(a)
  BY <1>1, <1>2, <1>7, <1>8, <1>9, <1>10, <1>13, <1>14, <1>15, <1>16
<1>18. Sound(a, t)
  BY <1>5, <1>9, <1>10, <1>11, <1>12, <1>17 DEF Sound
<1> QED
  BY <1>18 DEF a, t

LEMMA SoundAdvanced ==
    ASSUME TypeOK, events # {}, NEW m \in Record,
           NEW s \in SUBSET (1 .. logged), Sound(m, s)
    PROVE  Sound(Advanced(Rewound(m)), s \cup Taken(Rewound(m)))
<1>1. m.last \in Int /\ now \in Int /\ m.last <= now
  BY BoundTypes DEF Sound, TypeOK, Record, Stamp
<1>2. Rewound(m) = m
  BY <1>1 DEF Rewound
<1> QED
  BY <1>2, SoundWithoutNewer, SoundWithNewer

LEMMA CountSound ==
    ASSUME CountInv, folds = 0, NEW ok \in BOOLEAN, NEW saves \in BOOLEAN,
           Count(ok, saves), UNCHANGED <<clocks, router>>
    PROVE  Sound(mem, seen)' /\ Sound(disk, stored)'
<1>1. /\ TypeOK
      /\ mem \in Record /\ disk \in Record /\ loaded \in BOOLEAN
      /\ seen \subseteq 1 .. logged /\ stored \subseteq 1 .. logged
      /\ Sound(mem, seen) /\ Sound(disk, stored)
  BY DEF CountInv, TypeInv, TypeOK, SoundInv
<1>2. PICK m \in {mem, disk}, s \in {seen, stored} :
             /\ \/ m = mem /\ s = seen /\ loaded' = loaded
                \/ m = disk /\ s = stored /\ loaded' = TRUE
             /\ \/ mem' = m /\ seen' = s
                \/ /\ events # {}
                   /\ loaded' = TRUE
                   /\ mem' = Advanced(Rewound(m))
                   /\ seen' = s \cup Taken(Rewound(m))
             /\ \/ disk' = mem' /\ stored' = seen' /\ loaded' = TRUE
                \/ disk' = disk /\ stored' = stored
  BY <1>1, CountCases
<1>3. m \in Record /\ s \in SUBSET (1 .. logged) /\ Sound(m, s)
  BY <1>1, <1>2
<1>4. \E n, r : mem' = n /\ seen' = r /\ Sound(n, r)
  BY <1>1, <1>2, <1>3, SoundAdvanced
<1>5. PICK n, r : mem' = n /\ seen' = r /\ Sound(n, r)
  BY <1>4
<1>6. stamp' = stamp /\ now' = now
  BY DEF clocks, router
<1>7. Sound(mem, seen)'
  BY <1>5, <1>6 DEF Sound, Before, During, Known
<1>8. Sound(disk, stored)'
  <2>1. CASE disk' = mem' /\ stored' = seen'
    BY <2>1, <1>5, <1>6 DEF Sound, Before, During, Known
  <2>2. CASE disk' = disk /\ stored' = stored
    BY <2>2, <1>1, <1>6 DEF Sound, Before, During, Known
  <2> QED
    BY <1>2, <2>1, <2>2
<1> QED
  BY <1>7, <1>8

LEMMA ZeroSound == now \in Nat => Sound(Zero, {})
<1>1. Before(Zero, {}) = {} /\ During(Zero, {}) = {}
  BY DEF Before, During
<1>2. Cardinality({}) = 0
  BY FS_EmptySet
<1>3. Zero.last = 0 /\ Zero.total = 0 /\ Known(Zero) = 0
  BY DEF Zero, Known
<1> QED
  BY <1>1, <1>2, <1>3 DEF Sound

LEMMA InitSound == Init => SoundInv
<1> SUFFICES ASSUME Init PROVE SoundInv
  OBVIOUS
<1>1. now = 1
  BY DEF Init
<1>2. Sound(Zero, {})
  BY <1>1, ZeroSound
<1>3. Sound(mem, seen)
  BY <1>2 DEF Init
<1>4. CASE stored = {} /\ disk = Zero
  BY <1>2, <1>3, <1>4 DEF SoundInv
<1>5. CASE /\ logged = 1
           /\ disk = [last |-> 1, mark |-> 0, total |-> 1]
           /\ stored = {1}
  <2>1. stamp[1] = 1
    BY <1>5 DEF Init
  <2>2. disk.last = 1 /\ disk.total = 1 /\ Known(disk) = 1
    BY <1>5 DEF Known
  <2>3. Before(disk, stored) = {} /\ During(disk, stored) = {1}
    BY <1>5, <2>1, <2>2 DEF Before, During
  <2>4. Cardinality({}) = 0 /\ Cardinality({1}) = 1
    BY FS_EmptySet, FS_Singleton
  <2>5. \A i \in stored : stamp[i] <= disk.last
    BY <1>5, <2>1, <2>2
  <2>6. Sound(disk, stored)
    BY <1>1, <2>2, <2>3, <2>4, <2>5 DEF Sound
  <2> QED
    BY <1>3, <2>6 DEF SoundInv
<1> QED
  BY <1>4, <1>5 DEF Init

\* An event that is logged, and a clock that advances, leave a record sound.
LEMMA SoundKept ==
    ASSUME NEW m \in Record, NEW s \in SUBSET (1 .. logged), Sound(m, s),
           now \in Nat, now' \in Nat, now' >= now,
           \A i \in 1 .. logged : stamp'[i] = stamp[i]
    PROVE  /\ \A i \in s : stamp'[i] <= m.last
           /\ m.last <= now'
           /\ Known(m) <= Cardinality({i \in s : stamp'[i] = m.last})
           /\ m.total <= Cardinality({i \in s : stamp'[i] < m.last}) + Known(m)
<1>1. \A i \in s : stamp'[i] = stamp[i]
  OBVIOUS
<1>2. {i \in s : stamp'[i] = m.last} = During(m, s)
  BY <1>1 DEF During
<1>3. {i \in s : stamp'[i] < m.last} = Before(m, s)
  BY <1>1 DEF Before
<1>4. m.last \in Int
  BY BoundTypes DEF Record, Stamp
<1> QED
  BY <1>1, <1>2, <1>3, <1>4 DEF Sound

LEMMA NextSound == CountInv /\ [Next]_vars => SoundInv'
<1> SUFFICES ASSUME CountInv, [Next]_vars, folds' = 0
             PROVE  Sound(mem, seen)' /\ Sound(disk, stored)'
  BY DEF SoundInv
<1>1. /\ now \in Nat /\ folds \in Nat /\ logged \in Nat
      /\ mem \in Record /\ disk \in Record
      /\ seen \in SUBSET (1 .. logged) /\ stored \in SUBSET (1 .. logged)
  BY BoundTypes DEF CountInv, TypeInv, TypeOK
<1>2. CASE Fold
  BY <1>1, <1>2 DEF Fold
<1>3. ASSUME ~Fold PROVE folds = 0
  BY <1>1, <1>3 DEF Next, vars, Log, Rotate, Pass, ReadLog, EndTick, Restart,
     clocks
<1>4. ASSUME folds = 0 PROVE Sound(mem, seen) /\ Sound(disk, stored)
  BY <1>4 DEF CountInv, SoundInv
<1>5. ASSUME ~Fold, mem' = mem, seen' = seen, disk' = disk, stored' = stored,
             now' \in Nat, now' >= now,
             \A i \in 1 .. logged : stamp'[i] = stamp[i]
      PROVE  Sound(mem, seen)' /\ Sound(disk, stored)'
  <2>1. Sound(mem, seen) /\ Sound(disk, stored)
    BY <1>3, <1>4, <1>5
  <2>2. Sound(mem, seen)'
    BY <1>1, <1>5, <2>1, SoundKept DEF Sound, Before, During, Known
  <2>3. Sound(disk, stored)'
    BY <1>1, <1>5, <2>1, SoundKept DEF Sound, Before, During, Known
  <2> QED
    BY <2>2, <2>3
<1>6. CASE Log
  BY <1>1, <1>5, <1>6 DEF Log, Fold, clocks, store
<1>7. CASE Rotate
  BY <1>1, <1>5, <1>7 DEF Rotate, Fold, clocks, store
<1>8. CASE Pass
  BY <1>1, <1>5, <1>8 DEF Pass, Fold, router, store
<1>9. CASE ReadLog
  BY <1>1, <1>5, <1>9 DEF ReadLog, Fold, clocks, router, store
<1>10. CASE UNCHANGED vars
  BY <1>1, <1>5, <1>10 DEF vars, Fold, clocks, router, store
<1>11. CASE EndTick
  <2>1. PICK ok \in BOOLEAN, saves \in BOOLEAN : Count(ok, saves)
    BY <1>11 DEF EndTick
  <2>2. folds = 0 /\ UNCHANGED <<clocks, router>>
    BY <1>11 DEF EndTick, clocks
  <2> QED
    BY <2>1, <2>2, CountSound
<1>12. CASE Restart
  <2>1. folds = 0 /\ now' = now /\ stamp' = stamp
    BY <1>12 DEF Restart, clocks, router
  <2>2. Sound(Zero, {}) /\ Sound(disk, stored)
    BY <2>1, <1>1, <1>4, ZeroSound
  <2>3. mem' = Zero /\ seen' = {} /\ disk' = disk /\ stored' = stored
    BY <1>12 DEF Restart, Fresh
  <2> QED
    BY <2>1, <2>2, <2>3 DEF Sound, Before, During, Known
<1> QED
  BY <1>2, <1>6, <1>7, <1>8, <1>9, <1>10, <1>11, <1>12 DEF Next

\* As long as the clock is not set back, no event is counted twice: for any
\* number of events in a second, any skew of the router's clock, and any pattern
\* of restarts, rotated windows, failed loads and failed saves.
THEOREM NothingCountedTwice == Spec => []CountedAtMostOnce
<1>1. Init => CountInv
  BY InitType, InitSound DEF CountInv
<1>2. CountInv /\ [Next]_vars => CountInv'
  BY NextType, NextSound DEF CountInv
<1>3. CountInv => CountedAtMostOnce
  <2> SUFFICES ASSUME CountInv, folds = 0
               PROVE  mem.total <= Cardinality(seen)
    BY DEF CountedAtMostOnce
  <2>1. /\ TypeOK /\ mem \in Record /\ seen \in SUBSET (1 .. logged)
        /\ Sound(mem, seen)
    BY DEF CountInv, TypeInv, TypeOK, SoundInv
  <2> QED
    BY <2>1, SoundBound
<1> QED
  BY <1>1, <1>2, <1>3, PTL DEF Spec

-----------------------------------------------------------------------------
(***************************************************************************)
(* Nothing is missed while the clock advances.  The log is in the order of *)
(* time, and whoever knows an event of it knows every earlier one that is  *)
(* still in the window: so a late event can only fall on the last second,  *)
(* which the mark completes.                                               *)
(***************************************************************************)
Ordered == \A i, j \in 1 .. logged : i <= j => stamp[i] <= stamp[j]

Ahead == \A i \in 1 .. logged : stamp[i] <= now + skew

Window(S) == \A i \in S, j \in 1 .. logged : cut < j /\ j <= i => j \in S

Seconds(s) == {stamp[i] : i \in s}

\* The converse of Sound: of the events s, none is missing in the record m, but
\* for those of a second that the window had begun to leave.
Full(m, s) ==
    /\ m.last # 0 => \E i \in s : stamp[i] = m.last
    /\ Cardinality(Seconds(s)) <= m.total
    /\ cut = 0 =>
         /\ Cardinality(Before(m, s)) + Known(m) <= m.total
         /\ Cardinality(During(m, s)) <= Known(m)

Windows == Window(events) /\ Window(kept) /\ Window(seen) /\ Window(stored)

FullInv ==
    folds = 0 => Ordered /\ Ahead /\ Windows /\ Full(mem, seen)
                 /\ Full(disk, stored)

MissInv == CountInv /\ FullInv

LEMMA StampTypes ==
    ASSUME TypeOK
    PROVE  \A i \in 1 .. logged : stamp[i] \in Nat /\ stamp[i] >= 1
BY BoundTypes DEF TypeOK, Stamp

LEMMA CardinalityOfSeconds ==
    ASSUME logged \in Nat, NEW S \in SUBSET (1 .. logged)
    PROVE  IsFiniteSet(Seconds(S)) /\ Cardinality(Seconds(S)) <= Cardinality(S)
<1> DEFINE f == [i \in S |-> stamp[i]]
<1>1. f \in Surjection(S, Seconds(S))
  BY DEF Surjection, Seconds
<1>2. IsFiniteSet(S)
  BY CardinalityOfEvents
<1> HIDE DEF f
<1> QED
  BY <1>1, <1>2, FS_Surjection

\* The due events form a window, as does what is taken into account of them.
LEMMA WindowOfTaken ==
    ASSUME TypeOK, NEW m \in Record, NEW s \in SUBSET (1 .. logged),
           Ordered, Window(events), Window(s)
    PROVE  Window(Due) /\ Window(s \cup Taken(m))
<1>1. Due \subseteq 1 .. logged /\ events \subseteq 1 .. logged
  BY HelperTypes DEF TypeOK
<1>2. ASSUME NEW i \in Due, NEW j \in 1 .. logged, cut < j, j <= i
      PROVE  j \in Due
  <2>1. i \in events /\ i \in 1 .. logged /\ stamp[i] <= now
    BY <1>1 DEF Due
  <2>2. j \in events
    BY <1>2, <2>1 DEF Window
  <2>3. stamp[j] <= stamp[i]
    BY <1>2, <2>1 DEF Ordered
  <2>4. stamp[j] \in Int /\ stamp[i] \in Int /\ now \in Int
    BY <2>1, StampTypes DEF TypeOK
  <2> QED
    BY <2>1, <2>2, <2>3, <2>4 DEF Due
<1>3. Window(Due)
  BY <1>2 DEF Window
<1>4. ASSUME NEW i \in Taken(m), NEW j \in 1 .. logged, cut < j, j <= i
      PROVE  j \in Taken(m)
  BY <1>2, <1>4, BoundTypes DEF Taken, TypeOK
<1> QED
  BY <1>3, <1>4 DEF Window

\* A due event of the window that is older than the last second is not new, and
\* a second up to the last one is never new.
LEMMA OldIsKnown ==
    ASSUME TypeOK, NEW m \in Record, NEW s \in SUBSET (1 .. logged),
           Ordered, Window(s), Full(m, s), NEW i \in Taken(m)
    PROVE  /\ stamp[i] < m.last => i \in s
           /\ stamp[i] <= m.last => stamp[i] \in Seconds(s)
<1>1. Due \subseteq 1 .. logged
  BY HelperTypes
<1>2. i \in 1 .. logged /\ (i > cut \/ stamp[i] >= m.last)
  BY <1>1 DEF Taken
<1>3. stamp[i] \in Nat /\ stamp[i] >= 1 /\ m.last \in Int
  BY <1>2, StampTypes, BoundTypes DEF Record, Stamp
<1>4. ASSUME stamp[i] <= m.last PROVE \E j \in s : stamp[j] = m.last
  BY <1>3, <1>4 DEF Full
<1>5. ASSUME stamp[i] < m.last PROVE i \in s
  <2>1. PICK j \in s : stamp[j] = m.last
    BY <1>3, <1>4, <1>5
  <2>2. ~(j <= i)
    BY <1>2, <1>3, <1>5, <2>1 DEF Ordered
  <2>3. i <= j /\ cut < i
    BY <1>2, <1>3, <1>5, <2>2, BoundTypes DEF TypeOK
  <2> QED
    BY <1>2, <2>3 DEF Window
<1>6. ASSUME stamp[i] = m.last PROVE stamp[i] \in Seconds(s)
  BY <1>3, <1>4, <1>6 DEF Seconds
<1>7. i \in s => stamp[i] \in Seconds(s)
  BY DEF Seconds
<1> QED
  BY <1>3, <1>5, <1>6, <1>7

\* Two windows that nothing has left: one contains the other.
LEMMA WindowsComparable ==
    ASSUME logged \in Nat, cut = 0, NEW S \in SUBSET (1 .. logged),
           NEW T \in SUBSET (1 .. logged), Window(S), Window(T)
    PROVE  S \subseteq T \/ T \subseteq S
<1> SUFFICES ASSUME NEW i \in S, i \notin T, NEW j \in T, j \notin S
             PROVE  FALSE
  OBVIOUS
<1>1. i \in 1 .. logged /\ j \in 1 .. logged
  OBVIOUS
<1>2. ~(i <= j) /\ ~(j <= i)
  BY <1>1 DEF Window
<1> QED
  BY <1>1, <1>2


\* A tick without newer events completes the last second and nothing else.
LEMMA FullWithoutNewer ==
    ASSUME TypeOK, events # {}, NEW m \in Record,
           NEW s \in SUBSET (1 .. logged), Sound(m, s),
           Ordered, Window(events), Window(s), Full(m, s),
           {i \in Due : stamp[i] > m.last} = {}
    PROVE  Full(Advanced(m), s \cup Taken(m))
<1> DEFINE a == Advanced(m)
           t == s \cup Taken(m)
           E == {i \in Due : stamp[i] = m.last}
<1>1. /\ logged \in Nat /\ Due \subseteq 1 .. logged
      /\ Known(m) \in Nat /\ Extra(m) \in Nat /\ At(m.last) \in Nat
      /\ KeptMark(m) = Known(m) + Extra(m)
      /\ KeptMark(m) >= Known(m) /\ KeptMark(m) >= At(m.last)
  <2>1. At(m.last) \in 0 .. logged
    BY HelperTypes
  <2> QED
    BY <2>1, HelperTypes DEF KeptMark
<1>2. m.last \in Int /\ m.mark \in Nat /\ m.total \in Nat /\ m.last >= 0
  BY BoundTypes DEF Record, Stamp
<1>3. /\ a.last = m.last
      /\ a.mark = KeptMark(m)
      /\ a.total = m.total + Extra(m)
  <2>1. Max({m.last} \cup {stamp[i] : i \in {i \in Due : stamp[i] > m.last}})
            = m.last
    BY AdvancedLast
  <2>2. Cardinality({i \in Due : stamp[i] > m.last}) = 0
    BY FS_EmptySet
  <2>3. m.total + 0 + Extra(m) = m.total + Extra(m)
    BY <1>1, <1>2
  <2> QED
    BY <2>1, <2>2, <2>3 DEF Advanced
<1>4. Known(a) = KeptMark(m)
  BY <1>1, <1>2, <1>3 DEF Known
<1>5. \A i \in Due : stamp[i] \in Nat /\ stamp[i] <= m.last
  BY <1>1, <1>2, StampTypes
<1>6. Taken(m) \subseteq Due
  BY DEF Taken
<1>7. t \in SUBSET (1 .. logged) /\ E \in SUBSET (1 .. logged)
  BY <1>1, <1>6
<1>8. a.last # 0 => \E i \in t : stamp[i] = a.last
  BY <1>3 DEF Full
<1>9. Cardinality(Seconds(t)) <= a.total
  <2>1. \A i \in Taken(m) : stamp[i] \in Seconds(s)
    BY <1>5, <1>6, OldIsKnown
  <2>2. Seconds(t) = Seconds(s)
    BY <2>1 DEF Seconds
  <2>3. Cardinality(Seconds(s)) <= m.total
    BY DEF Full
  <2>4. Cardinality(Seconds(s)) \in Nat
    BY <1>1, CardinalityOfSeconds, FS_CardinalityType
  <2> QED
    BY <1>1, <1>2, <1>3, <2>2, <2>3, <2>4
<1>10. ASSUME cut = 0
       PROVE  /\ Cardinality(Before(a, t)) + Known(a) <= a.total
              /\ Cardinality(During(a, t)) <= Known(a)
  <2>1. /\ Cardinality(Before(m, s)) + Known(m) <= m.total
        /\ Cardinality(During(m, s)) <= Known(m)
    BY <1>10 DEF Full
  <2>2. Before(a, t) = Before(m, s)
    BY <1>3, OldIsKnown DEF Before
  <2>3. During(a, t) = During(m, s) \cup E
    BY <1>2, <1>3 DEF During, Taken
  <2>4. During(m, s) \subseteq E \/ E \subseteq During(m, s)
    <3>1. s \subseteq Due \/ Due \subseteq s
      BY <1>1, <1>10, WindowOfTaken, WindowsComparable
    <3> QED
      BY <3>1 DEF During
  <2>5. During(a, t) = During(m, s) \/ During(a, t) = E
    BY <2>3, <2>4
  <2>6. Before(m, s) \in SUBSET (1 .. logged)
        /\ During(m, s) \in SUBSET (1 .. logged)
    BY DEF Before, During
  <2>7. Cardinality(Before(m, s)) \in Nat /\ Cardinality(During(m, s)) \in Nat
    BY <1>1, <2>6, CardinalityOfEvents
  <2>8. Cardinality(E) = At(m.last)
    BY DEF At
  <2> HIDE DEF a, t, E
  <2> QED
    BY <1>1, <1>2, <1>3, <1>4, <2>1, <2>2, <2>5, <2>7, <2>8
<1> HIDE DEF a, t
<1>11. Full(a, t)
  BY <1>8, <1>9, <1>10 DEF Full
<1> QED
  BY <1>11 DEF a, t

\* A tick with newer events completes the old last second and counts each newer
\* one.
LEMMA FullWithNewer ==
    ASSUME TypeOK, events # {}, NEW m \in Record,
           NEW s \in SUBSET (1 .. logged), Sound(m, s),
           Ordered, Window(events), Window(s), Full(m, s),
           {i \in Due : stamp[i] > m.last} # {}
    PROVE  Full(Advanced(m), s \cup Taken(m))
<1> DEFINE a == Advanced(m)
           t == s \cup Taken(m)
           newer == {i \in Due : stamp[i] > m.last}
           last == Max({m.last} \cup {stamp[i] : i \in newer})
           W == {i \in Due : stamp[i] = last}
           X == {i \in Due : stamp[i] > m.last /\ stamp[i] < last}
           E == {i \in Due : stamp[i] = m.last}
           B == Before(m, s)
<1>1. /\ logged \in Nat /\ Due \subseteq 1 .. logged
      /\ Known(m) \in Nat /\ Extra(m) \in Nat /\ At(m.last) \in Nat
      /\ Known(m) + Extra(m) >= At(m.last)
  <2>1. At(m.last) \in 0 .. logged
    BY HelperTypes
  <2> QED
    BY <2>1, HelperTypes DEF KeptMark
<1>2. m.last \in Int /\ m.mark \in Nat /\ m.total \in Nat /\ m.last >= 0
  BY BoundTypes DEF Record, Stamp
<1>3. \A i \in Due : stamp[i] \in Nat /\ stamp[i] >= 1
  BY <1>1, StampTypes
<1>4. /\ \A i \in Due : stamp[i] <= last
      /\ \E i \in newer : last = stamp[i]
  BY AdvancedLast
<1>5. last \in Int /\ last > m.last
  BY <1>2, <1>3, <1>4
<1>6. Taken(m) \subseteq Due /\ newer \subseteq Taken(m)
  BY <1>2, <1>3 DEF Taken
<1> HIDE DEF last
<1>7. /\ W \in SUBSET (1 .. logged)
      /\ X \in SUBSET (1 .. logged)
      /\ E \in SUBSET (1 .. logged)
      /\ B \in SUBSET (1 .. logged)
      /\ newer \in SUBSET (1 .. logged)
      /\ t \in SUBSET (1 .. logged)
  BY <1>1, <1>6 DEF Before
<1>8. W # {} /\ \A S \in {W, X, E, B, newer} : Cardinality(S) \in Nat
  <2>1. W # {}
    BY <1>4
  <2>2. \A S \in SUBSET (1 .. logged) : Cardinality(S) \in Nat
    BY <1>1, CardinalityOfEvents
  <2> HIDE DEF W, X, E, B, newer
  <2> QED
    BY <1>7, <2>1, <2>2
<1>9. Cardinality(W) >= 1
  BY <1>1, <1>7, <1>8, CardinalityOfEvents
<1>10. newer = W \cup X /\ W \cap X = {}
  <2>1. \A i \in Due : stamp[i] \in Int /\ stamp[i] <= last
    BY <1>3, <1>4
  <2> QED
    BY <2>1, <1>2, <1>5
<1>11. Cardinality(newer) = Cardinality(W) + Cardinality(X)
  <2> HIDE DEF W, X, newer
  <2> QED
    BY <1>1, <1>7, <1>10, CardinalityOfDisjoint
<1>12. /\ a.last = last
       /\ a.mark = Cardinality(W)
       /\ a.total = m.total + Cardinality(newer) + Extra(m)
  BY DEF Advanced, At, last
<1>13. Known(a) = Cardinality(W)
  BY <1>8, <1>9, <1>12 DEF Known
<1>14. a.last # 0 => \E i \in t : stamp[i] = a.last
  BY <1>4, <1>6, <1>12
<1>15. Cardinality(Seconds(t)) <= a.total
  <2>1. ASSUME NEW i \in t PROVE stamp[i] \in Seconds(s) \/ i \in newer
    <3>1. CASE i \in s
      BY <3>1 DEF Seconds
    <3>2. CASE i \in Taken(m)
      <4>1. stamp[i] <= m.last => stamp[i] \in Seconds(s)
        BY <3>2, OldIsKnown
      <4> QED
        BY <1>2, <1>3, <1>6, <3>2, <4>1
    <3> QED
      BY <3>1, <3>2
  <2>2. \A i \in t : stamp[i] \in Seconds(s) \cup Seconds(newer)
    BY <2>1 DEF Seconds
  <2>3. Seconds(t) \subseteq Seconds(s) \cup Seconds(newer)
    BY <2>2 DEF Seconds
  <2> HIDE DEF newer, t
  <2>4. /\ IsFiniteSet(Seconds(s)) /\ IsFiniteSet(Seconds(newer))
        /\ Cardinality(Seconds(newer)) <= Cardinality(newer)
    BY <1>1, <1>7, CardinalityOfSeconds
  <2>5. /\ Cardinality(Seconds(s)) \in Nat /\ Cardinality(Seconds(newer)) \in Nat
        /\ Cardinality(Seconds(s) \cap Seconds(newer)) \in Nat
    BY <2>4, FS_CardinalityType, FS_Intersection
  <2>6. /\ IsFiniteSet(Seconds(s) \cup Seconds(newer))
        /\ Cardinality(Seconds(s) \cup Seconds(newer))
             = Cardinality(Seconds(s)) + Cardinality(Seconds(newer))
                 - Cardinality(Seconds(s) \cap Seconds(newer))
    BY <2>4, FS_Union
  <2>7. /\ Cardinality(Seconds(t))
             <= Cardinality(Seconds(s) \cup Seconds(newer))
        /\ Cardinality(Seconds(t)) \in Nat
    BY <2>3, <2>6, FS_Subset, FS_CardinalityType
  <2>8. Cardinality(Seconds(s)) <= m.total
    BY DEF Full
  <2>9. Cardinality(newer) \in Nat
    BY <1>8
  <2> HIDE DEF a
  <2> QED
    BY <1>1, <1>2, <1>12, <2>4, <2>5, <2>6, <2>7, <2>8, <2>9
<1>16. ASSUME cut = 0
       PROVE  /\ Cardinality(Before(a, t)) + Known(a) <= a.total
              /\ Cardinality(During(a, t)) <= Known(a)
  <2>1. Cardinality(B) + Known(m) <= m.total
    BY <1>16 DEF Full
  <2>2. t = Due
    <3>1. s \subseteq Due \/ Due \subseteq s
      BY <1>1, <1>16, WindowOfTaken, WindowsComparable
    <3>2. PICK i \in newer : TRUE
      BY <1>4
    <3>3. i \notin s
      <4>1. stamp[i] \in Nat /\ stamp[i] > m.last
        BY <1>3, <3>2
      <4>2. i \in s => stamp[i] <= m.last
        BY DEF Sound
      <4> QED
        BY <1>2, <4>1, <4>2
    <3>4. s \subseteq Due
      BY <3>1, <3>2, <3>3
    <3>5. Due \subseteq Taken(m)
      BY <1>1, <1>16 DEF Taken
    <3> QED
      BY <1>6, <3>4, <3>5
  <2>3. During(a, t) = W
    BY <1>12, <2>2 DEF During
  <2>4. Before(a, t) = (B \cup E) \cup X
    <3>1. \A i \in Due : i \in Taken(m) /\ i \in t
      BY <1>1, <1>16, <2>2 DEF Taken
    <3>2. \A i \in Due : stamp[i] < m.last => i \in s
      BY <3>1, OldIsKnown
    <3>3. s \subseteq Due
      BY <2>2
    <3>4. Before(a, t) = {i \in Due : stamp[i] < last}
      BY <1>12, <2>2 DEF Before
    <3>5. B = {i \in Due : stamp[i] < m.last}
      BY <3>2, <3>3 DEF Before
    <3>6. \A i \in Due : stamp[i] < last <=>
            \/ stamp[i] < m.last
            \/ stamp[i] = m.last
            \/ stamp[i] > m.last /\ stamp[i] < last
      BY <1>2, <1>3, <1>5
    <3> HIDE DEF a, t, B
    <3> QED
      BY <3>4, <3>5, <3>6
  <2>5. B \cap E = {} /\ (B \cup E) \cap X = {}
    <3>1. \A i \in B \cup E : stamp[i] <= m.last
      BY <1>2, <1>7, StampTypes DEF Before
    <3> QED
      BY <1>2, <1>3, <3>1 DEF Before
  <2> HIDE DEF a, t, B, E, X, W, newer
  <2>6. /\ Cardinality(B \cup E) = Cardinality(B) + Cardinality(E)
        /\ Cardinality((B \cup E) \cup X)
             = Cardinality(B \cup E) + Cardinality(X)
    BY <1>1, <1>7, <2>5, CardinalityOfDisjoint
  <2>7. Cardinality(E) = At(m.last)
    BY DEF At, E
  <2>8. Cardinality(Before(a, t))
            = Cardinality(B) + Cardinality(E) + Cardinality(X)
    BY <2>4, <2>6
  <2>9. /\ Cardinality(B) \in Nat /\ Cardinality(E) \in Nat
        /\ Cardinality(X) \in Nat /\ Cardinality(W) \in Nat
    BY <1>8
  <2> QED
    BY <1>1, <1>2, <1>11, <1>12, <1>13, <2>1, <2>3, <2>7, <2>8, <2>9
<1> HIDE DEF a, t
<1>17. Full(a, t)
  BY <1>14, <1>15, <1>16 DEF Full
<1> QED
  BY <1>17 DEF a, t


LEMMA FullAdvanced ==
    ASSUME TypeOK, events # {}, NEW m \in Record,
           NEW s \in SUBSET (1 .. logged), Sound(m, s),
           Ordered, Window(events), Window(s), Full(m, s)
    PROVE  /\ Window(s \cup Taken(Rewound(m)))
           /\ Full(Advanced(Rewound(m)), s \cup Taken(Rewound(m)))
<1>1. m.last \in Int /\ now \in Int /\ m.last <= now
  BY BoundTypes DEF Sound, TypeOK, Record, Stamp
<1>2. Rewound(m) = m
  BY <1>1 DEF Rewound
<1> QED
  BY <1>2, WindowOfTaken, FullWithoutNewer, FullWithNewer

LEMMA CountFull ==
    ASSUME MissInv, folds = 0, NEW ok \in BOOLEAN, NEW saves \in BOOLEAN,
           Count(ok, saves)
    PROVE  \E n, r, d, e :
             /\ mem' = n /\ seen' = r /\ Window(r) /\ Full(n, r)
             /\ disk' = d /\ stored' = e /\ Window(e) /\ Full(d, e)
<1>1. /\ TypeOK
      /\ mem \in Record /\ disk \in Record /\ loaded \in BOOLEAN
      /\ seen \subseteq 1 .. logged /\ stored \subseteq 1 .. logged
      /\ Sound(mem, seen) /\ Sound(disk, stored)
  BY DEF MissInv, CountInv, TypeInv, TypeOK, SoundInv
<1>2. /\ Ordered /\ Window(events)
      /\ Window(seen) /\ Full(mem, seen)
      /\ Window(stored) /\ Full(disk, stored)
  BY DEF MissInv, FullInv, Windows
<1>3. PICK m \in {mem, disk}, s \in {seen, stored} :
             /\ \/ m = mem /\ s = seen /\ loaded' = loaded
                \/ m = disk /\ s = stored /\ loaded' = TRUE
             /\ \/ mem' = m /\ seen' = s
                \/ /\ events # {}
                   /\ loaded' = TRUE
                   /\ mem' = Advanced(Rewound(m))
                   /\ seen' = s \cup Taken(Rewound(m))
             /\ \/ disk' = mem' /\ stored' = seen' /\ loaded' = TRUE
                \/ disk' = disk /\ stored' = stored
  BY <1>1, CountCases
<1>4. /\ m \in Record /\ s \in SUBSET (1 .. logged) /\ Sound(m, s)
      /\ Window(s) /\ Full(m, s)
  BY <1>1, <1>2, <1>3
<1>5. \E n, r : mem' = n /\ seen' = r /\ Window(r) /\ Full(n, r)
  BY <1>1, <1>2, <1>3, <1>4, FullAdvanced
<1>6. PICK n, r : mem' = n /\ seen' = r /\ Window(r) /\ Full(n, r)
  BY <1>5
<1>7. \E d, e : disk' = d /\ stored' = e /\ Window(e) /\ Full(d, e)
  BY <1>2, <1>3, <1>6
<1> QED
  BY <1>6, <1>7

LEMMA NothingFull == Full(Zero, {}) /\ Window({})
<1>1. Seconds({}) = {} /\ Before(Zero, {}) = {} /\ During(Zero, {}) = {}
  BY DEF Seconds, Before, During
<1>2. Cardinality({}) = 0
  BY FS_EmptySet
<1>3. Zero.last = 0 /\ Zero.total = 0 /\ Known(Zero) = 0
  BY DEF Zero, Known
<1> QED
  BY <1>1, <1>2, <1>3 DEF Full, Window

LEMMA InitFull == Init => FullInv
<1> SUFFICES ASSUME Init PROVE FullInv
  OBVIOUS
<1>1. Full(Zero, {}) /\ Window({})
  BY NothingFull
<1>2. /\ mem = Zero /\ seen = {} /\ events = {} /\ kept = {}
      /\ now = 1 /\ skew \in Nat
      /\ \A i \in 1 .. logged : stamp[i] = 1
  BY BoundTypes DEF Init
<1>3. Ordered /\ Ahead
  BY <1>2 DEF Ordered, Ahead
<1>4. CASE stored = {} /\ disk = Zero
  BY <1>1, <1>2, <1>3, <1>4 DEF FullInv, Windows
<1>5. CASE /\ logged = 1
           /\ disk = [last |-> 1, mark |-> 0, total |-> 1]
           /\ stored = {1}
  <2>1. stamp[1] = 1
    BY <1>5, <1>2
  <2>2. disk.last = 1 /\ disk.total = 1 /\ Known(disk) = 1
    BY <1>5 DEF Known
  <2>3. /\ Before(disk, stored) = {} /\ During(disk, stored) = {1}
        /\ Seconds(stored) = {1}
    BY <1>5, <2>1, <2>2 DEF Before, During, Seconds
  <2>4. Cardinality({}) = 0 /\ Cardinality({1}) = 1
    BY FS_EmptySet, FS_Singleton
  <2>5. Full(disk, stored)
    BY <1>5, <2>1, <2>2, <2>3, <2>4 DEF Full
  <2>6. Window(stored)
    BY <1>5 DEF Window
  <2> QED
    BY <1>1, <1>2, <1>3, <2>5, <2>6 DEF FullInv, Windows
<1> QED
  BY <1>4, <1>5 DEF Init

\* What is known stays complete when an event is logged or leaves the window,
\* and when the clock advances.
LEMMA FullKept ==
    ASSUME NEW m \in Record, NEW s \in SUBSET (1 .. logged), Full(m, s),
           cut \in Nat, cut' \in Nat, cut' >= cut,
           \A i \in 1 .. logged : stamp'[i] = stamp[i]
    PROVE  /\ m.last # 0 => \E i \in s : stamp'[i] = m.last
           /\ Cardinality({stamp'[i] : i \in s}) <= m.total
           /\ cut' = 0 =>
                /\ Cardinality({i \in s : stamp'[i] < m.last}) + Known(m)
                     <= m.total
                /\ Cardinality({i \in s : stamp'[i] = m.last}) <= Known(m)
<1>1. \A i \in s : stamp'[i] = stamp[i]
  OBVIOUS
<1>2. {stamp'[i] : i \in s} = Seconds(s)
  BY <1>1 DEF Seconds
<1>3. {i \in s : stamp'[i] = m.last} = During(m, s)
  BY <1>1 DEF During
<1>4. {i \in s : stamp'[i] < m.last} = Before(m, s)
  BY <1>1 DEF Before
<1>5. cut' = 0 => cut = 0
  OBVIOUS
<1> QED
  BY <1>1, <1>2, <1>3, <1>4, <1>5 DEF Full

LEMMA WindowKept ==
    ASSUME NEW S \in SUBSET (1 .. logged), Window(S), logged \in Nat,
           cut \in Nat, cut' \in Nat, cut' >= cut
    PROVE  \A i \in S, j \in 1 .. logged' : cut' < j /\ j <= i => j \in S
<1> SUFFICES ASSUME NEW i \in S, NEW j \in 1 .. logged', cut' < j, j <= i
             PROVE  j \in S
  OBVIOUS
<1>1. i \in 1 .. logged /\ j \in Int /\ j >= 1
  OBVIOUS
<1>2. j \in 1 .. logged /\ cut < j
  BY <1>1
<1> QED
  BY <1>2 DEF Window

LEMMA NextFull == MissInv /\ CountInv' /\ [Next]_vars => FullInv'
<1> SUFFICES ASSUME MissInv, CountInv', [Next]_vars, folds' = 0
             PROVE  /\ Ordered' /\ Ahead' /\ Windows'
                    /\ Full(mem, seen)' /\ Full(disk, stored)'
  BY DEF FullInv
<1>1. /\ now \in Nat /\ skew \in Nat /\ folds \in Nat
      /\ logged \in Nat /\ cut \in Nat
      /\ mem \in Record /\ disk \in Record
      /\ seen \in SUBSET (1 .. logged) /\ stored \in SUBSET (1 .. logged)
      /\ events \in SUBSET (1 .. logged) /\ kept \in SUBSET (1 .. logged)
      /\ \A i \in 1 .. logged : stamp[i] \in Nat
  BY BoundTypes, StampTypes DEF MissInv, CountInv, TypeInv, TypeOK
<1>2. CASE Fold
  BY <1>1, <1>2 DEF Fold
<1>3. ASSUME ~Fold PROVE folds = 0
  BY <1>1, <1>3 DEF Next, vars, Log, Rotate, Pass, ReadLog, EndTick, Restart,
     clocks
<1>4. ASSUME folds = 0
      PROVE  Ordered /\ Ahead /\ Windows /\ Full(mem, seen) /\ Full(disk, stored)
  BY <1>4 DEF MissInv, FullInv
\* The records and the windows that a step leaves alone.
<1>5. ASSUME folds = 0, cut' \in Nat, cut' >= cut,
             \A i \in 1 .. logged : stamp'[i] = stamp[i]
      PROVE  /\ mem' = mem /\ seen' = seen => Full(mem, seen)'
             /\ disk' = disk /\ stored' = stored => Full(disk, stored)'
             /\ \A S \in {seen, stored, events, kept} :
                  \A i \in S, j \in 1 .. logged' : cut' < j /\ j <= i => j \in S
  <2>1. mem' = mem /\ seen' = seen => Full(mem, seen)'
    BY <1>1, <1>4, <1>5, FullKept DEF Full, Before, During, Known, Seconds
  <2>2. disk' = disk /\ stored' = stored => Full(disk, stored)'
    BY <1>1, <1>4, <1>5, FullKept DEF Full, Before, During, Known, Seconds
  <2>3. ASSUME NEW S \in {seen, stored, events, kept}
        PROVE  \A i \in S, j \in 1 .. logged' : cut' < j /\ j <= i => j \in S
    <3>1. S \in SUBSET (1 .. logged)
      BY <1>1
    <3>2. Window(S)
      BY <1>4, <1>5 DEF Windows
    <3> QED
      BY <1>1, <1>5, <3>1, <3>2, WindowKept
  <2> QED
    BY <2>1, <2>2, <2>3
<1>6. CASE Log
  <2>1. /\ folds = 0 /\ logged' = logged + 1 /\ cut' = cut
        /\ now' = now /\ skew' = skew
        /\ UNCHANGED <<mem, disk, seen, stored, events, kept>>
        /\ \A i \in 1 .. logged : stamp'[i] = stamp[i]
        /\ stamp'[logged + 1] = now + skew
    BY <1>1, <1>3, <1>6 DEF Log, Fold, clocks, store, tick
  <2>2. Ordered /\ Ahead
    BY <1>4, <2>1
  <2>3. \A i \in 1 .. logged' : stamp'[i] <= now + skew
    BY <1>1, <2>1, <2>2 DEF Ahead
  <2>4. Ahead'
    BY <2>1, <2>3 DEF Ahead
  <2>5. Ordered'
    <3> SUFFICES ASSUME NEW i \in 1 .. logged', NEW j \in 1 .. logged', i <= j
                 PROVE  stamp'[i] <= stamp'[j]
      BY DEF Ordered
    <3>1. CASE j = logged + 1
      BY <3>1, <2>1, <2>3
    <3>2. CASE j # logged + 1
      <4>1. i \in 1 .. logged /\ j \in 1 .. logged
        BY <1>1, <2>1, <3>2
      <4> QED
        BY <4>1, <2>1, <2>2 DEF Ordered
    <3> QED
      BY <3>1, <3>2
  <2>6. Windows' /\ Full(mem, seen)' /\ Full(disk, stored)'
    BY <1>1, <1>5, <2>1 DEF Windows, Window
  <2> QED
    BY <2>4, <2>5, <2>6
<1>7. CASE Rotate \/ Pass \/ ReadLog \/ UNCHANGED vars
  <2>1. /\ folds = 0 /\ logged' = logged /\ stamp' = stamp /\ skew' = skew
        /\ UNCHANGED <<mem, disk, seen, stored, kept>>
        /\ cut' \in Nat /\ cut' >= cut
        /\ now' \in Nat /\ now' >= now
        /\ events' \in {events, kept, {}, cut' + 1 .. logged'}
    BY <1>1, <1>3, <1>7 DEF Rotate, Pass, ReadLog, Fold, Visible, vars, clocks,
       router, store, tick
  <2>2. Ordered /\ Ahead
    BY <1>4, <2>1
  <2>3. Ordered'
    BY <2>1, <2>2 DEF Ordered
  <2>4. Ahead'
    BY <1>1, <2>1, <2>2 DEF Ahead
  <2>5. Full(mem, seen)' /\ Full(disk, stored)'
    BY <1>5, <2>1
  <2>6. Window(kept)' /\ Window(seen)' /\ Window(stored)'
    BY <1>5, <2>1 DEF Window
  <2>7. Window(events)'
    <3>1. CASE events' \in {events, kept}
      BY <3>1, <1>5, <2>1 DEF Window
    <3>2. CASE events' \in {{}, cut' + 1 .. logged'}
      BY <3>2, <1>1, <2>1 DEF Window
    <3> QED
      BY <2>1, <3>1, <3>2
  <2> QED
    BY <2>3, <2>4, <2>5, <2>6, <2>7 DEF Windows
<1>8. CASE EndTick
  <2>1. PICK ok \in BOOLEAN, saves \in BOOLEAN : Count(ok, saves)
    BY <1>8 DEF EndTick
  <2>2. /\ folds = 0 /\ UNCHANGED <<now, skew, logged, stamp, cut>>
        /\ kept' \in {events, kept} /\ events' = {}
    BY <1>8 DEF EndTick, clocks, router
  <2>3. PICK n, r, d, e :
             /\ mem' = n /\ seen' = r /\ Window(r) /\ Full(n, r)
             /\ disk' = d /\ stored' = e /\ Window(e) /\ Full(d, e)
    BY <2>1, <2>2, CountFull
  <2>4. /\ Ordered /\ Ahead /\ Window(events) /\ Window(kept)
    BY <1>4, <2>2 DEF Windows
  <2>5. Ordered' /\ Ahead'
    BY <2>2, <2>4 DEF Ordered, Ahead
  <2>6. Full(mem, seen)' /\ Full(disk, stored)'
    BY <2>2, <2>3 DEF Full, Before, During, Known, Seconds
  <2>7. Windows'
    BY <2>2, <2>3, <2>4 DEF Windows, Window
  <2> QED
    BY <2>5, <2>6, <2>7
<1>9. CASE Restart
  <2>1. /\ folds = 0
        /\ UNCHANGED <<now, skew, logged, stamp, cut, disk, stored>>
        /\ mem' = Zero /\ seen' = {} /\ events' = {} /\ kept' = {}
    BY <1>9 DEF Restart, Fresh, clocks, router
  <2>2. /\ Ordered /\ Ahead /\ Window(stored) /\ Full(disk, stored)
        /\ Window({}) /\ Full(Zero, {})
    BY <1>4, <2>1, NothingFull DEF Windows
  <2>3. Ordered' /\ Ahead' /\ Windows'
    BY <2>1, <2>2 DEF Ordered, Ahead, Windows, Window
  <2>4. Full(mem, seen)' /\ Full(disk, stored)'
    BY <2>1, <2>2 DEF Full, Before, During, Known, Seconds
  <2> QED
    BY <2>3, <2>4
<1> QED
  BY <1>2, <1>6, <1>7, <1>8, <1>9 DEF Next

\* As long as the clock is not set back, nothing is missed either: every second
\* with an event that was read is in the total, and as long as the log's window
\* has not slid the total is exactly the number of events - also for events that
\* reach the log late within a second, ticks whose read failed, and restarts.
THEOREM NothingIsMissed == Spec => []NothingMissed
<1>1. Init => MissInv
  BY InitType, InitSound, InitFull DEF MissInv, CountInv
<1>2. MissInv /\ [Next]_vars => MissInv'
  <2>1. MissInv /\ [Next]_vars => CountInv'
    BY NextType, NextSound DEF MissInv, CountInv
  <2> QED
    BY <2>1, NextFull DEF MissInv
<1>3. MissInv => NothingMissed
  <2> SUFFICES ASSUME MissInv, folds = 0
               PROVE  /\ mem.total >= Cardinality({stamp[i] : i \in seen})
                      /\ cut = 0 => mem.total = Cardinality(seen)
    BY DEF NothingMissed
  <2>1. /\ TypeOK /\ mem \in Record /\ seen \in SUBSET (1 .. logged)
        /\ Sound(mem, seen) /\ Full(mem, seen) /\ logged \in Nat
    BY BoundTypes DEF MissInv, CountInv, TypeInv, TypeOK, SoundInv, FullInv
  <2>2. mem.total \in Int /\ mem.last \in Int
    BY <2>1, BoundTypes DEF Record, Stamp
  <2>3. Cardinality(Seconds(seen)) \in Int
    BY <2>1, CardinalityOfSeconds, FS_CardinalityType
  <2>4. mem.total >= Cardinality({stamp[i] : i \in seen})
    BY <2>1, <2>2, <2>3 DEF Full, Seconds
  <2>5. mem.total <= Cardinality(seen)
    BY <2>1, SoundBound
  <2>6. seen = Before(mem, seen) \cup During(mem, seen)
    <3>1. \A i \in seen : stamp[i] \in Int /\ stamp[i] <= mem.last
      BY <2>1, StampTypes DEF Sound
    <3> QED
      BY <2>2, <3>1 DEF Before, During
  <2>7. Before(mem, seen) \cap During(mem, seen) = {}
    <3>1. \A i \in seen : stamp[i] \in Int
      BY <2>1, StampTypes
    <3> QED
      BY <2>2, <3>1 DEF Before, During
  <2>8. /\ Before(mem, seen) \in SUBSET (1 .. logged)
        /\ During(mem, seen) \in SUBSET (1 .. logged)
    BY <2>1 DEF Before, During
  <2>9. Cardinality(seen)
            = Cardinality(Before(mem, seen)) + Cardinality(During(mem, seen))
    BY <2>1, <2>6, <2>7, <2>8, CardinalityOfDisjoint
  <2>10. /\ Cardinality(Before(mem, seen)) \in Int
         /\ Cardinality(During(mem, seen)) \in Int
         /\ Cardinality(seen) \in Int /\ Known(mem) \in Int
    BY <2>1, <2>8, CardinalityOfEvents, HelperTypes
  <2>11. ASSUME cut = 0 PROVE mem.total >= Cardinality(seen)
    BY <2>1, <2>2, <2>9, <2>10, <2>11 DEF Full
  <2> QED
    BY <2>2, <2>4, <2>5, <2>10, <2>11
<1> QED
  BY <1>1, <1>2, <1>3, PTL DEF Spec
-----------------------------------------------------------------------------
(***************************************************************************)
(* Saving.                                                                 *)
(***************************************************************************)
\* A loaded counter that differs from storage is marked for saving, and only a
\* counter marked for saving makes the next attempt wait.
Pending ==
    /\ loaded => mem = disk \/ dirty
    /\ retry > 0 => loaded /\ dirty

LEMMA CountPending ==
    ASSUME TypeOK, Pending, NEW ok \in BOOLEAN, NEW saves \in BOOLEAN,
           Count(ok, saves)
    PROVE  Pending'
<1> DEFINE have == LoadedBy(ok)
           m    == IF ~loaded /\ ok THEN disk ELSE mem
           run  == have /\ events # {}
           next == IF run THEN Advanced(Rewound(m)) ELSE m
           new  == next # m
           r    == IF new THEN 0 ELSE retry
           try  == have /\ (dirty \/ new) /\ r = 0
<1>1. loaded' = have /\ mem' = next
  BY DEF Count
<1>2. CASE try /\ saves
  <2>1. disk' = mem' /\ retry' = 0
    BY <1>2 DEF Count
  <2> QED
    BY <2>1 DEF Pending
<1>3. CASE ~(try /\ saves)
  <2>1. /\ dirty' = (dirty \/ new) /\ disk' = disk
        /\ retry' = IF try THEN NextDelay - 1
                    ELSE IF have /\ dirty' THEN Wait ELSE r
    BY <1>3 DEF Count
  <2>2. loaded' => mem' = disk' \/ dirty'
    <3> SUFFICES ASSUME have, ~dirty, ~new PROVE mem' = disk
      BY <1>1, <2>1
    <3>1. m = disk
      BY DEF Pending, LoadedBy
    <3> QED
      BY <1>1, <3>1
  <2>3. retry' > 0 => loaded' /\ dirty'
    <3> HIDE DEF new, next, m, run
    <3>1. CASE try
      BY <1>1, <2>1, <3>1
    <3>2. CASE ~try /\ have /\ dirty'
      BY <1>1, <3>2
    <3>3. CASE ~try /\ ~(have /\ dirty')
      <4>1. retry' = r /\ (r = 0 \/ r = retry)
        BY <2>1, <3>3
      <4>2. retry > 0 => have /\ dirty'
        BY <2>1 DEF Pending, LoadedBy
      <4> QED
        BY <3>3, <4>1, <4>2
    <3> QED
      BY <3>1, <3>2, <3>3
  <2> QED
    BY <2>2, <2>3 DEF Pending
<1> QED
  BY <1>2, <1>3

LEMMA NextPending == TypeOK /\ Pending /\ [Next]_vars => Pending'
<1> SUFFICES ASSUME TypeOK, Pending, [Next]_vars PROVE Pending'
  OBVIOUS
<1>1. CASE Log \/ Rotate \/ Pass \/ Fold \/ ReadLog \/ UNCHANGED vars
  <2>1. UNCHANGED <<mem, loaded, dirty, retry, disk>>
    BY <1>1 DEF Log, Rotate, Pass, Fold, ReadLog, vars, store
  <2> QED
    BY <2>1 DEF Pending
<1>2. CASE EndTick
  BY <1>2, CountPending DEF EndTick
<1>3. CASE Restart
  BY <1>3 DEF Restart, Fresh, Pending
<1> QED
  BY <1>1, <1>2, <1>3 DEF Next

\* The safety half of EventuallyStored: whatever loads and saves fail, a loaded
\* counter that differs from storage is never forgotten - it is marked for saving
\* until a save succeeds or a restart drops it - and the backoff only ever delays
\* a save that is due, by less than its cap.
THEOREM CountedIsPending ==
    Spec => [](/\ loaded => mem = disk \/ dirty
               /\ retry > 0 => loaded /\ dirty /\ retry < MaxDelay)
<1> DEFINE Goal == /\ loaded => mem = disk \/ dirty
                   /\ retry > 0 => loaded /\ dirty /\ retry < MaxDelay
<1>1. Init => Pending
  BY DEF Init, Pending
<1>2. TypeOK /\ Pending => Goal
  BY BoundTypes DEF TypeOK, Pending
<1>3. Spec => []TypeOK
  BY TypeCorrect
<1> HIDE DEF Goal
<1>4. Spec => []Goal
  BY <1>1, <1>2, <1>3, NextPending, PTL DEF Spec
<1> QED
  BY <1>4 DEF Goal
=============================================================================
