--------------------------- MODULE RegistryProofs ---------------------------
(***************************************************************************)
(* Proofs about what the integration leaves in the registries.  The first  *)
(* half is about ConfigFlows and the EntryLifecycle it extends, for any    *)
(* clients, passwords and numbers of saves and restarts: which rows a      *)
(* setup leaves, what survives of the user's decisions, and who may        *)
(* overwrite whose save.  The second half is about MeshNodes.              *)
(***************************************************************************)
EXTENDS ConfigFlows, MeshNodes, TLAPS

-----------------------------------------------------------------------------
\* What one setup creates from what it read of the entry.
Built == ClientEntities(used.built) \union CountEntities(used.needs)
             \union TunnelEntities(used.uplink)

(***************************************************************************)
(* How far the registry agrees with this setup: after the pruning, nothing *)
(* of what it prunes is there; after the platforms, everything they create *)
(* is, and what they did not create is not something pruned either; after  *)
(* the device sweep, every device carries a row.                           *)
(***************************************************************************)
SweptInv ==
    /\ phase = "forwarding" =>
          reg \intersect Pruned(used.pruned, used.uplink) = {}
    /\ phase \in {"added", "loaded"} =>
          /\ Built \subseteq reg
          /\ (reg \ Built) \intersect Pruned(used.pruned, used.uplink) = {}
    /\ phase = "loaded" => dev \subseteq Populated(reg)

\* A login that no options save overtook still holds the tracked clients.
ChoiceInv ==
    /\ ChoiceKept
    /\ login.stage = "checking" /\ ~reverted
          => login.data.choice.tracked = stored.choice.tracked

RunType == [secret : 0..MaxSecret, needs : BOOLEAN, pruned : Choice,
            built : Choice, uplink : BOOLEAN, late : BOOLEAN]

-----------------------------------------------------------------------------
\* What setup creates is made of the rows there are.
LEMMA CreatesRows ==
    ASSUME NEW choice \in Choice, NEW needs \in BOOLEAN, NEW uplink \in BOOLEAN
    PROVE  ClientEntities(choice) \union CountEntities(needs)
               \union TunnelEntities(uplink) \subseteq Rows
<1>1. choice.tracked \subseteq Mac
  BY DEF Choice
<1>2. ASSUME NEW f \in ClientFamily, NEW m \in choice.tracked
      PROVE  Row(f, m) \in Rows
  BY <1>1, <1>2 DEF Rows, ClientRow
<1>3. ClientEntities(choice) \subseteq Rows
  BY <1>2 DEF ClientEntities, ClientFamily
<1>4. CountEntities(needs) \union TunnelEntities(uplink) \subseteq Rows
  BY DEF CountEntities, TunnelEntities, Rows, RouterRow
<1> QED
  BY <1>3, <1>4

(***************************************************************************)
(* Creation and pruning are complements: of all rows there are, the ones a *)
(* setup prunes are exactly the ones it would not create.                  *)
(***************************************************************************)
LEMMA PrunedIsTheRest ==
    ASSUME NEW choice \in Choice, NEW uplink \in BOOLEAN
    PROVE  Rows \ Pruned(choice, uplink)
               = ClientEntities(choice) \union CountEntities(Needs(choice))
                     \union TunnelEntities(uplink)
<1>1. /\ choice.tracked \subseteq Mac
      /\ LevelOf(choice) \in Level
  BY DEF Choice, LevelOf, Level
<1>2. ASSUME NEW f \in ClientFamily, NEW m \in Mac
      PROVE  Row(f, m) \notin ClientRowsPruned(choice)
                 <=> Row(f, m) \in ClientEntities(choice)
  <2>1. Row(f, m) \in ClientRow
    BY DEF ClientRow
  <2>2. Row(f, m).family = f /\ Row(f, m).of = m
    BY DEF Row
  <2>3. Row(f, m) \in ClientRowsPruned(choice)
            <=> m \notin choice.tracked \/ f \in StaleFamilies(choice)
    BY <2>1, <2>2 DEF ClientRowsPruned
  <2>4. ASSUME NEW g, NEW n
        PROVE  Row(f, m) = Row(g, n) <=> f = g /\ m = n
    BY DEF Row
  <2>5. Row(f, m) \in ClientEntities(choice)
            <=> /\ m \in choice.tracked
                /\ \/ f = "presence"
                   \/ f = "basic" /\ LevelOf(choice) # "off"
                   \/ f = "full" /\ LevelOf(choice) = "full"
    BY <2>4 DEF ClientEntities
  <2>6. f \notin StaleFamilies(choice)
            <=> \/ f = "presence"
                \/ f = "basic" /\ LevelOf(choice) # "off"
                \/ f = "full" /\ LevelOf(choice) = "full"
    BY DEF StaleFamilies, ClientFamily
  <2> QED
    BY <2>3, <2>5, <2>6
<1>3. ASSUME NEW f \in {"count", "port", "tunnel"}, NEW g \in ClientFamily,
             NEW m, NEW n
      PROVE  Row(f, m) # Row(g, n)
  BY DEF Row, ClientFamily
<1>4. \A r \in RouterRow : r \notin ClientRow
  BY <1>3 DEF RouterRow, ClientRow
<1>5. ClientRowsPruned(choice) \subseteq ClientRow
  BY DEF ClientRowsPruned
<1>6. ClientEntities(choice) \subseteq ClientRow
  BY <1>1 DEF ClientEntities, ClientRow, ClientFamily
<1>7. /\ Row("count", Router) # Row("port", Router)
      /\ Row("count", Router) # Row("tunnel", Router)
      /\ Row("port", Router) # Row("tunnel", Router)
  BY DEF Row
<1>8. RouterRow = {Row("count", Router), Row("port", Router),
                   Row("tunnel", Router)}
  BY DEF RouterRow
<1>9. RouterRow \ Pruned(choice, uplink)
          = CountEntities(Needs(choice)) \union TunnelEntities(uplink)
  BY <1>4, <1>5, <1>7, <1>8 DEF Pruned, CountEntities, TunnelEntities
<1>10. ClientRow \ Pruned(choice, uplink) = ClientEntities(choice)
  <2>1. ClientRow \ Pruned(choice, uplink) = ClientRow \ ClientRowsPruned(choice)
    BY <1>4, <1>8 DEF Pruned
  <2>2. \A r \in ClientRow : r \notin ClientRowsPruned(choice)
                                 <=> r \in ClientEntities(choice)
    BY <1>2 DEF ClientRow
  <2> QED
    BY <1>6, <2>1, <2>2
<1> QED
  BY <1>9, <1>10 DEF Rows

-----------------------------------------------------------------------------
\* A write of the entry keeps its type, and what runs is only marked.
LEMMA StoreKeeps ==
    ASSUME EntryTypeOK, NEW entry \in Entry, NEW extra \in {0, 1},
           Store(entry, extra)
    PROVE  /\ stored' \in Entry
           /\ reloads' \in Nat
           /\ used' \in RunType
           /\ \A field \in {"secret", "needs", "pruned", "built", "uplink"} :
                 used'[field] = used[field]
<1>1. stored' \in Entry
  BY DEF Store
<1>2. reloads' \in Nat
  BY DEF Store, ListenerReloads, EntryTypeOK
<1>3. /\ used' \in RunType
      /\ used'.secret = used.secret /\ used'.needs = used.needs
      /\ used'.pruned = used.pruned /\ used'.built = used.built
      /\ used'.uplink = used.uplink
  BY DEF Store, EntryTypeOK, RunType, InSetup
<1> QED
  BY <1>1, <1>2, <1>3

LEMMA InitType == Init => TypeOK
<1> SUFFICES ASSUME Init PROVE TypeOK
  OBVIOUS
<1>1. /\ NotRead \in Choice
      /\ 0 \in 0..MaxSecret /\ 1 \in 0..MaxSecret /\ 1 \in 1..MaxSecret
  BY EntryAssumption DEF EntryAssumption, NotRead, Choice
<1>2. stored \in Entry
  BY <1>1 DEF Init, EntryInit, Entry, Choice
<1>3. NotRun \in RunType
  BY <1>1 DEF NotRun, RunType
<1>4. reg \subseteq Rows /\ dev \subseteq Mac \union {Router} /\ off \subseteq reg
  BY DEF Init, EntryInit
<1>5. EntryTypeOK
  BY <1>1, <1>2, <1>3, <1>4
  DEF Init, EntryInit, EntryTypeOK, RunType, Phase, InSetup
<1>6. /\ Closed \in [stage : {"closed", "asking", "form"},
                     before : SUBSET Mac, seen : SUBSET Mac]
      /\ NoLogin \in [stage : {"closed", "form", "checking"}, data : Entry]
  BY <1>1 DEF Closed, NoLogin, Entry
<1>7. stored.choice.tracked \in SUBSET Mac
  BY <1>2 DEF Entry, Choice
<1> QED
  BY <1>5, <1>6, <1>7 DEF Init, TypeOK

LEMMA SetupType ==
    ASSUME EntryTypeOK, SetupStep
    PROVE  EntryTypeOK'
<1>1. /\ stored.choice \in Choice /\ stored.secret \in 0..MaxSecret
      /\ used \in RunType /\ NotRun \in RunType /\ NotRead \in Choice
      /\ Needs(stored.choice) \in BOOLEAN
  <2>1. NotRead \in Choice /\ 0 \in 0..MaxSecret
    BY EntryAssumption DEF EntryAssumption, NotRead, Choice
  <2>2. NotRun \in RunType
    BY <2>1 DEF NotRun, RunType
  <2> QED
    BY <2>1, <2>2 DEF EntryTypeOK, Entry, RunType, Needs
<1>2. CASE Start
  <2>1. used' \in RunType /\ used'.secret = stored.secret
    BY <1>1, <1>2 DEF Start, RunType, NotRun
  <2>2. phase' \in Phase /\ (phase' = "connecting" => stored.secret # 0)
        /\ phase' \in {"connecting", "retry"}
    BY <1>2 DEF Start, Phase, Complete
  <2> QED
    BY <1>2, <2>1, <2>2 DEF Start, EntryTypeOK, InSetup, RunType
<1>3. CASE Connect
  <2>1. used' \in RunType /\ used'.secret = used.secret
    BY <1>1, <1>3 DEF Connect, RunType
  <2>2. phase' \in Phase
    BY <1>3 DEF Connect, Phase
  <2> QED
    BY <1>3, <2>1, <2>2 DEF Connect, EntryTypeOK, InSetup, RunType
<1>4. CASE RefreshFailed
  BY <1>4 DEF RefreshFailed, EntryTypeOK, InSetup, Phase
<1>5. CASE Refreshed
  <2>1. used' \in RunType /\ used'.secret = used.secret
    BY <1>1, <1>5 DEF Refreshed, RunType
  <2>2. reg' \subseteq Rows /\ off' \subseteq reg'
    BY <1>5 DEF Refreshed, EntryTypeOK
  <2> QED
    BY <1>5, <2>1, <2>2 DEF Refreshed, EntryTypeOK, InSetup, RunType, Phase
<1>6. CASE Forward
  <2>1. used' \in RunType /\ used'.secret = used.secret
    BY <1>1, <1>6 DEF Forward, RunType
  <2> DEFINE new == ClientEntities(stored.choice)
                        \union CountEntities(used.needs)
                        \union TunnelEntities(used.uplink)
  <2>2. new \subseteq Rows
    BY <1>1, CreatesRows DEF RunType
  <2>3. reg' \subseteq Rows /\ off' \subseteq reg'
    BY <1>6, <2>2 DEF Forward, EntryTypeOK
  <2>4. \A r \in Rows : DeviceOf(r) \in Mac \union {Router}
    BY DEF Rows, ClientRow, RouterRow, Row, DeviceOf
  <2>5. dev' \subseteq Mac \union {Router}
    BY <1>6, <2>2, <2>4 DEF Forward, EntryTypeOK, Populated
  <2> QED
    BY <1>6, <2>1, <2>3, <2>5 DEF Forward, EntryTypeOK, InSetup, RunType, Phase
<1>7. CASE Finish
  BY <1>7 DEF Finish, EntryTypeOK, InSetup, Phase
<1> QED
  BY <1>2, <1>3, <1>4, <1>5, <1>6, <1>7 DEF SetupStep

LEMMA LifeType ==
    ASSUME EntryTypeOK, LifeStep \/ Disable \/ DeleteDevice \/ SecretChanged
    PROVE  EntryTypeOK'
<1>1. CASE SetupStep
  BY <1>1, SetupType
<1>2. CASE Retry
  BY <1>2 DEF Retry, EntryTypeOK, InSetup, Phase
<1>3. CASE Reload
  <2>1. phase' \in {"unloading", "stuck", "starting"}
    BY <1>3 DEF Reload
  <2>2. reloads' \in Nat
    BY <1>3 DEF Reload, EntryTypeOK
  <2> QED
    BY <1>3, <2>1, <2>2 DEF Reload, EntryTypeOK, InSetup, Phase
<1>4. CASE Unload
  BY <1>4 DEF Unload, EntryTypeOK, InSetup, Phase
<1>5. CASE Disable
  BY <1>5 DEF Disable, EntryTypeOK, InSetup
<1>6. CASE DeleteDevice
  BY <1>6 DEF DeleteDevice, EntryTypeOK, InSetup
<1>7. CASE SecretChanged
  <2>1. secret' \in 1..MaxSecret
    BY <1>7, EntryAssumption DEF SecretChanged, EntryTypeOK, EntryAssumption
  <2> QED
    BY <1>7, <2>1 DEF SecretChanged, EntryTypeOK, InSetup
<1> QED
  BY <1>1, <1>2, <1>3, <1>4, <1>5, <1>6, <1>7 DEF LifeStep

LEMMA DialogType ==
    ASSUME TypeOK,
           \/ OpenOptions \/ ShowOptions \/ SubmitOptions \/ Dismiss
           \/ \E kind \in {"reauth", "reconfigure"} : OpenLogin(kind)
           \/ SubmitLogin \/ LoginRefused \/ LoginAccepted
    PROVE  TypeOK'
<1> DEFINE OptionsType == [stage : {"closed", "asking", "form"},
                           before : SUBSET Mac, seen : SUBSET Mac]
           LoginType == [stage : {"closed", "form", "checking"}, data : Entry]
<1>1. /\ options \in OptionsType /\ Closed \in OptionsType
      /\ login \in LoginType /\ NoLogin \in LoginType
      /\ stored \in Entry /\ stored.choice.tracked \in SUBSET Mac
      /\ saves \in Nat /\ saves + 1 \in Nat
  <2>1. NotRead \in Choice /\ 0 \in 0..MaxSecret
    BY EntryAssumption DEF EntryAssumption, NotRead, Choice
  <2> QED
    BY <2>1 DEF TypeOK, EntryTypeOK, Closed, NoLogin, Entry, Choice
<1>2. CASE UNCHANGED entryVars /\ options' \in OptionsType /\ login' \in LoginType
           /\ UNCHANGED <<chosen, reverted, saves, restarts>>
  BY <1>2 DEF TypeOK, EntryTypeOK, entryVars, InSetup
<1>3. CASE OpenOptions \/ ShowOptions \/ Dismiss
  <2>1. options' \in OptionsType /\ login' \in LoginType
    BY <1>1, <1>3 DEF OpenOptions, ShowOptions, Dismiss, Closed
  <2> QED
    BY <1>2, <1>3, <2>1 DEF OpenOptions, ShowOptions, Dismiss
<1>4. CASE (\E kind \in {"reauth", "reconfigure"} : OpenLogin(kind))
           \/ SubmitLogin \/ LoginRefused
  <2>1. ASSUME NEW typed \in 1..MaxSecret
        PROVE  Merged(typed) \in Entry
    BY <1>1, EntryAssumption DEF Merged, Entry, EntryAssumption
  <2>2. login' \in LoginType
    BY <1>1, <1>4, <2>1 DEF OpenLogin, SubmitLogin, LoginRefused
  <2> QED
    BY <1>1, <1>2, <1>4, <2>2 DEF OpenLogin, SubmitLogin, LoginRefused
<1>5. CASE SubmitOptions
  <2>1. PICK picked \in SUBSET Offered, level \in Level :
          /\ Store([stored EXCEPT !.choice = [tracked |-> picked,
                                              sensors |-> level]], 0)
          /\ chosen' = picked
    BY <1>5 DEF SubmitOptions
  <2>2. Offered \subseteq Mac
    BY <1>1 DEF Offered
  <2>3. [stored EXCEPT !.choice = [tracked |-> picked, sensors |-> level]]
          \in Entry
    BY <1>1, <2>2 DEF Entry, Choice
  <2>4. EntryTypeOK
    BY DEF TypeOK
  <2>5. /\ stored' \in Entry /\ reloads' \in Nat /\ used' \in RunType
        /\ used'.secret = used.secret
    BY <2>1, <2>3, <2>4, StoreKeeps
  <2>6. EntryTypeOK'
    BY <1>5, <2>4, <2>5 DEF SubmitOptions, EntryTypeOK, InSetup, RunType
  <2> QED
    BY <1>1, <1>5, <2>1, <2>2, <2>6 DEF SubmitOptions, TypeOK
<1>6. CASE LoginAccepted
  <2>1. [login.data EXCEPT !.choice.sensors = stored.choice.sensors] \in Entry
    BY <1>1 DEF Entry, Choice
  <2>2. EntryTypeOK
    BY DEF TypeOK
  <2>3. /\ stored' \in Entry /\ reloads' \in Nat /\ used' \in RunType
        /\ used'.secret = used.secret
    BY <1>6, <2>1, <2>2, StoreKeeps DEF LoginAccepted
  <2>4. EntryTypeOK'
    BY <1>6, <2>2, <2>3 DEF LoginAccepted, EntryTypeOK, InSetup, RunType
  <2> QED
    BY <1>1, <1>6, <2>4 DEF LoginAccepted, TypeOK
<1> QED
  BY <1>3, <1>4, <1>5, <1>6

LEMMA RestartType == TypeOK /\ RestartAll => TypeOK'
<1> SUFFICES ASSUME TypeOK, RestartAll PROVE TypeOK'
  OBVIOUS
<1>1. NotRead \in Choice /\ 0 \in 0..MaxSecret
  BY EntryAssumption DEF EntryAssumption, NotRead, Choice
<1>2. EntryTypeOK'
  <2>1. NotRun \in RunType
    BY <1>1 DEF NotRun, RunType
  <2> QED
    BY <2>1 DEF RestartAll, Restart, TypeOK, EntryTypeOK, RunType, InSetup, Phase
<1>3. /\ Closed \in [stage : {"closed", "asking", "form"},
                     before : SUBSET Mac, seen : SUBSET Mac]
      /\ NoLogin \in [stage : {"closed", "form", "checking"}, data : Entry]
  BY <1>1 DEF Closed, NoLogin, Entry
<1> QED
  BY <1>2, <1>3 DEF RestartAll, TypeOK

LEMMA TypeStep == TypeOK /\ [Next]_vars => TypeOK'
<1> SUFFICES ASSUME TypeOK, [Next]_vars PROVE TypeOK'
  OBVIOUS
<1>1. CASE Life
  BY <1>1, LifeType DEF Life, TypeOK, flowVars
<1>2. CASE RestartAll
  BY <1>2, RestartType
<1>3. CASE UNCHANGED vars
  BY <1>3 DEF TypeOK, EntryTypeOK, vars, entryVars, flowVars, InSetup
<1> QED
  BY <1>1, <1>2, <1>3, DialogType DEF Next

\* Every variable keeps its type, and a setup runs with credentials only.
THEOREM FlowsTypeCorrect == Spec => []TypeOK
BY InitType, TypeStep, PTL DEF Spec

-----------------------------------------------------------------------------
\* The registry steps of a setup, each from what the one before it left.
LEMMA SweptSetup ==
    ASSUME EntryTypeOK, SweptInv, SetupStep
    PROVE  SweptInv'
<1>1. used \in RunType
  BY DEF EntryTypeOK, RunType
<1>2. CASE Start \/ Connect \/ RefreshFailed
  BY <1>2 DEF Start, Connect, RefreshFailed, SweptInv
<1>3. CASE Refreshed
  <2>1. PICK uplink \in BOOLEAN :
          /\ used' = [used EXCEPT !.pruned = stored.choice, !.uplink = uplink]
          /\ reg' = reg \ Pruned(stored.choice, uplink)
    BY <1>3 DEF Refreshed
  <2>2. used'.pruned = stored.choice /\ used'.uplink = uplink
    BY <1>1, <2>1 DEF RunType
  <2>3. reg' \intersect Pruned(used'.pruned, used'.uplink) = {}
    BY <2>1, <2>2
  <2> QED
    BY <1>3, <2>3 DEF Refreshed, SweptInv
<1>4. CASE Forward
  <2>1. /\ used'.built = stored.choice /\ used'.needs = used.needs
        /\ used'.pruned = used.pruned /\ used'.uplink = used.uplink
    BY <1>1, <1>4 DEF Forward, RunType
  <2>2. Built' = ClientEntities(stored.choice) \union CountEntities(used.needs)
                     \union TunnelEntities(used.uplink)
    BY <2>1 DEF Built
  <2>3. reg' = reg \union Built'
    BY <1>4, <2>2 DEF Forward
  <2>4. reg \intersect Pruned(used'.pruned, used'.uplink) = {}
    BY <1>4, <2>1 DEF Forward, SweptInv
  <2> QED
    BY <1>4, <2>3, <2>4 DEF Forward, SweptInv
<1>5. CASE Finish
  <2>1. dev' \subseteq Populated(reg)
    BY <1>5 DEF Finish, EmptyDevices
  <2> QED
    BY <1>5, <2>1 DEF Finish, SweptInv, Built
<1> QED
  BY <1>2, <1>3, <1>4, <1>5 DEF SetupStep

\* The two dialogs that write the entry write an entry, through Store.
LEMMA WritesEntry ==
    ASSUME TypeOK, SubmitOptions \/ LoginAccepted
    PROVE  \E entry \in Entry, extra \in {0, 1} : Store(entry, extra)
<1>1. CASE SubmitOptions
  <2>1. PICK picked \in SUBSET Offered, level \in Level :
          Store([stored EXCEPT !.choice = [tracked |-> picked,
                                           sensors |-> level]], 0)
    BY <1>1 DEF SubmitOptions
  <2>2. Offered \subseteq Mac
    BY DEF Offered, TypeOK
  <2>3. [stored EXCEPT !.choice = [tracked |-> picked, sensors |-> level]]
          \in Entry
    BY <2>2 DEF TypeOK, EntryTypeOK, Entry, Choice
  <2> QED
    BY <2>1, <2>3
<1>2. CASE LoginAccepted
  <2>1. [login.data EXCEPT !.choice.sensors = stored.choice.sensors] \in Entry
    BY DEF TypeOK, EntryTypeOK, Entry, Choice
  <2> QED
    BY <1>2, <2>1 DEF LoginAccepted
<1> QED
  BY <1>1, <1>2

LEMMA SweptStep == TypeOK /\ SweptInv /\ [Next]_vars => SweptInv'
<1> SUFFICES ASSUME TypeOK, SweptInv, [Next]_vars PROVE SweptInv'
  OBVIOUS
<1>1. EntryTypeOK
  BY DEF TypeOK
<1>2. CASE UNCHANGED <<phase, used, reg, dev>>
  BY <1>2 DEF SweptInv, Built
<1>3. CASE Life
  <2>1. CASE SetupStep
    BY <1>1, <2>1, SweptSetup
  <2>2. CASE Retry \/ Reload \/ Unload
    BY <2>2 DEF Retry, Reload, Unload, SweptInv
  <2>3. CASE DeleteDevice
    BY <2>3 DEF DeleteDevice, SweptInv, Built
  <2>4. CASE Disable \/ SecretChanged
    BY <1>2, <2>4 DEF Disable, SecretChanged
  <2> QED
    BY <1>3, <2>1, <2>2, <2>3, <2>4 DEF Life, LifeStep
<1>4. CASE RestartAll
  BY <1>4 DEF RestartAll, Restart, SweptInv
<1>5. CASE SubmitOptions \/ LoginAccepted
  <2>1. PICK entry \in Entry, extra \in {0, 1} : Store(entry, extra)
    BY <1>5, WritesEntry
  <2>2. /\ used'.needs = used.needs /\ used'.pruned = used.pruned
        /\ used'.built = used.built /\ used'.uplink = used.uplink
    BY <1>1, <2>1, StoreKeeps
  <2>3. Built' = Built
    BY <2>2 DEF Built
  <2> QED
    BY <1>5, <2>2, <2>3 DEF SubmitOptions, LoginAccepted, SweptInv
<1>6. CASE \/ OpenOptions \/ ShowOptions \/ Dismiss \/ SubmitLogin \/ LoginRefused
           \/ \E kind \in {"reauth", "reconfigure"} : OpenLogin(kind)
  BY <1>2, <1>6 DEF OpenOptions, ShowOptions, Dismiss, OpenLogin, SubmitLogin,
                    LoginRefused, entryVars
<1>7. CASE UNCHANGED vars
  BY <1>2, <1>7 DEF vars, entryVars
<1> QED
  BY <1>3, <1>4, <1>5, <1>6, <1>7 DEF Next

\* Where every read of a setup saw the same choice, what the setup created
\* and what it did not prune are the same rows.
LEMMA SweptClean ==
    ASSUME EntryTypeOK, SweptInv
    PROVE  NothingLeftBehind
<1> SUFFICES ASSUME phase = "loaded", Steady
             PROVE  /\ reg = ClientEntities(stored.choice)
                                \union CountEntities(Needs(stored.choice))
                                \union TunnelEntities(used.uplink)
                    /\ dev \subseteq Populated(reg) \union {Router}
  BY DEF NothingLeftBehind
<1>1. stored.choice \in Choice /\ used.uplink \in BOOLEAN /\ reg \subseteq Rows
  BY DEF EntryTypeOK, Entry
<1>2. Built = ClientEntities(stored.choice)
                  \union CountEntities(Needs(stored.choice))
                  \union TunnelEntities(used.uplink)
  BY DEF Built, Steady
<1>3. Rows \ Pruned(stored.choice, used.uplink) = Built
  BY <1>1, <1>2, PrunedIsTheRest
<1>4. /\ Built \subseteq reg
      /\ (reg \ Built) \intersect Pruned(stored.choice, used.uplink) = {}
  BY DEF SweptInv, Steady
<1>5. reg = Built
  BY <1>1, <1>3, <1>4
<1> QED
  BY <1>2, <1>5 DEF SweptInv

\* A loaded entry that nothing changed under has exactly the rows its stored
\* choice stands for, whatever was disabled, deleted, saved or interrupted.
THEOREM RegistryIsClean == Spec => []NothingLeftBehind
<1>1. Init => SweptInv
  BY DEF Init, EntryInit, SweptInv
<1>2. TypeOK /\ SweptInv => NothingLeftBehind
  BY SweptClean DEF TypeOK
<1> QED
  BY <1>1, <1>2, SweptStep, FlowsTypeCorrect, PTL DEF Spec

-----------------------------------------------------------------------------
LEMMA ChoiceStep == TypeOK /\ ChoiceInv /\ [Next]_vars => ChoiceInv'
<1> SUFFICES ASSUME TypeOK, ChoiceInv, [Next]_vars PROVE ChoiceInv'
  OBVIOUS
<1>1. stored \in Entry /\ login.data \in Entry
  BY DEF TypeOK, EntryTypeOK
<1>2. CASE UNCHANGED <<stored, chosen, reverted, login>>
  BY <1>2 DEF ChoiceInv, ChoiceKept
<1>3. CASE Life
  BY <1>2, <1>3 DEF Life, LifeStep, SetupStep, Start, Connect, RefreshFailed,
       Refreshed, Forward, Finish, Retry, Reload, Unload, Disable, DeleteDevice,
       SecretChanged, flowVars
<1>4. CASE RestartAll
  BY <1>4 DEF RestartAll, Restart, NoLogin, ChoiceInv, ChoiceKept
<1>5. CASE SubmitOptions
  <2>1. PICK picked \in SUBSET Offered, level \in Level :
          /\ stored' = [stored EXCEPT !.choice = [tracked |-> picked,
                                                  sensors |-> level]]
          /\ chosen' = picked
    BY <1>5 DEF SubmitOptions, Store
  <2>2. stored'.choice.tracked = chosen'
    BY <1>1, <2>1 DEF Entry
  <2>3. login' = login /\ (login.stage = "checking" => reverted')
    BY <1>5 DEF SubmitOptions
  <2> QED
    BY <2>2, <2>3 DEF ChoiceInv, ChoiceKept
<1>6. CASE SubmitLogin
  <2>1. PICK typed \in 1..MaxSecret :
          login' = [stage |-> "checking", data |-> Merged(typed)]
    BY <1>6 DEF SubmitLogin
  <2>2. login'.data.choice = stored.choice
    BY <1>1, <2>1 DEF Merged, Entry
  <2> QED
    BY <1>6, <2>2 DEF SubmitLogin, ChoiceInv, ChoiceKept, entryVars
<1>7. CASE LoginAccepted
  <2>1. stored'.choice.tracked = login.data.choice.tracked
    BY <1>1, <1>7 DEF LoginAccepted, Store, Entry, Choice
  <2>2. login'.stage # "checking"
    BY <1>7 DEF LoginAccepted, NoLogin
  <2> QED
    BY <1>7, <2>1, <2>2 DEF LoginAccepted, ChoiceInv, ChoiceKept
<1>8. CASE LoginRefused \/ \E kind \in {"reauth", "reconfigure"} : OpenLogin(kind)
  <2>1. login'.stage = "form"
    BY <1>8 DEF LoginRefused, OpenLogin
  <2> QED
    BY <1>8, <2>1 DEF LoginRefused, OpenLogin, ChoiceInv, ChoiceKept, entryVars
<1>9. CASE OpenOptions \/ ShowOptions \/ Dismiss
  <2>1. UNCHANGED <<stored, chosen, reverted>>
    BY <1>9 DEF OpenOptions, ShowOptions, Dismiss, entryVars
  <2>2. login' = login \/ login' = NoLogin
    BY <1>9 DEF OpenOptions, ShowOptions, Dismiss
  <2>3. NoLogin.stage # "checking"
    BY DEF NoLogin
  <2> QED
    BY <2>1, <2>2, <2>3 DEF ChoiceInv, ChoiceKept
<1>10. CASE UNCHANGED vars
  BY <1>2, <1>10 DEF vars, entryVars, flowVars
<1> QED
  BY <1>3, <1>4, <1>5, <1>6, <1>7, <1>8, <1>9, <1>10 DEF Next

\* A save of the client list is undone by a login dialog only if it landed
\* while that dialog was waiting for the router.
THEOREM ChoiceIsKept == Spec => []ChoiceKept
<1>1. Init => ChoiceInv
  BY DEF Init, NoLogin, ChoiceInv, ChoiceKept
<1>2. ChoiceInv => ChoiceKept
  BY DEF ChoiceInv
<1> QED
  BY <1>1, <1>2, ChoiceStep, FlowsTypeCorrect, PTL DEF Spec

-----------------------------------------------------------------------------
\* The step of DecisionKept.
KeepsDecisions ==
    \A r \in off :
        (\A c \in {stored.choice, stored'.choice} : r \in ClientEntities(c))
            => /\ r \in off'
               /\ DeviceOf(r) \in dev => DeviceOf(r) \in dev'

\* Neither the pruning nor the device sweep touches what the choice wants.
LEMMA DecisionStep == TypeOK /\ [Next]_vars => [KeepsDecisions]_entryVars
<1> SUFFICES ASSUME TypeOK, [Next]_vars PROVE [KeepsDecisions]_entryVars
  OBVIOUS
<1>1. off \subseteq reg /\ reg \subseteq Rows /\ stored.choice \in Choice
  BY DEF TypeOK, EntryTypeOK, Entry
<1>2. CASE off \subseteq off' /\ dev \subseteq dev'
  BY <1>2 DEF KeepsDecisions
<1>3. CASE Refreshed
  <2>1. PICK uplink \in BOOLEAN : reg' = reg \ Pruned(stored.choice, uplink)
    BY <1>3 DEF Refreshed
  <2>2. ASSUME NEW r \in off, r \in ClientEntities(stored.choice)
        PROVE  r \in off'
    <3>1. r \notin Pruned(stored.choice, uplink)
      BY <1>1, <2>2, PrunedIsTheRest
    <3> QED
      BY <1>1, <1>3, <2>1, <3>1 DEF Refreshed
  <2> QED
    BY <1>3, <2>2 DEF Refreshed, KeepsDecisions
<1>4. CASE Finish \/ DeleteDevice
  <2>1. \A r \in off : DeviceOf(r) \in Populated(reg)
    BY <1>1 DEF Populated
  <2>2. \A r \in off : DeviceOf(r) \notin EmptyDevices
    BY <2>1 DEF EmptyDevices
  <2>3. \A d \in dev : d \notin EmptyDevices => d \in dev'
    BY <1>4 DEF Finish, DeleteDevice
  <2> QED
    BY <1>4, <2>2, <2>3 DEF Finish, DeleteDevice, KeepsDecisions
<1>5. CASE Forward
  BY <1>2, <1>5 DEF Forward
<1>6. CASE Disable
  BY <1>2, <1>6 DEF Disable
<1>7. CASE Start \/ Connect \/ RefreshFailed \/ Retry \/ Reload \/ Unload
           \/ SecretChanged \/ RestartAll
  BY <1>2, <1>7 DEF Start, Connect, RefreshFailed, Retry, Reload, Unload,
                    SecretChanged, RestartAll, Restart
<1>8. CASE SubmitOptions \/ LoginAccepted
  BY <1>2, <1>8 DEF SubmitOptions, LoginAccepted
<1>9. CASE UNCHANGED entryVars
  BY <1>9
<1> QED
  BY <1>3, <1>4, <1>5, <1>6, <1>7, <1>8, <1>9
  DEF Next, Life, LifeStep, SetupStep, OpenOptions, ShowOptions, Dismiss,
      OpenLogin, SubmitLogin, LoginRefused, vars

\* No reload, restart, sweep or save drops the user's decision about an
\* entity that the configuration wanted before and wants after it.
THEOREM DecisionsAreKept == Spec => DecisionKept
<1>1. TypeOK /\ [Next]_vars => [KeepsDecisions]_entryVars
  BY DecisionStep
<1> QED
  BY <1>1, FlowsTypeCorrect, PTL DEF Spec, DecisionKept, KeepsDecisions

-----------------------------------------------------------------------------
(***************************************************************************)
(* What a setup that nothing overtook has read is what is stored, read by  *)
(* read; a loaded instance listens, and once the entry has moved on from   *)
(* what it read, a reload is scheduled.                                    *)
(***************************************************************************)
AgreeInv ==
    /\ InSetup /\ ~used.late => used.secret = stored.secret
    /\ phase \in {"refreshing", "forwarding", "added"} /\ ~used.late
          => used.needs = Needs(stored.choice)
    /\ phase \in {"forwarding", "added"} /\ ~used.late
          => used.pruned = stored.choice
    /\ phase = "added" /\ ~used.late => used.built = stored.choice
    /\ phase = "loaded" => listening
    /\ Outdated /\ ~used.late => reloads > 0

\* The safety half of OutdatedRunEnds: the reload that ends the run is there.
ReloadScheduled == Outdated /\ ~used.late => reloads > 0

\* A write of the entry either changes nothing, or marks the setup it falls
\* into, or has the listener of the loaded instance ask for a reload.
LEMMA AgreeStore ==
    ASSUME EntryTypeOK, AgreeInv, NEW entry \in Entry, NEW extra \in {0, 1},
           Store(entry, extra), UNCHANGED <<phase, listening>>
    PROVE  AgreeInv'
<1>1. used \in RunType
  BY DEF EntryTypeOK, RunType
<1>2. /\ used'.secret = used.secret /\ used'.needs = used.needs
      /\ used'.pruned = used.pruned /\ used'.built = used.built
      /\ used'.late = (used.late \/ (InSetup /\ entry # stored))
  BY <1>1 DEF Store, RunType
<1>3. /\ stored' = entry
      /\ reloads \in Nat
      /\ reloads' = reloads + ListenerReloads(entry) + extra
  BY DEF Store, EntryTypeOK
<1>4. CASE entry = stored
  <2>1. used'.late = used.late /\ stored' = stored
    BY <1>2, <1>3, <1>4, <1>1 DEF RunType
  <2>2. reloads > 0 => reloads' > 0
    BY <1>3 DEF ListenerReloads
  <2>3. Outdated' <=> Outdated
    BY <1>2, <2>1 DEF Outdated, Steady
  <2>4. InSetup' <=> InSetup
    BY DEF InSetup
  <2> QED
    BY <1>2, <2>1, <2>2, <2>3, <2>4 DEF AgreeInv
<1>5. CASE entry # stored /\ InSetup
  <2>1. used'.late = TRUE
    BY <1>2, <1>5
  <2>2. phase' # "loaded"
    BY <1>5 DEF InSetup
  <2> QED
    BY <2>1, <2>2 DEF AgreeInv
<1>6. CASE entry # stored /\ phase = "loaded"
  <2>1. ListenerReloads(entry) = 1
    BY <1>6 DEF AgreeInv, ListenerReloads
  <2>2. reloads' > 0
    BY <1>3, <2>1
  <2>3. phase' = "loaded" /\ listening'
    BY <1>6 DEF AgreeInv
  <2> QED
    BY <2>2, <2>3 DEF AgreeInv, InSetup
<1>7. CASE ~InSetup /\ phase # "loaded"
  BY <1>7 DEF AgreeInv, InSetup, Outdated
<1> QED
  BY <1>4, <1>5, <1>6, <1>7

LEMMA AgreeSetup ==
    ASSUME EntryTypeOK, AgreeInv, SetupStep
    PROVE  AgreeInv'
<1>1. used \in RunType
  BY DEF EntryTypeOK, RunType
<1>2. CASE Start
  <2>1. used'.secret = stored.secret
    BY <1>2 DEF Start, NotRun
  <2>2. phase' \in {"connecting", "retry"} /\ stored' = stored
    BY <1>2 DEF Start
  <2> QED
    BY <2>1, <2>2 DEF AgreeInv, InSetup, Outdated
<1>3. CASE Connect
  <2>1. CASE phase' = "refreshing"
    <3>1. /\ used'.secret = used.secret /\ used'.late = used.late
          /\ used'.needs = Needs(stored.choice)
      BY <1>1, <1>3, <2>1 DEF Connect, RunType
    <3>2. phase = "connecting" /\ stored' = stored
      BY <1>3 DEF Connect
    <3> QED
      BY <2>1, <3>1, <3>2 DEF AgreeInv, InSetup, Outdated
  <2>2. CASE phase' \in {"rejected", "retry"}
    BY <2>2 DEF AgreeInv, InSetup, Outdated
  <2> QED
    BY <1>3, <2>1, <2>2 DEF Connect
<1>4. CASE RefreshFailed
  <2>1. phase' \in {"rejected", "retry"}
    BY <1>4 DEF RefreshFailed
  <2> QED
    BY <2>1 DEF AgreeInv, InSetup, Outdated
<1>5. CASE Refreshed
  <2>1. /\ used'.secret = used.secret /\ used'.late = used.late
        /\ used'.needs = used.needs /\ used'.pruned = stored.choice
    BY <1>1, <1>5 DEF Refreshed, RunType
  <2>2. phase = "refreshing" /\ phase' = "forwarding" /\ stored' = stored
    BY <1>5 DEF Refreshed
  <2> QED
    BY <2>1, <2>2 DEF AgreeInv, InSetup, Outdated
<1>6. CASE Forward
  <2>1. /\ used'.secret = used.secret /\ used'.late = used.late
        /\ used'.needs = used.needs /\ used'.pruned = used.pruned
        /\ used'.built = stored.choice
    BY <1>1, <1>6 DEF Forward, RunType
  <2>2. phase = "forwarding" /\ phase' = "added" /\ stored' = stored
    BY <1>6 DEF Forward
  <2> QED
    BY <2>1, <2>2 DEF AgreeInv, InSetup, Outdated
<1>7. CASE Finish
  <2>1. /\ phase = "added" /\ phase' = "loaded" /\ listening' = TRUE
        /\ used' = used /\ stored' = stored
    BY <1>7 DEF Finish
  <2>2. ~used.late => Steady /\ used.secret = stored.secret
    BY <2>1 DEF AgreeInv, InSetup, Steady
  <2>3. ~used'.late => ~Outdated'
    BY <2>1, <2>2 DEF Outdated, Steady
  <2> QED
    BY <2>1, <2>3 DEF AgreeInv, InSetup
<1> QED
  BY <1>2, <1>3, <1>4, <1>5, <1>6, <1>7 DEF SetupStep

LEMMA AgreeStep == TypeOK /\ AgreeInv /\ [Next]_vars => AgreeInv'
<1> SUFFICES ASSUME TypeOK, AgreeInv, [Next]_vars PROVE AgreeInv'
  OBVIOUS
<1>1. EntryTypeOK
  BY DEF TypeOK
<1>2. CASE UNCHANGED <<stored, phase, used, listening, reloads>>
  BY <1>2 DEF AgreeInv, InSetup, Outdated, Steady
<1>3. CASE Life
  <2>1. CASE SetupStep
    BY <1>1, <2>1, AgreeSetup
  <2>2. CASE Retry \/ Reload \/ Unload
    <3>1. phase' \in {"starting", "unloading", "stuck"}
      BY <2>2 DEF Retry, Reload, Unload
    <3> QED
      BY <3>1 DEF AgreeInv, InSetup, Outdated
  <2>3. CASE Disable \/ DeleteDevice \/ SecretChanged
    BY <1>2, <2>3 DEF Disable, DeleteDevice, SecretChanged
  <2> QED
    BY <1>3, <2>1, <2>2, <2>3 DEF Life, LifeStep
<1>4. CASE RestartAll
  <2>1. phase' = "starting"
    BY <1>4 DEF RestartAll, Restart
  <2> QED
    BY <2>1 DEF AgreeInv, InSetup, Outdated
<1>5. CASE SubmitOptions \/ LoginAccepted
  <2>1. PICK entry \in Entry, extra \in {0, 1} : Store(entry, extra)
    BY <1>5, WritesEntry
  <2>2. UNCHANGED <<phase, listening>>
    BY <1>5 DEF SubmitOptions, LoginAccepted
  <2> QED
    BY <1>1, <2>1, <2>2, AgreeStore
<1>6. CASE \/ OpenOptions \/ ShowOptions \/ Dismiss \/ SubmitLogin \/ LoginRefused
           \/ \E kind \in {"reauth", "reconfigure"} : OpenLogin(kind)
  BY <1>2, <1>6 DEF OpenOptions, ShowOptions, Dismiss, OpenLogin, SubmitLogin,
                    LoginRefused, entryVars
<1>7. CASE UNCHANGED vars
  BY <1>2, <1>7 DEF vars, entryVars
<1> QED
  BY <1>3, <1>4, <1>5, <1>6, <1>7 DEF Next

\* A loaded instance that the entry has moved on from has the reload that
\* will end it scheduled, unless the change overtook its setup.
THEOREM ReloadIsScheduled == Spec => []ReloadScheduled
<1>1. Init => AgreeInv
  BY DEF Init, EntryInit, AgreeInv, InSetup, Outdated
<1>2. AgreeInv => ReloadScheduled
  BY DEF AgreeInv, ReloadScheduled
<1> QED
  BY <1>1, <1>2, AgreeStep, FlowsTypeCorrect, PTL DEF Spec

-----------------------------------------------------------------------------
(***************************************************************************)
(* The second half: MeshNodes, for any nodes and any grace -- which reads  *)
(* may make a second set of devices, and which devices the user may        *)
(* delete.                                                                 *)
(***************************************************************************)

\* What is published is what some read returned, and is known to the platforms
\* once setup is through; `seen' is of the same run.
Origin ==
    /\ \/ nodes = {}
       \/ nodes = Ids("cid", listing)
       \/ nodes \subseteq Ids("mac", Node)
    /\ loaded => nodes \subseteq known
    /\ ~loaded => ~seen

MeshInv == MeshTypeOK /\ Origin

LEMMA OneKind ==
    ASSUME NEW m \in Node, NEW n \in Node
    PROVE  Id("cid", m) # Id("mac", n) /\ Id("old", m) # Id("cid", n)
           /\ Id("old", m) # Id("mac", n)
BY DEF Id

LEMMA IdsType ==
    ASSUME NEW S \in SUBSET Node
    PROVE  /\ Ids("cid", S) \subseteq Identity
           /\ Ids("mac", S) \subseteq Identity
           /\ Ids("mac", S) \subseteq Ids("mac", Node)
           /\ \A n \in Node : Id("cid", n) \in Ids("cid", S) <=> n \in S
<1>1. Ids("cid", S) \subseteq Identity /\ Ids("mac", S) \subseteq Identity
  BY DEF Ids, Identity
<1>2. Ids("mac", S) \subseteq Ids("mac", Node)
  BY DEF Ids
<1>3. ASSUME NEW n \in Node PROVE Id("cid", n) \in Ids("cid", S) <=> n \in S
  BY DEF Ids, Id
<1> QED BY <1>1, <1>2, <1>3

LEMMA EmptyPublished == {} \in Published
<1>1. Ids("mac", {}) = {}
  BY DEF Ids
<1> QED BY <1>1 DEF Published

\* What one read of the members returns.
LEMMA OutcomeIs ==
    ASSUME MeshTypeOK, NEW extenders \in SUBSET members, NEW asked,
           NEW answer \in Answers
    PROVE  LET got == Outcome(extenders, asked, answer)
               lists == /\ Asks(extenders, asked)
                        /\ answer = "members" /\ members # {}
               after == LatchAfter(extenders, asked, answer)
           IN  \/ got = Return({}) /\ ~lists
               \/ got = Raise /\ ~lists
               \/ got = Return(Ids("cid", members)) /\ lists
               \/ /\ got = Return(Ids("mac", extenders))
                  /\ ~lists /\ (after = "no" \/ ~seen)
<1>0. answer \in {"members", "none", "missing", "error"}
  BY DEF Answers, Answer
<1>1. CASE extenders = {}
  BY <1>1 DEF Outcome, Asks
<1>2. CASE extenders # {} /\ asked = "no"
  BY <1>2 DEF Outcome, Asks, LatchAfter
<1>3. CASE extenders # {} /\ asked # "no"
  <2>1. Outcome(extenders, asked, answer) =
           CASE answer = "members" /\ members # {} ->
                     Return(Ids("cid", members))
             [] answer = "members" /\ members = {} -> Fallback(extenders)
             [] answer = "none" -> Fallback(extenders)
             [] answer = "missing" -> Return(Ids("mac", extenders))
             [] answer = "error" -> Transient(extenders)
    BY <1>3 DEF Outcome
  <2>2. LatchAfter(extenders, asked, answer) = "no" <=> answer = "missing"
    BY <1>0, <1>3 DEF LatchAfter, Asks
  <2>3. CASE answer = "members" /\ members # {}
    BY <1>3, <2>1, <2>3 DEF Asks
  <2>4. CASE answer = "members" /\ members = {}
    BY <1>3, <2>1, <2>2, <2>4 DEF Fallback
  <2>5. CASE answer = "none"
    BY <1>3, <2>1, <2>2, <2>5 DEF Fallback
  <2>6. CASE answer = "missing"
    BY <1>3, <2>1, <2>2, <2>6
  <2>7. CASE answer = "error"
    BY <1>3, <2>1, <2>7 DEF Transient
  <2> QED BY <1>0, <2>3, <2>4, <2>5, <2>6, <2>7
<1> QED BY <1>1, <1>2, <1>3

\* What a read publishes.
LEMMA ReadIs ==
    ASSUME MeshTypeOK, NEW extenders \in SUBSET members,
           NEW answer \in Answers, Read(extenders, answer)
    PROVE  /\ \/ nodes' = {} /\ listing' = listing /\ seen' = seen
              \/ nodes' = nodes /\ listing' = listing /\ seen' = seen
              \/ /\ nodes' = Ids("cid", members)
                 /\ listing' = members /\ seen' = TRUE
              \/ /\ nodes' = Ids("mac", extenders)
                 /\ listing' = listing /\ seen' = seen
                 /\ latch' = "no" \/ ~seen
           /\ latch' \in {"unknown", "yes", "no"}
           /\ streak' \in 0 .. (Grace + 1) /\ fresh' \in BOOLEAN
<1> DEFINE asked == Reset
           got   == Outcome(extenders, asked, answer)
           lists == Asks(extenders, asked) /\ answer = "members" /\ members # {}
<1>1. latch' = LatchAfter(extenders, asked, answer)
  BY DEF Read
<1>2. /\ seen' = (seen \/ lists)
      /\ listing' = IF lists THEN members ELSE listing
  BY DEF Read
<1>3. IF got.raise
      THEN /\ nodes' = nodes
           /\ streak' = IF streak > Grace THEN streak ELSE streak + 1
           /\ fresh' = (loaded /\ streak' <= Grace)
      ELSE nodes' = got.nodes /\ streak' = 0 /\ fresh' = TRUE
  BY DEF Read
<1>4. asked \in {"unknown", "yes", "no"}
  BY DEF MeshTypeOK, Reset
<1>5. latch' \in {"unknown", "yes", "no"}
  BY <1>1, <1>4 DEF LatchAfter, Answers, Answer
<1>6. streak' \in 0 .. (Grace + 1) /\ fresh' \in BOOLEAN
  <2>1. Grace \in Nat /\ streak \in 0 .. (Grace + 1) /\ loaded \in BOOLEAN
    BY MeshAssumption DEF MeshAssumption, MeshTypeOK
  <2>2. CASE got.raise
    <3>1. /\ streak' = IF streak > Grace THEN streak ELSE streak + 1
          /\ fresh' = (loaded /\ streak' <= Grace)
      BY <1>3, <2>2
    <3> QED BY <2>1, <3>1
  <2>3. CASE ~got.raise
    BY <1>3, <2>1, <2>3
  <2> QED BY <2>2, <2>3
<1>7. \/ got = Return({}) /\ ~lists
      \/ got = Raise /\ ~lists
      \/ got = Return(Ids("cid", members)) /\ lists
      \/ /\ got = Return(Ids("mac", extenders))
         /\ ~lists /\ (latch' = "no" \/ ~seen)
  BY <1>1, OutcomeIs
<1>8. seen \in BOOLEAN
  BY DEF MeshTypeOK
<1>9. \/ nodes' = {} /\ listing' = listing /\ seen' = seen
      \/ nodes' = nodes /\ listing' = listing /\ seen' = seen
      \/ nodes' = Ids("cid", members) /\ listing' = members /\ seen' = TRUE
      \/ /\ nodes' = Ids("mac", extenders)
         /\ listing' = listing /\ seen' = seen
         /\ latch' = "no" \/ ~seen
  <2>1. CASE got = Return({}) /\ ~lists
    BY <1>2, <1>3, <1>8, <2>1 DEF Return
  <2>2. CASE got = Raise /\ ~lists
    BY <1>2, <1>3, <1>8, <2>2 DEF Raise
  <2>3. CASE got = Return(Ids("cid", members)) /\ lists
    <3>1. lists = TRUE /\ seen' = TRUE
      BY <1>2, <1>8, <2>3
    <3>2. nodes' = Ids("cid", members) /\ listing' = members
      BY <1>2, <1>3, <2>3 DEF Return
    <3> QED BY <3>1, <3>2
  <2>4. CASE /\ got = Return(Ids("mac", extenders))
              /\ ~lists /\ (latch' = "no" \/ ~seen)
    BY <1>2, <1>3, <1>8, <2>4 DEF Return
  <2> HIDE DEF got, lists
  <2> QED BY <1>7, <2>1, <2>2, <2>3, <2>4
<1> QED BY <1>5, <1>6, <1>9

\* The types of what a read publishes.
LEMMA ReadType ==
    ASSUME MeshInv, NEW extenders \in SUBSET members,
           NEW answer \in Answers, Read(extenders, answer)
    PROVE  /\ nodes' \in Published /\ nodes' \subseteq Identity
           /\ listing' \subseteq Node /\ seen' \in BOOLEAN
           /\ \/ nodes' = {}
              \/ nodes' = Ids("cid", listing')
              \/ nodes' \subseteq Ids("mac", Node)
<1>1. /\ members \subseteq Node /\ listing \subseteq Node /\ seen \in BOOLEAN
      /\ nodes \in Published
  BY DEF MeshInv, MeshTypeOK
<1>2. extenders \subseteq Node
  BY <1>1
<1>3. CASE nodes' = {} /\ listing' = listing /\ seen' = seen
  BY <1>1, <1>3, EmptyPublished
<1>4. CASE nodes' = nodes /\ listing' = listing /\ seen' = seen
  <2>1. nodes \subseteq Identity
    BY <1>1, IdsType DEF Published
  <2> QED BY <1>1, <1>4, <2>1 DEF MeshInv, Origin
<1>5. CASE nodes' = Ids("cid", members) /\ listing' = members /\ seen' = TRUE
  BY <1>1, <1>5, IdsType DEF Published
<1>6. CASE nodes' = Ids("mac", extenders) /\ listing' = listing /\ seen' = seen
  BY <1>1, <1>2, <1>6, IdsType DEF Published
<1> QED BY <1>3, <1>4, <1>5, <1>6, ReadIs DEF MeshInv

LEMMA MigratedIs ==
    ASSUME NEW set \in SUBSET Identity, NEW reported \in SUBSET Identity
    PROVE  /\ Migrated(set, reported) \subseteq Identity
           /\ \A n \in Node : Id("cid", n) \in set
                    => Id("cid", n) \in Migrated(set, reported)
           /\ \A n \in Node : Id("mac", n) \in Migrated(set, reported)
                    => Id("mac", n) \in set
<1> DEFINE moved == {n \in Node : /\ Id("cid", n) \in reported
                                  /\ Id("old", n) \in set
                                  /\ Id("cid", n) \notin set}
<1>1. moved \subseteq Node
  OBVIOUS
<1>2. Migrated(set, reported)
          = (set \ Ids("old", moved)) \union Ids("cid", moved)
  BY DEF Migrated
<1>3. Ids("cid", moved) \subseteq Identity
  BY <1>1, IdsType
<1>4. ASSUME NEW n \in Node
      PROVE  /\ Id("cid", n) \notin Ids("old", moved)
             /\ Id("mac", n) \notin Ids("cid", moved)
  BY <1>1, OneKind DEF Ids
<1> QED BY <1>2, <1>3, <1>4

-----------------------------------------------------------------------------
LEMMA MeshInductive ==
    MeshInv /\ [MeshNext]_meshVars => MeshInv'
<1> SUFFICES ASSUME MeshInv, [MeshNext]_meshVars PROVE MeshInv'
  OBVIOUS
<1>t. /\ rows \subseteq Identity /\ known \subseteq Identity
      /\ members \subseteq Node
  BY DEF MeshInv, MeshTypeOK
<1>1. CASE Setup
  <2>1. PICK extenders \in SUBSET members, answer \in Answers :
          Read(extenders, answer)
    BY <1>1 DEF Setup
  <2>2. /\ nodes' \in Published /\ nodes' \subseteq Identity
        /\ listing' \subseteq Node /\ seen' \in BOOLEAN
        /\ \/ nodes' = {}
           \/ nodes' = Ids("cid", listing')
           \/ nodes' \subseteq Ids("mac", Node)
    BY <2>1, ReadType
  <2>3. /\ latch' \in {"unknown", "yes", "no"}
        /\ streak' \in 0 .. (Grace + 1) /\ fresh' \in BOOLEAN
    BY <2>1, ReadIs DEF MeshInv
  <2>4. rows' \subseteq Identity /\ known' = nodes'
    BY <1>1, <1>t, <2>2, MigratedIs DEF Setup
  <2>5. MeshTypeOK'
    BY <1>1, <2>2, <2>3, <2>4 DEF Setup, MeshInv, MeshTypeOK
  <2>6. Origin'
    BY <1>1, <2>2, <2>4 DEF Setup, Origin
  <2> QED BY <2>5, <2>6 DEF MeshInv
<1>2. CASE Tick
  <2>1. PICK extenders \in SUBSET members, answer \in Answers :
          Read(extenders, answer)
    BY <1>2 DEF Tick
  <2>2. /\ nodes' \in Published /\ nodes' \subseteq Identity
        /\ listing' \subseteq Node /\ seen' \in BOOLEAN
        /\ \/ nodes' = {}
           \/ nodes' = Ids("cid", listing')
           \/ nodes' \subseteq Ids("mac", Node)
    BY <2>1, ReadType
  <2>3. /\ latch' \in {"unknown", "yes", "no"}
        /\ streak' \in 0 .. (Grace + 1) /\ fresh' \in BOOLEAN
    BY <2>1, ReadIs DEF MeshInv
  <2>4. /\ rows' \subseteq Identity /\ known' \subseteq Identity
        /\ nodes' \subseteq known' /\ loaded' = loaded /\ loaded
    BY <1>2, <1>t, <2>2 DEF Tick, New
  <2>5. MeshTypeOK'
    BY <1>2, <2>2, <2>3, <2>4 DEF Tick, MeshInv, MeshTypeOK
  <2>6. Origin'
    BY <2>2, <2>4 DEF Origin
  <2> QED BY <2>5, <2>6 DEF MeshInv
<1>3. CASE Delete
  <2>1. rows' \subseteq Identity
    BY <1>3, <1>t DEF Delete
  <2>2. MeshTypeOK'
    BY <1>3, <2>1 DEF Delete, MeshInv, MeshTypeOK
  <2> QED BY <1>3, <2>2 DEF Delete, MeshInv, Origin
<1>4. CASE LoadAgain
  <2>1. {} \in Published /\ 0 \in 0 .. (Grace + 1)
    BY EmptyPublished, MeshAssumption DEF MeshAssumption
  <2>2. MeshTypeOK'
    BY <1>4, <2>1 DEF LoadAgain, MeshInv, MeshTypeOK
  <2> QED BY <1>4, <2>2 DEF LoadAgain, MeshInv, Origin
<1>5. CASE Boot
  BY <1>5 DEF Boot, MeshInv, MeshTypeOK, Origin
<1>6. CASE Booted
  BY <1>6 DEF Booted, MeshInv, MeshTypeOK, Origin
<1>7. CASE Change
  <2>1. members' \subseteq Node
    BY <1>7, <1>t DEF Change
  <2>2. MeshTypeOK'
    BY <1>7, <2>1 DEF Change, MeshInv, MeshTypeOK
  <2> QED BY <1>7, <2>2 DEF Change, MeshInv, Origin
<1>8. CASE UNCHANGED meshVars
  BY <1>8 DEF meshVars, MeshInv, MeshTypeOK, Origin
<1> QED BY <1>1, <1>2, <1>3, <1>4, <1>5, <1>6, <1>7, <1>8 DEF MeshNext

LEMMA MeshInitially ==
    MeshInit => MeshInv
<1> SUFFICES ASSUME MeshInit PROVE MeshInv
  OBVIOUS
<1>1. {} \in Published /\ 0 \in 0 .. (Grace + 1)
  BY EmptyPublished, MeshAssumption DEF MeshAssumption
<1>2. Ids("old", Node) \subseteq Identity
  BY DEF Ids, Identity
<1>3. rows \subseteq Identity
  BY <1>2 DEF MeshInit
<1>4. MeshTypeOK
  BY <1>1, <1>3 DEF MeshInit, MeshTypeOK
<1> QED BY <1>4 DEF MeshInit, MeshInv, Origin

\* Every variable keeps its type; what is published is of one kind.
THEOREM MeshTypeCorrect ==
    MeshSpec => []MeshTypeOK
<1>1. MeshInv => MeshTypeOK
  BY DEF MeshInv
<1> QED
  BY <1>1, MeshInitially, MeshInductive, PTL DEF MeshSpec

-----------------------------------------------------------------------------
LEMMA SecondSetStep ==
    MeshInv /\ [MeshNext]_meshVars =>
             [seen /\ latch' # "no" =>
                \A n \in Node :
                   Id("mac", n) \in rows' => Id("mac", n) \in rows]_meshVars
<1> SUFFICES ASSUME MeshInv, MeshNext, seen, latch' # "no",
                    NEW n \in Node, Id("mac", n) \in rows'
             PROVE  Id("mac", n) \in rows
  OBVIOUS
<1>1. CASE Setup
  BY <1>1 DEF Setup, MeshInv, Origin
<1>2. CASE Tick
  <2>1. PICK extenders \in SUBSET members, answer \in Answers :
          Read(extenders, answer)
    BY <1>2 DEF Tick
  <2>2. nodes \subseteq known /\ members \subseteq Node
    BY <1>2 DEF Tick, MeshInv, Origin, MeshTypeOK
  <2>3. nodes' = {} \/ nodes' = nodes \/ nodes' = Ids("cid", members)
    BY <2>1, ReadIs DEF MeshInv
  <2>4. Id("mac", n) \notin Ids("cid", members)
    BY <2>2, OneKind DEF Ids
  <2> QED BY <1>2, <2>2, <2>3, <2>4 DEF Tick, New
<1>3. CASE Delete
  BY <1>3 DEF Delete
<1>4. CASE LoadAgain \/ Boot \/ Booted \/ Change
  BY <1>4 DEF LoadAgain, Boot, Booted, Change
<1> QED BY <1>1, <1>2, <1>3, <1>4 DEF MeshNext

\* Once the members were listed, only an endpoint that is not found can give a
\* node a row under its MAC address.
THEOREM SecondSetOnlyMissing ==
    MeshSpec => SecondSetExplained
BY MeshInitially, MeshInductive, SecondSetStep, PTL
DEF MeshSpec, SecondSetExplained

LEMMA DeletedStep ==
    MeshInv /\ [MeshNext]_meshVars =>
             [\A n \in Node : Id("cid", n) \in rows \ rows' =>
                \/ n \notin listing
                \/ nodes # {} /\ nodes \subseteq Ids("mac", Node)]_meshVars
<1> SUFFICES ASSUME MeshInv, MeshNext, NEW n \in Node,
                    Id("cid", n) \in rows, Id("cid", n) \notin rows'
             PROVE  \/ n \notin listing
                    \/ nodes # {} /\ nodes \subseteq Ids("mac", Node)
  OBVIOUS
<1>1. CASE Setup
  <2>1. PICK extenders \in SUBSET members, answer \in Answers :
          Read(extenders, answer)
    BY <1>1 DEF Setup
  <2>2. nodes' \subseteq Identity /\ rows \subseteq Identity
    BY <2>1, ReadType DEF MeshInv, MeshTypeOK
  <2>3. Id("cid", n) \in Migrated(rows, nodes')
    BY <2>2, MigratedIs
  <2> QED BY <1>1, <2>3 DEF Setup
<1>2. CASE Tick
  BY <1>2 DEF Tick
<1>3. CASE Delete
  <2>1. nodes # {} /\ Id("cid", n) \notin nodes
    BY <1>3 DEF Delete, Retired
  <2>2. CASE nodes = Ids("cid", listing)
    <3>1. listing \subseteq Node
      BY DEF MeshInv, MeshTypeOK
    <3> QED BY <2>1, <2>2, <3>1, IdsType
  <2>3. CASE nodes \subseteq Ids("mac", Node)
    BY <2>1, <2>3
  <2> QED BY <2>1, <2>2, <2>3 DEF MeshInv, Origin
<1>4. CASE LoadAgain \/ Boot \/ Booted \/ Change
  BY <1>4 DEF LoadAgain, Boot, Booted, Change
<1> QED BY <1>1, <1>2, <1>3, <1>4 DEF MeshNext

\* The user cannot delete the device of a node the controller listed when it
\* was last asked with success, unless the MAC-keyed identities are published.
THEOREM DeletedOnlyRetired ==
    MeshSpec => OnlyRetiredDeleted
BY MeshInitially, MeshInductive, DeletedStep, PTL
DEF MeshSpec, OnlyRetiredDeleted

=============================================================================
