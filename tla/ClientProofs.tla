---------------------------- MODULE ClientProofs -----------------------------
(***************************************************************************)
(* Proofs about what a user sees and does of a client.  The first half is  *)
(* about EntityWrites, for any options, limits and bounds: what a write    *)
(* that was reported as done is worth, and what the controls may show.     *)
(* The second half is about ClientPresence.                                *)
(***************************************************************************)
EXTENDS EntityWrites, ClientPresence, TLAPS

-----------------------------------------------------------------------------
(***************************************************************************)
(* Commands.  Each control has its own settings and its own options; of a  *)
(* call that is under way, Remaining is what it may still have to send and *)
(* Established what it has done, if nobody else touched the setting.       *)
(***************************************************************************)
Topic(c) ==
    CASE c = "policy" -> {"default", "deny", "home"}
      [] c = "limit"  -> {"limit"}
      [] c = "switch" -> {"on", "off"}

Remaining(r) ==
    CASE r.option = "deny"    -> {<<"deny", "save">>, <<"save">>}
      [] r.option = "default" -> {<<"unset", "permit", "save">>,
                                  <<"permit", "save">>, <<"save">>}
      [] r.option = "home"    -> {<<"permit", "assign", "save">>,
                                  <<"assign", "save">>, <<"save">>}
      [] r.option = "limit"   -> {<<"rate", "save">>, <<"save">>}
      [] r.option = "on"      -> {<<"up", "save">>, <<"save">>}
      [] r.option = "off"     -> {<<"down", "save">>, <<"save">>}

Established(w, c) ==
    /\ w.todo = <<"save">> => Satisfies(c, w.want)
    /\ w.todo = <<"permit", "save">> => c.policy = NoPolicy
    /\ w.todo = <<"assign", "save">> => c.access = "permit"

\* The settings of control c are the same in x and y.
Same(c, x, y) ==
    CASE c = "policy" -> x.access = y.access /\ x.policy = y.policy
      [] c = "limit"  -> x.rate = y.rate
      [] c = "switch" -> x.on = y.on

LEMMA SmallTuples ==
    /\ \A a : Len(<<a>>) = 1 /\ Head(<<a>>) = a
    /\ \A a, b : Len(<<a, b>>) = 2 /\ Head(<<a, b>>) = a
                 /\ Tail(<<a, b>>) = <<b>>
    /\ \A a, b, c : Len(<<a, b, c>>) = 3 /\ Head(<<a, b, c>>) = a
                    /\ Tail(<<a, b, c>>) = <<b, c>>
OBVIOUS

LEMMA OptionsOfTopics ==
    ASSUME NEW c \in Control, NEW r, r.option \in Topic(c)
    PROVE  /\ c = "policy" => r.option \in {"deny", "default", "home"}
           /\ c = "limit" => r.option = "limit"
           /\ c = "switch" => r.option \in {"on", "off"}
BY DEF Topic, Control

LEMMA CommandTypes ==
    ASSUME NEW c \in Control, NEW r, r.option \in Topic(c),
           NEW todo \in Remaining(r)
    PROVE  /\ todo \in Seq(Verb) /\ todo # <<>>
           /\ Head(todo) \in Verb
           /\ Len(todo) = 1 <=> todo = <<"save">>
           /\ Len(todo) # 1 => Tail(todo) \in Remaining(r)
           /\ Len(todo) # 1 => Head(todo) # "save"
<1>1. r.option \in {"deny", "default", "home", "limit", "on", "off"}
  BY OptionsOfTopics DEF Control
<1>2. \/ todo = <<"save">>
      \/ \E v \in Verb \ {"save"} : todo = <<v, "save">>
      \/ \E v, u \in Verb \ {"save"} : todo = <<v, u, "save">>
  BY <1>1 DEF Remaining, Verb
<1>3. /\ todo \in Seq(Verb) /\ todo # <<>>
      /\ Head(todo) \in Verb
      /\ Len(todo) = 1 <=> todo = <<"save">>
      /\ Len(todo) # 1 => Head(todo) # "save"
  <2>1. CASE todo = <<"save">>
    BY <2>1, SmallTuples DEF Verb
  <2>2. ASSUME NEW v \in Verb \ {"save"}, todo = <<v, "save">>
        PROVE  <1>3!:
    <3>1. "save" \in Verb
      BY DEF Verb
    <3> QED
      BY <2>2, <3>1, SmallTuples
  <2>3. ASSUME NEW v \in Verb \ {"save"}, NEW u \in Verb \ {"save"},
               todo = <<v, u, "save">>
        PROVE  <1>3!:
    <3>1. "save" \in Verb
      BY DEF Verb
    <3> QED
      BY <2>3, <3>1, SmallTuples
  <2> QED
    BY <1>2, <2>1, <2>2, <2>3
<1>4. Len(todo) # 1 => Tail(todo) \in Remaining(r)
  <2>1. CASE r.option \in {"deny", "limit", "on", "off"}
    <3>1. todo = <<"save">> \/ \E v : todo = <<v, "save">>
      BY <2>1 DEF Remaining
    <3>2. <<"save">> \in Remaining(r)
      BY <2>1 DEF Remaining
    <3> QED
      BY <3>1, <3>2, SmallTuples
  <2>2. ASSUME NEW v, NEW u,
               Remaining(r) = {<<v, u, "save">>, <<u, "save">>, <<"save">>}
        PROVE  <1>4!:
    <3>1. CASE todo = <<v, u, "save">>
      BY <2>2, <3>1, SmallTuples
    <3>2. CASE todo = <<u, "save">>
      BY <2>2, <3>2, SmallTuples
    <3>3. CASE todo = <<"save">>
      BY <3>3, SmallTuples
    <3> QED
      BY <2>2, <3>1, <3>2, <3>3
  <2>3. CASE r.option \in {"default", "home"}
    BY <2>2, <2>3 DEF Remaining
  <2> QED
    BY <1>1, <2>1, <2>3
<1> QED
  BY <1>3, <1>4

LEMMA CommandsStart ==
    ASSUME NEW c \in Control, NEW r \in Request, r.option \in Topic(c)
    PROVE  /\ Commands(r) \in Remaining(r)
           /\ \A x \in Config, b \in BOOLEAN :
                Established([todo |-> Commands(r), want |-> r, alone |-> b], x)
<1>1. r.option \in {"deny", "default", "home", "limit", "on", "off"}
  BY DEF Topic, Control
<1>2. Commands(r) \in Remaining(r)
  BY <1>1 DEF Commands, SwitchCommands, Remaining
<1>3. Commands(r) \notin {<<"save">>, <<"permit", "save">>,
                          <<"assign", "save">>}
  BY <1>1 DEF Commands, SwitchCommands
<1> QED
  BY <1>2, <1>3 DEF Established

\* A setting that is the same is as much what was asked for.
LEMMA SameSatisfies ==
    ASSUME NEW c \in Control, NEW r, r.option \in Topic(c) \cup {"nothing"},
           NEW x \in Config, NEW y \in Config, Same(c, x, y)
    PROVE  Satisfies(x, r) <=> Satisfies(y, r)
<1>1. CASE c = "policy"
  BY <1>1 DEF Same, Satisfies, Topic, Option
<1>2. CASE c = "limit"
  BY <1>2 DEF Same, Satisfies, Topic
<1>3. CASE c = "switch"
  BY <1>3 DEF Same, Satisfies, Topic
<1> QED
  BY <1>1, <1>2, <1>3 DEF Control

LEMMA SameEstablished ==
    ASSUME NEW c \in Control, NEW w, w.want.option \in Topic(c),
           w.todo \in Remaining(w.want),
           NEW x \in Config, NEW y \in Config, Same(c, x, y),
           Established(w, x)
    PROVE  Established(w, y)
<1>1. Satisfies(x, w.want) <=> Satisfies(y, w.want)
  BY SameSatisfies
<1>2. CASE c = "policy"
  BY <1>1, <1>2 DEF Same, Established
<1>3. CASE c # "policy"
  <2>1. w.todo \notin {<<"permit", "save">>, <<"assign", "save">>}
    BY <1>3 DEF Control, Topic, Remaining
  <2> QED
    BY <1>1, <2>1 DEF Established
<1> QED
  BY <1>2, <1>3

\* One command of a call: it changes the settings of its own control, and what
\* it establishes is what the rest relies on.
LEMMA CommandApplied ==
    ASSUME NEW c \in Control, NEW w, w.want \in Request,
           w.want.option \in Topic(c), w.todo \in Remaining(w.want),
           NEW x \in Config
    PROVE  LET y == Apply(Head(w.todo), w.want, x)
           IN  /\ y \in Config
               /\ \A d \in Control \ {c} : Same(d, x, y)
               /\ Head(w.todo) = "save" => y = x
               /\ Len(w.todo) # 1 /\ Established(w, x) =>
                    Established([w EXCEPT !.todo = Tail(w.todo)], y)
<1> DEFINE v == Head(w.todo)
           y == Apply(v, w.want, x)
<1>1. /\ w.want.kbps \in Nat
      /\ x \in [access : {"permit", "deny"}, policy : {NoPolicy, "home"},
                rate : Nat, on : BOOLEAN]
  BY DEF Request, Config
<1>2. v \in Verb
  BY CommandTypes
<1>3. y \in Config
  BY <1>1, <1>2 DEF Apply, Config, Verb
<1>4. v = "save" => y = x
  BY DEF Apply
<1>5. /\ v \in {"permit", "deny", "unset", "assign"} =>
           y.rate = x.rate /\ y.on = x.on
      /\ v = "rate" => y.access = x.access /\ y.policy = x.policy /\ y.on = x.on
      /\ v \in {"up", "down"} =>
           y.access = x.access /\ y.policy = x.policy /\ y.rate = x.rate
  BY <1>1 DEF Apply
<1>6. /\ c = "policy" => v \in {"permit", "deny", "unset", "assign", "save"}
      /\ c = "limit" => v \in {"rate", "save"}
      /\ c = "switch" => v \in {"up", "down", "save"}
  BY OptionsOfTopics, SmallTuples DEF Remaining
<1>7. \A d \in Control \ {c} : Same(d, x, y)
  <2> HIDE DEF v, y
  <2>1. CASE c = "policy"
    BY <2>1, <1>4, <1>5, <1>6 DEF Control, Same
  <2>2. CASE c = "limit"
    BY <2>2, <1>4, <1>5, <1>6 DEF Control, Same
  <2>3. CASE c = "switch"
    BY <2>3, <1>4, <1>5, <1>6 DEF Control, Same
  <2> QED
    BY <2>1, <2>2, <2>3 DEF Control
<1>8. ASSUME Len(w.todo) # 1, Established(w, x)
      PROVE  Established([w EXCEPT !.todo = Tail(w.todo)], y)
  <2> DEFINE rest == Tail(w.todo)
             n == [w EXCEPT !.todo = rest]
             o == w.want.option
  <2>1. \/ o = "default" /\ v = "unset" /\ rest = <<"permit", "save">>
        \/ /\ o = "default" /\ w.todo = <<"permit", "save">>
           /\ v = "permit" /\ rest = <<"save">>
        \/ o = "home" /\ v = "permit" /\ rest = <<"assign", "save">>
        \/ /\ o = "home" /\ w.todo = <<"assign", "save">>
           /\ v = "assign" /\ rest = <<"save">>
        \/ o = "deny" /\ v = "deny" /\ rest = <<"save">>
        \/ o = "limit" /\ v = "rate" /\ rest = <<"save">>
        \/ o = "on" /\ v = "up" /\ rest = <<"save">>
        \/ o = "off" /\ v = "down" /\ rest = <<"save">>
    <3>1. o \in {"deny", "default", "home", "limit", "on", "off"}
      BY OptionsOfTopics DEF Control
    <3>2. CASE o = "default"
      <4>1. w.todo \in {<<"unset", "permit", "save">>, <<"permit", "save">>}
        BY <1>8, <3>2, SmallTuples DEF Remaining
      <4>2. CASE w.todo = <<"unset", "permit", "save">>
        BY <3>2, <4>2, SmallTuples
      <4>3. CASE w.todo = <<"permit", "save">>
        BY <3>2, <4>3, SmallTuples
      <4> QED
        BY <4>1, <4>2, <4>3
    <3>3. CASE o = "home"
      <4>1. w.todo \in {<<"permit", "assign", "save">>, <<"assign", "save">>}
        BY <1>8, <3>3, SmallTuples DEF Remaining
      <4>2. CASE w.todo = <<"permit", "assign", "save">>
        BY <3>3, <4>2, SmallTuples
      <4>3. CASE w.todo = <<"assign", "save">>
        BY <3>3, <4>3, SmallTuples
      <4> QED
        BY <4>1, <4>2, <4>3
    <3>4. CASE o \in {"deny", "limit", "on", "off"}
      <4>1. w.todo = <<CASE o = "deny" -> "deny" [] o = "limit" -> "rate"
                         [] o = "on" -> "up" [] o = "off" -> "down", "save">>
        BY <1>8, <3>4, SmallTuples DEF Remaining
      <4> QED
        BY <3>4, <4>1, SmallTuples
    <3> QED
      BY <3>1, <3>2, <3>3, <3>4
  <2> HIDE DEF rest
  <2>2. n.todo = rest /\ n.want = w.want
    OBVIOUS
  <2>3. CASE rest # <<"save">>
    <3>1. rest = <<"permit", "save">> => y.policy = NoPolicy
      BY <1>1, <2>1 DEF Apply
    <3>2. rest = <<"assign", "save">> => y.access = "permit"
      BY <1>1, <2>1 DEF Apply
    <3> HIDE DEF n, y
    <3>3. Established(n, y)
      BY <2>2, <2>3, <3>1, <3>2 DEF Established
    <3> QED
      BY <3>3 DEF n, rest
  <2>4. CASE rest = <<"save">>
    <3>1. o = "default" => x.policy = NoPolicy /\ v = "permit"
      BY <1>8, <2>1, <2>4 DEF Established
    <3>2. o = "home" => x.access = "permit" /\ v = "assign"
      BY <1>8, <2>1, <2>4 DEF Established
    <3>3. Satisfies(y, w.want)
      BY <1>1, <2>1, <2>4, <3>1, <3>2 DEF Satisfies, Apply, Option, NoPolicy
    <3>4. rest # <<"permit", "save">> /\ rest # <<"assign", "save">>
      BY <2>4, SmallTuples
    <3> HIDE DEF n, y
    <3>5. Established(n, y)
      BY <2>2, <2>4, <3>3, <3>4 DEF Established
    <3> QED
      BY <3>5 DEF n, rest
  <2> QED
    BY <2>3, <2>4
<1> QED
  BY <1>3, <1>4, <1>7, <1>8

-----------------------------------------------------------------------------
(***************************************************************************)
(* What was reported is durable.  A call that is under way makes no        *)
(* promise; before its save, the router runs what it asked for.            *)
(***************************************************************************)
RouterType ==
    /\ up \in BOOLEAN
    /\ conf \in Config
    /\ saved \in Config
    /\ write \in [Control -> Write]
    /\ writes \in 0 .. MaxWrites
    /\ others \in 0 .. MaxOthers
    /\ promise \in [Control -> Request]

RunningCall(c, w) ==
    /\ w.want.option \in Topic(c)
    /\ w.todo \in Remaining(w.want)
    /\ promise[c] = Nothing
    /\ up /\ w.alone => Established(w, conf)

Running == \A c \in Control : ~Idle(c) => RunningCall(c, write[c])

Owned == \A c \in Control : promise[c].option \in Topic(c) \cup {"nothing"}

WriteInv == RouterType /\ Running /\ Owned /\ ReportedIsDurable

LEMMA BoundTypes ==
    /\ Options \subseteq {"default", "deny", "home"}
    /\ Limits \subseteq Nat
    /\ PendingPolls \in Nat /\ PendingPolls > 0
    /\ MaxWrites \in Nat /\ MaxOthers \in Nat
BY WriteAssumption DEF WriteAssumption

LEMMA RequestTypes ==
    ASSUME NEW c \in Control, NEW r \in Requests(c)
    PROVE  r \in Request /\ r.option \in Topic(c)
<1>1. CASE c = "policy"
  BY <1>1, BoundTypes DEF Requests, Request, Topic
<1>2. CASE c = "limit"
  BY <1>2, BoundTypes DEF Requests, Request, Topic
<1>3. CASE c = "switch"
  BY <1>3, BoundTypes DEF Requests, Request, Topic
<1> QED
  BY <1>1, <1>2, <1>3 DEF Control

LEMMA NothingTypes ==
    /\ Nothing \in Request /\ Nothing.option = "nothing"
    /\ Free \in Write
    /\ \A x : Satisfies(x, Nothing)
<1>1. Nothing \in Request /\ Nothing.option = "nothing"
  BY DEF Nothing, Request
<1>2. Free \in Write
  BY <1>1 DEF Free, Write
<1> QED
  BY <1>1, <1>2 DEF Satisfies

\* What a step of call c leaves of the router's part, but for c itself.
Kept(c) ==
    /\ conf' \in Config /\ saved' \in Config /\ up' = up
    /\ writes' = writes /\ others' = others
    /\ \A d \in Control : Satisfies(conf', promise[d])
                          /\ Satisfies(saved', promise[d])
    /\ \A d \in Control \ {c} :
          ~Idle(d) /\ up /\ write[d].alone => Established(write[d], conf')

LEMMA ExecutedKeeps ==
    ASSUME WriteInv, NEW c \in Control, ~Idle(c), Executed(c), UNCHANGED bounds
    PROVE  /\ Kept(c)
           /\ Head(write[c].todo) = "save" => conf' = conf /\ saved' = conf
           /\ Len(write[c].todo) # 1 /\ write[c].alone =>
                Established([write[c] EXCEPT !.todo = Tail(@)], conf')
<1> DEFINE w == write[c]
           v == Head(w.todo)
<1>1. /\ w \in Write /\ w.want \in Request
      /\ conf \in Config /\ saved \in Config
      /\ w.want.option \in Topic(c) /\ w.todo \in Remaining(w.want)
      /\ promise[c] = Nothing /\ up
      /\ w.alone => Established(w, conf)
  BY DEF WriteInv, RouterType, Running, RunningCall, Executed, Write
<1>2. conf' = Apply(v, w.want, conf) /\ up' = up
      /\ saved' = IF v = "save" THEN conf ELSE saved
  BY DEF Executed
<1>3. /\ conf' \in Config
      /\ \A d \in Control \ {c} : Same(d, conf, conf')
      /\ v = "save" => conf' = conf
      /\ Len(w.todo) # 1 /\ Established(w, conf) =>
           Established([w EXCEPT !.todo = Tail(w.todo)], conf')
  <2> HIDE DEF w
  <2> QED
    BY <1>1, <1>2, CommandApplied
<1>4. ASSUME NEW d \in Control
      PROVE  Satisfies(conf', promise[d]) /\ Satisfies(saved', promise[d])
  <2>1. /\ Satisfies(conf, promise[d]) /\ Satisfies(saved, promise[d])
        /\ promise[d].option \in Topic(d) \cup {"nothing"}
    BY DEF WriteInv, ReportedIsDurable, Owned
  <2>2. Satisfies(conf', promise[d])
    <3>1. CASE d = c
      BY <3>1, <1>1, NothingTypes
    <3>2. CASE d # c
      BY <3>2, <1>1, <1>3, <2>1, SameSatisfies
    <3> QED
      BY <3>1, <3>2
  <2> QED
    BY <1>2, <2>1, <2>2
<1>5. ASSUME NEW d \in Control \ {c}, ~Idle(d), write[d].alone
      PROVE  Established(write[d], conf')
  <2>1. RunningCall(d, write[d])
    BY <1>5 DEF WriteInv, Running
  <2> QED
    BY <1>1, <1>3, <1>5, <2>1, SameEstablished DEF RunningCall
<1>6. Kept(c)
  BY <1>1, <1>2, <1>3, <1>4, <1>5 DEF Kept, bounds
<1> QED
  BY <1>1, <1>2, <1>3, <1>6

LEMMA UnchangedKeeps ==
    ASSUME WriteInv, NEW c \in Control, UNCHANGED router, UNCHANGED bounds
    PROVE  Kept(c)
BY DEF WriteInv, RouterType, Running, RunningCall, ReportedIsDurable, Kept,
   router, bounds

\* The call of c is over, and promises p.
LEMMA CallOver ==
    ASSUME WriteInv, NEW c \in Control, Kept(c),
           write' = [write EXCEPT ![c] = Free],
           NEW p \in Request, promise' = [promise EXCEPT ![c] = p],
           p.option \in Topic(c) \cup {"nothing"},
           Satisfies(conf', p), Satisfies(saved', p)
    PROVE  WriteInv'
<1>1. RouterType'
  BY NothingTypes DEF WriteInv, RouterType, Kept
<1>2. \A d \in Control \ {c} : write'[d] = write[d] /\ promise'[d] = promise[d]
  BY DEF WriteInv, RouterType
<1>3. write'[c] = Free /\ promise'[c] = p
  BY DEF WriteInv, RouterType
<1>4. Running'
  BY <1>2, <1>3 DEF WriteInv, Running, RunningCall, Idle, Kept
<1>5. Owned'
  BY <1>2, <1>3 DEF WriteInv, Owned
<1>6. ReportedIsDurable'
  BY <1>2, <1>3 DEF ReportedIsDurable, Kept
<1> QED
  BY <1>1, <1>4, <1>5, <1>6 DEF WriteInv

LEMMA ReturnsInv ==
    ASSUME WriteInv, NEW c \in Control, ~Idle(c), Kept(c),
           NEW kept \in BOOLEAN, Returns(c, kept),
           kept /\ write[c].alone =>
               Satisfies(conf', write[c].want) /\ Satisfies(saved', write[c].want)
    PROVE  WriteInv'
<1> DEFINE p == IF kept /\ write[c].alone THEN write[c].want ELSE Nothing
<1>1. /\ write' = [write EXCEPT ![c] = Free]
      /\ promise' = [promise EXCEPT ![c] = p]
  BY DEF Returns
<1>2. write[c].want \in Request /\ write[c].want.option \in Topic(c)
  BY DEF WriteInv, RouterType, Running, RunningCall, Write
<1>3. /\ p \in Request /\ p.option \in Topic(c) \cup {"nothing"}
      /\ Satisfies(conf', p) /\ Satisfies(saved', p)
  BY <1>2, NothingTypes
<1> HIDE DEF p
<1> QED
  BY <1>1, <1>3, CallOver

LEMMA SendInv ==
    ASSUME WriteInv, NEW c \in Control, Send(c)
    PROVE  WriteInv'
<1> DEFINE w == write[c]
<1>1. ~Idle(c) /\ Executed(c) /\ UNCHANGED bounds
  BY DEF Send
<1>2. /\ w \in Write /\ w.want \in Request
      /\ w.want.option \in Topic(c) /\ w.todo \in Remaining(w.want)
      /\ promise[c] = Nothing /\ up
      /\ w.alone => Established(w, conf)
  BY <1>1 DEF WriteInv, RouterType, Running, RunningCall, Executed, Write
<1>3. /\ Kept(c)
      /\ Head(w.todo) = "save" => conf' = conf /\ saved' = conf
      /\ Len(w.todo) # 1 /\ w.alone =>
           Established([w EXCEPT !.todo = Tail(@)], conf')
  BY <1>1, ExecutedKeeps
<1>4. /\ w.todo \in Seq(Verb) /\ w.todo # <<>>
      /\ Len(w.todo) = 1 <=> w.todo = <<"save">>
      /\ Len(w.todo) # 1 => Tail(w.todo) \in Remaining(w.want)
  <2> HIDE DEF w
  <2> QED
    BY <1>2, CommandTypes
<1>5. CASE Len(w.todo) = 1
  <2>1. Returns(c, TRUE)
    BY <1>5 DEF Send
  <2>2. w.todo = <<"save">> /\ Head(w.todo) = "save"
    BY <1>4, <1>5, SmallTuples
  <2>3. w.alone => Satisfies(conf', w.want) /\ Satisfies(saved', w.want)
    BY <1>2, <1>3, <2>2 DEF Established
  <2> QED
    BY <1>1, <1>3, <2>1, <2>3, ReturnsInv
<1>6. CASE Len(w.todo) # 1
  <2> DEFINE n == [w EXCEPT !.todo = Tail(@)]
  <2>1. write' = [write EXCEPT ![c] = n] /\ promise' = promise
    BY <1>6 DEF Send, history
  <2>2. Tail(w.todo) \in Seq(Verb)
    BY <1>4
  <2>3. /\ n \in Write /\ n.todo = Tail(w.todo) /\ n.want = w.want
        /\ n.alone = w.alone
    BY <1>2, <2>2 DEF Write
  <2>4. w.alone => Established(n, conf')
    BY <1>3, <1>6
  <2> HIDE DEF n, w
  <2>5. RouterType'
    BY <1>3, <2>1, <2>3 DEF WriteInv, RouterType, Kept
  <2>6. \A d \in Control \ {c} : write'[d] = write[d]
    BY <2>1 DEF WriteInv, RouterType
  <2>7. write'[c] = n
    BY <2>1 DEF WriteInv, RouterType
  <2>8. RunningCall(c, write[c])'
    BY <1>2, <1>3, <1>4, <1>6, <2>1, <2>3, <2>4, <2>7 DEF RunningCall, Kept
  <2>9. Running'
    BY <1>3, <2>1, <2>6, <2>8 DEF WriteInv, Running, RunningCall, Idle, Kept
  <2>10. Owned' /\ ReportedIsDurable'
    BY <1>3, <2>1 DEF WriteInv, Owned, ReportedIsDurable, Kept
  <2> QED
    BY <2>5, <2>9, <2>10 DEF WriteInv
<1> QED
  BY <1>5, <1>6

LEMMA SendFailsInv ==
    ASSUME WriteInv, NEW c \in Control, SendFails(c)
    PROVE  WriteInv'
<1>1. ~Idle(c) /\ UNCHANGED bounds
  BY DEF SendFails
<1>2. Kept(c)
  BY <1>1, ExecutedKeeps, UnchangedKeeps DEF SendFails
<1>3. CASE BestEffort(c)
  BY <1>1, <1>2, <1>3, ReturnsInv DEF SendFails
<1>4. CASE ~BestEffort(c)
  <2>1. /\ write' = [write EXCEPT ![c] = Free]
        /\ promise' = [promise EXCEPT ![c] = promise[c]]
    BY <1>4 DEF SendFails, history, WriteInv, RouterType
  <2>2. /\ promise[c] \in Request
        /\ promise[c].option \in Topic(c) \cup {"nothing"}
        /\ Satisfies(conf', promise[c]) /\ Satisfies(saved', promise[c])
    BY <1>2 DEF WriteInv, RouterType, Owned, Kept
  <2> QED
    BY <1>2, <2>1, <2>2, CallOver
<1> QED
  BY <1>3, <1>4

LEMMA CallInv ==
    ASSUME WriteInv, NEW c \in Control, Call(c)
    PROVE  WriteInv'
<1>1. PICK r \in Requests(c) :
        write' = [write EXCEPT ![c] = [todo |-> Commands(r), want |-> r,
                                       alone |-> TRUE]]
  BY DEF Call
<1> DEFINE n == [todo |-> Commands(r), want |-> r, alone |-> TRUE]
<1>2. r \in Request /\ r.option \in Topic(c)
  BY RequestTypes
<1>3. /\ promise' = [promise EXCEPT ![c] = Nothing]
      /\ UNCHANGED router /\ others' = others
      /\ writes' = writes + 1 /\ writes < MaxWrites
  BY DEF Call
<1>4. conf \in Config /\ saved \in Config
  BY DEF WriteInv, RouterType
<1>5. /\ n.todo \in Remaining(n.want) /\ n.want = r
      /\ n.todo \in Seq(Verb)
      /\ Established(n, conf)
  BY <1>2, <1>4, CommandsStart, CommandTypes
<1>6. n \in Write
  BY <1>2, <1>5 DEF Write
<1>7. write' = [write EXCEPT ![c] = n]
  BY <1>1
<1> HIDE DEF n
<1>8. RouterType'
  BY <1>3, <1>6, <1>7, NothingTypes, BoundTypes DEF WriteInv, RouterType, router
<1>9. \A d \in Control \ {c} : write'[d] = write[d] /\ promise'[d] = promise[d]
  BY <1>3, <1>7 DEF WriteInv, RouterType
<1>10. write'[c] = n /\ promise'[c] = Nothing
  BY <1>3, <1>7 DEF WriteInv, RouterType
<1>11. Running'
  <2>1. RunningCall(c, write[c])'
    BY <1>2, <1>3, <1>5, <1>10 DEF RunningCall, router
  <2>2. \A d \in Control \ {c} : ~Idle(d)' => RunningCall(d, write[d])'
    BY <1>3, <1>9 DEF WriteInv, Running, RunningCall, Idle, router
  <2> QED
    BY <2>1, <2>2 DEF Running
<1>12. Owned' /\ ReportedIsDurable'
  BY <1>3, <1>9, <1>10, NothingTypes DEF WriteInv, Owned, ReportedIsDurable,
     router
<1> QED
  BY <1>8, <1>11, <1>12 DEF WriteInv

\* All of a request but its save.
LEMMA OutcomeApplied ==
    ASSUME NEW c \in Control, NEW r \in Request, r.option \in Topic(c),
           conf \in Config
    PROVE  /\ Outcome(r) \in Config
           /\ \A d \in Control \ {c} : Same(d, conf, Outcome(r))
<1>1. /\ r.kbps \in Nat
      /\ conf \in [access : {"permit", "deny"}, policy : {NoPolicy, "home"},
                   rate : Nat, on : BOOLEAN]
  BY DEF Request, Config
<1>2. CASE c = "policy"
  <2>1. r.option \in {"deny", "default", "home"}
    BY <1>2, OptionsOfTopics
  <2>2. /\ r.option = "deny" => Outcome(r) = [conf EXCEPT !.access = "deny"]
        /\ r.option = "default" =>
             Outcome(r) = [[conf EXCEPT !.policy = NoPolicy]
                             EXCEPT !.access = "permit"]
        /\ r.option = "home" =>
             Outcome(r) = [[conf EXCEPT !.access = "permit"]
                             EXCEPT !.policy = "home"]
    BY <2>1 DEF Outcome, Commands, Apply
  <2>3. /\ Outcome(r) \in Config
        /\ Outcome(r).rate = conf.rate /\ Outcome(r).on = conf.on
    BY <1>1, <2>1, <2>2 DEF Config
  <2> QED
    BY <1>2, <2>3 DEF Control, Same
<1>3. CASE c = "limit"
  <2>1. r.option = "limit"
    BY <1>3, OptionsOfTopics
  <2>2. Outcome(r) = [conf EXCEPT !.rate = r.kbps]
    BY <2>1 DEF Outcome, Commands, Apply
  <2> QED
    BY <1>1, <1>3, <2>2 DEF Control, Same, Config
<1>4. CASE c = "switch"
  <2>1. r.option \in {"on", "off"}
    BY <1>4, OptionsOfTopics
  <2>2. Outcome(r) = [conf EXCEPT !.on = (r.option = "on")]
    BY <2>1 DEF Outcome, Commands, SwitchCommands, Apply
  <2> QED
    BY <1>1, <1>4, <2>2 DEF Control, Same, Config
<1> QED
  BY <1>2, <1>3, <1>4 DEF Control

LEMMA OtherInv ==
    ASSUME WriteInv, NEW c \in Control, Other(c)
    PROVE  WriteInv'
<1>1. PICK r \in Requests(c) : conf' = Outcome(r)
  BY DEF Other
<1>2. /\ promise' = [promise EXCEPT ![c] = Nothing]
      /\ write' = [write EXCEPT ![c].alone = FALSE]
      /\ saved' \in {saved, conf'} /\ up' = up
      /\ writes' = writes /\ others' = others + 1 /\ others < MaxOthers
  BY DEF Other, OneMore
<1>3. conf \in Config /\ saved \in Config
  BY DEF WriteInv, RouterType
<1>4. conf' \in Config /\ \A d \in Control \ {c} : Same(d, conf, conf')
  BY <1>1, <1>3, RequestTypes, OutcomeApplied
<1> DEFINE n == [write[c] EXCEPT !.alone = FALSE]
<1>5. /\ n \in Write /\ n.todo = write[c].todo /\ n.want = write[c].want
      /\ n.alone = FALSE
      /\ Idle(c) => n = Free
  <2>1. write[c] \in Write
    BY DEF WriteInv, RouterType
  <2>2. [Free EXCEPT !.alone = FALSE] = Free
    <3>1. Free \in Write /\ Free.alone = FALSE
      BY NothingTypes DEF Free
    <3> QED
      BY <3>1 DEF Write
  <2>3. Idle(c) => n = Free
    BY <2>2 DEF Idle
  <2> QED
    BY <2>1, <2>3 DEF Write
<1>6. write' = [write EXCEPT ![c] = n]
  BY <1>2
<1> HIDE DEF n
<1>7. RouterType'
  <2>1. others' \in 0 .. MaxOthers
    BY <1>2, BoundTypes DEF WriteInv, RouterType
  <2>2. write' \in [Control -> Write] /\ promise' \in [Control -> Request]
    BY <1>2, <1>5, <1>6, NothingTypes DEF WriteInv, RouterType
  <2> QED
    BY <1>2, <1>3, <1>4, <2>1, <2>2 DEF WriteInv, RouterType
<1>8. \A d \in Control \ {c} : write'[d] = write[d] /\ promise'[d] = promise[d]
  BY <1>2, <1>6 DEF WriteInv, RouterType
<1>9. write'[c] = n /\ promise'[c] = Nothing
  BY <1>2, <1>6 DEF WriteInv, RouterType
<1>10. Running'
  <2>1. ASSUME ~Idle(c)' PROVE RunningCall(c, write[c])'
    <3>1. ~Idle(c)
      BY <1>5, <1>9, <2>1 DEF Idle
    <3> QED
      BY <1>5, <1>9, <3>1 DEF WriteInv, Running, RunningCall
  <2>2. ASSUME NEW d \in Control \ {c}, ~Idle(d)'
        PROVE  RunningCall(d, write[d])'
    <3>1. RunningCall(d, write[d])
      BY <1>8, <2>2 DEF WriteInv, Running, Idle
    <3>2. up /\ write[d].alone => Established(write[d], conf')
      BY <1>3, <1>4, <3>1, SameEstablished DEF RunningCall
    <3> QED
      BY <1>2, <1>8, <3>1, <3>2 DEF RunningCall
  <2> QED
    BY <2>1, <2>2 DEF Running
<1>11. Owned'
  BY <1>8, <1>9, NothingTypes DEF WriteInv, Owned
<1>12. ReportedIsDurable'
  <2>1. ASSUME NEW d \in Control \ {c}
        PROVE  Satisfies(conf', promise[d]) /\ Satisfies(saved', promise[d])
    <3>1. /\ Satisfies(conf, promise[d]) /\ Satisfies(saved, promise[d])
          /\ promise[d].option \in Topic(d) \cup {"nothing"}
      BY DEF WriteInv, ReportedIsDurable, Owned
    <3>2. Satisfies(conf', promise[d])
      BY <1>3, <1>4, <3>1, SameSatisfies
    <3> QED
      BY <1>2, <3>1, <3>2
  <2> QED
    BY <1>8, <1>9, <2>1, NothingTypes DEF ReportedIsDurable
<1> QED
  BY <1>7, <1>10, <1>11, <1>12 DEF WriteInv

LEMMA InitWrite == Init => WriteInv
<1> SUFFICES ASSUME Init PROVE WriteInv
  OBVIOUS
<1>1. /\ \A c \in Control : write[c] = Free /\ promise[c] = Nothing
      /\ write = [c \in Control |-> Free]
      /\ promise = [c \in Control |-> Nothing]
  BY DEF Init
<1>2. Factory \in Config
  BY DEF Factory, Config
<1>3. RouterType
  BY <1>1, <1>2, NothingTypes, BoundTypes DEF Init, RouterType
<1> QED
  BY <1>1, <1>3, NothingTypes
  DEF WriteInv, Running, Owned, ReportedIsDurable, Idle

LEMMA NextWrite == WriteInv /\ [Next]_vars => WriteInv'
<1> SUFFICES ASSUME WriteInv, [Next]_vars PROVE WriteInv'
  OBVIOUS
<1>1. ASSUME NEW c \in Control, Call(c) \/ Other(c) PROVE WriteInv'
  BY <1>1, CallInv, OtherInv
<1>2. CASE CallStep
  BY <1>2, SendInv, SendFailsInv DEF CallStep
<1>3. CASE Down
  <2>1. /\ up' = FALSE /\ conf' = saved /\ saved' = saved
        /\ write' = write /\ promise' = promise /\ writes' = writes
        /\ others' = others + 1 /\ others < MaxOthers
    BY <1>3 DEF Down, OneMore, history
  <2>2. others' \in 0 .. MaxOthers
    BY <2>1, BoundTypes DEF WriteInv, RouterType
  <2>3. RouterType'
    BY <2>1, <2>2 DEF WriteInv, RouterType
  <2>4. Running' /\ Owned' /\ ReportedIsDurable'
    BY <2>1 DEF WriteInv, Running, RunningCall, Owned, ReportedIsDurable, Idle
  <2> QED
    BY <2>3, <2>4 DEF WriteInv
<1>4. CASE Up
  BY <1>4 DEF Up, bounds, history, WriteInv, RouterType, Running, Owned,
     ReportedIsDurable, Idle
\* The steps of a refresh, and a reload, leave the router and the calls alone.
<1>5. ASSUME UNCHANGED <<router, write, promise>>, writes' = writes,
             others' \in 0 .. MaxOthers
      PROVE  WriteInv'
  BY <1>5 DEF router, WriteInv, RouterType, Running, RunningCall, Owned,
     ReportedIsDurable, Idle
<1>6. CASE TickStep
  BY <1>5, <1>6 DEF TickStep, Fetch, Publish, TickFails, bounds, history,
     WriteInv, RouterType
<1>7. CASE Reload
  <2>1. others' \in 0 .. MaxOthers
    BY <1>7, BoundTypes DEF Reload, OneMore, WriteInv, RouterType
  <2> QED
    BY <1>5, <1>7, <2>1 DEF Reload, OneMore
<1>8. CASE UNCHANGED vars
  BY <1>5, <1>8 DEF vars, bounds, history, WriteInv, RouterType
<1> QED
  BY <1>1, <1>2, <1>3, <1>4, <1>6, <1>7, <1>8 DEF Next

-----------------------------------------------------------------------------
(***************************************************************************)
(* What is shown.  The fingerprint an entity has kept agrees with the      *)
(* payload in its availability and in what the last update brought.        *)
(***************************************************************************)
TickType == [got : SUBSET Item, live : BOOLEAN, read : Payload]

ShowType ==
    /\ tick \in TickType
    /\ ok \in BOOLEAN
    /\ data \in Payload
    /\ limit \in Nat
    /\ pending \in 0 .. PendingPolls
    /\ shown \in [policy : {"default", "deny", "home", "hidden"},
                  limit : Nat \cup {Hidden}, switch : {"on", "off", "hidden"}]
    /\ told \in [option : {"default", "deny", "home"}, rate : Nat \cup {Unknown}]
    /\ patch \in {"default", "deny", "home", "none"}
    /\ held \in Nat \cup {Hidden}

Compared ==
    /\ seen.policy.available = ClientShown(data, ok)
    /\ seen.limit.available = ClientShown(data, ok)
    /\ seen.switch.available = ok

Tracked ==
    /\ told.option = Option(seen.policy.print)
    /\ told.rate = data.rate
    /\ seen.limit.print = data.rate
    /\ shown.policy \in {"hidden", told.option, patch}
    /\ pending > 0 => held = limit

ShowInv ==
    ShowType /\ Compared /\ Tracked /\ HiddenWhenStale /\ SettingsExplained

LEMMA ShownTypes ==
    ASSUME NEW d \in Payload, NEW good \in BOOLEAN, NEW kbps \in Nat,
           NEW left
    PROVE  /\ Option(d) \in {"default", "deny", "home"}
           /\ OptionShown(d, good) \in {"hidden", Option(d)}
           /\ OptionShown(d, good) = "hidden" <=> ~ClientShown(d, good)
           /\ LimitShown(d, good, kbps, left) \in Nat \cup {Hidden}
           /\ LimitShown(d, good, kbps, left) = Hidden
                <=> ~ClientShown(d, good)
           /\ SwitchShown(d, good) \in {"on", "off", "hidden"}
           /\ SwitchShown(d, good) = "hidden" <=> ~good
<1>1. Option(d) \in {"default", "deny", "home"}
  BY DEF Option
<1>2. Native(d, kbps, left) \in Nat /\ Hidden \notin Nat
  BY DEF Native, Payload, Hidden, Unknown
<1>3. ClientShown(d, good) \in BOOLEAN
  BY DEF ClientShown, Payload
<1> QED
  BY <1>1, <1>2, <1>3 DEF OptionShown, LimitShown, SwitchShown

\* An update of the three entities, whose state is written only if the
\* fingerprint or the availability has changed.
LEMMA UpdateShows ==
    ASSUME ShowInv, NEW d \in Payload, NEW good \in BOOLEAN,
           Update(d, good), data' = d, ok' = good,
           tick' = NoTick, NoTick \in TickType
    PROVE  ShowInv'
<1>1. /\ ShowType /\ Compared /\ Tracked
      /\ HiddenWhenStale /\ SettingsExplained
  BY DEF ShowInv
<1>2. limit' = limit /\ limit \in Nat /\ pending' = Counted(d)
  BY <1>1 DEF Update, ShowType
<1>3. pending' \in 0 .. PendingPolls
  BY <1>1, <1>2, BoundTypes DEF Counted, ShowType
<1>4. /\ seen'.policy = Key(PolicyPrint(d), ClientShown(d, good))
      /\ seen'.limit = Key(d.rate, ClientShown(d, good))
      /\ seen'.switch = Key(d.on, good)
  BY DEF Update, Keys
<1>5. /\ shown'.policy = IF seen'.policy = seen.policy THEN shown.policy
                         ELSE OptionShown(d, good)
      /\ shown'.limit = IF seen'.limit = seen.limit THEN shown.limit
                        ELSE LimitShown(d, good, limit, pending')
      /\ shown'.switch = IF seen'.switch = seen.switch THEN shown.switch
                         ELSE SwitchShown(d, good)
      /\ shown' = [policy |-> shown'.policy, limit |-> shown'.limit,
                   switch |-> shown'.switch]
  BY DEF Update
<1>6. Compared'
  BY <1>4 DEF Compared, Key
<1>7. /\ seen'.policy = seen.policy =>
             /\ ClientShown(data, ok) = ClientShown(d, good)
             /\ Option(seen.policy.print) = Option(d)
      /\ seen'.limit = seen.limit =>
             /\ ClientShown(data, ok) = ClientShown(d, good)
             /\ seen.limit.print = d.rate
      /\ seen'.switch = seen.switch => ok = good
  BY <1>1, <1>4 DEF Compared, Key, PolicyPrint, Option
<1>8. HiddenWhenStale'
  BY <1>1, <1>2, <1>5, <1>7, ShownTypes DEF HiddenWhenStale
<1>a. /\ told' = [option |-> Option(d), rate |-> d.rate]
      /\ patch' = IF Option(d) = told.option THEN patch ELSE "none"
      /\ held' = IF pending' > 0 \/ d.rate = told.rate THEN held ELSE Hidden
  BY DEF Update
<1>b. Option(seen'.policy.print) = Option(d) /\ seen'.limit.print = d.rate
  BY <1>4 DEF Key, PolicyPrint, Option
<1>9. shown'.policy \in {"hidden", Option(d), patch'}
  <2>1. CASE seen'.policy = seen.policy
    BY <1>1, <1>5, <1>7, <1>a, <2>1 DEF Tracked
  <2>2. CASE seen'.policy # seen.policy
    BY <1>5, <2>2, ShownTypes
  <2> QED
    BY <2>1, <2>2
<1>c. pending' > 0 => held' = limit'
  BY <1>1, <1>2, <1>3, <1>a, BoundTypes DEF Counted, Tracked, ShowType
<1>10. Tracked'
  BY <1>9, <1>a, <1>b, <1>c DEF Tracked
<1>d. shown'.limit \in {Hidden, Native(d, limit, pending'), held'}
  <2>1. CASE seen'.limit = seen.limit
    <3>1. shown'.limit = shown.limit /\ held' = held /\ d.rate = data.rate
      BY <1>1, <1>5, <1>7, <1>a, <2>1 DEF Tracked
    <3>2. shown.limit \in {Hidden, Native(data, limit, pending), held}
      BY <1>1 DEF SettingsExplained
    <3>3. CASE Native(d, limit, pending') = Native(data, limit, pending)
      BY <3>1, <3>2, <3>3
    <3>4. CASE Native(d, limit, pending') # Native(data, limit, pending)
      <4>1. pending > 0
        BY <1>1, <1>2, <3>1, <3>4 DEF Native, Counted, ShowType
      <4>2. Native(data, limit, pending) = held
        BY <1>1, <4>1 DEF Native, Tracked
      <4> QED
        BY <3>1, <3>2, <4>2
    <3> QED
      BY <3>3, <3>4
  <2>2. CASE seen'.limit # seen.limit
    BY <1>5, <2>2 DEF LimitShown
  <2> QED
    BY <2>1, <2>2
<1>e. SettingsExplained'
  BY <1>2, <1>9, <1>d DEF SettingsExplained
<1>11. ShowType'
  <2>1. told' \in [option : {"default", "deny", "home"},
                   rate : Nat \cup {Unknown}]
    BY <1>a, ShownTypes DEF Payload
  <2>2. /\ patch' \in {"default", "deny", "home", "none"}
        /\ held' \in Nat \cup {Hidden}
    BY <1>1, <1>a DEF ShowType
  <2> QED
    BY <1>1, <1>2, <1>3, <1>5, <2>1, <2>2, ShownTypes DEF ShowType
<1> QED
  BY <1>6, <1>8, <1>10, <1>e, <1>11 DEF ShowInv

LEMMA PayloadTypes ==
    /\ Reported \in BOOLEAN
    /\ Startup \in Payload /\ ClientShown(Startup, TRUE)
    /\ NoTick \in TickType
    /\ conf \in Config => Current \in Payload /\ ClientShown(Current, TRUE)
<1>1. Reported \in BOOLEAN
  BY WriteAssumption DEF WriteAssumption
<1>2. Startup \in Payload /\ ClientShown(Startup, TRUE)
  BY <1>1 DEF Startup, Factory, Payload, ClientShown
<1>3. NoTick \in TickType
  BY <1>2 DEF NoTick, TickType
<1>4. conf \in Config => Current \in Payload /\ ClientShown(Current, TRUE)
  BY <1>1 DEF Current, Config, Payload, ClientShown
<1> QED
  BY <1>1, <1>2, <1>3, <1>4

ShownType == [policy : {"default", "deny", "home", "hidden"},
              limit : Nat \cup {Hidden}, switch : {"on", "off", "hidden"}]

\* New entities, after a start or a reload, are available and publish their
\* state.
LEMMA FreshShows ==
    ASSUME NEW d \in Payload, ClientShown(d, TRUE), NEW kbps \in Nat
    PROVE  /\ ShownOf(d, TRUE, kbps) \in ShownType
           /\ ShownOf(d, TRUE, kbps).policy = Option(d)
           /\ Option(d) # "hidden"
           /\ ShownOf(d, TRUE, kbps).limit # Hidden
           /\ ShownOf(d, TRUE, kbps).switch # "hidden"
           /\ Fresh(Keys(d, TRUE)).policy.available = TRUE
           /\ Fresh(Keys(d, TRUE)).limit.available = TRUE
           /\ Fresh(Keys(d, TRUE)).switch.available = TRUE
           /\ Fresh(Keys(d, TRUE)).policy.print = PolicyPrint(d)
           /\ Fresh(Keys(d, TRUE)).limit.print = d.rate
           /\ ShownOf(d, TRUE, kbps).limit = Native(d, kbps, 0)
<1>1. /\ OptionShown(d, TRUE) = Option(d)
      /\ Option(d) \in {"default", "deny", "home"}
      /\ LimitShown(d, TRUE, kbps, 0) \in Nat
      /\ LimitShown(d, TRUE, kbps, 0) = Native(d, kbps, 0)
      /\ SwitchShown(d, TRUE) \in {"on", "off"}
  BY DEF OptionShown, Option, LimitShown, Native, SwitchShown, Payload, Unknown
<1>2. Hidden \notin Nat
  BY DEF Hidden
<1>3. /\ ShownOf(d, TRUE, kbps) \in ShownType
      /\ ShownOf(d, TRUE, kbps).policy = Option(d)
      /\ ShownOf(d, TRUE, kbps).limit # Hidden
      /\ ShownOf(d, TRUE, kbps).limit = Native(d, kbps, 0)
      /\ ShownOf(d, TRUE, kbps).switch # "hidden"
  BY <1>1, <1>2 DEF ShownOf, ShownType
<1>4. /\ Keys(d, TRUE).policy = Key(PolicyPrint(d), TRUE)
      /\ Keys(d, TRUE).limit = Key(d.rate, TRUE)
      /\ Keys(d, TRUE).switch = Key(d.on, TRUE)
  <2>1. ClientShown(d, TRUE) = TRUE
    BY DEF ClientShown, Payload
  <2> QED
    BY <2>1 DEF Keys
<1>5. /\ Fresh(Keys(d, TRUE)).policy
             = [Keys(d, TRUE).policy EXCEPT !.known = FALSE]
      /\ Fresh(Keys(d, TRUE)).limit
             = [Keys(d, TRUE).limit EXCEPT !.known = FALSE]
      /\ Fresh(Keys(d, TRUE)).switch
             = [Keys(d, TRUE).switch EXCEPT !.known = FALSE]
  BY DEF Fresh, Control
<1>6. /\ [Key(PolicyPrint(d), TRUE) EXCEPT !.known = FALSE].available = TRUE
      /\ [Key(PolicyPrint(d), TRUE) EXCEPT !.known = FALSE].print
            = PolicyPrint(d)
  BY DEF Key
<1>a. /\ [Key(d.rate, TRUE) EXCEPT !.known = FALSE].available = TRUE
      /\ [Key(d.rate, TRUE) EXCEPT !.known = FALSE].print = d.rate
  BY DEF Key
<1>b. [Key(d.on, TRUE) EXCEPT !.known = FALSE].available = TRUE
  BY DEF Key
<1>7. /\ Fresh(Keys(d, TRUE)).policy.available = TRUE
      /\ Fresh(Keys(d, TRUE)).policy.print = PolicyPrint(d)
  BY <1>4, <1>5, <1>6
<1>8. /\ Fresh(Keys(d, TRUE)).limit.available = TRUE
      /\ Fresh(Keys(d, TRUE)).limit.print = d.rate
  BY <1>4, <1>5, <1>a
<1>9. Fresh(Keys(d, TRUE)).switch.available = TRUE
  BY <1>4, <1>5, <1>b
<1> QED
  BY <1>1, <1>3, <1>7, <1>8, <1>9

LEMMA InitShow == Init => ShowInv
<1> SUFFICES ASSUME Init PROVE ShowInv
  OBVIOUS
<1>1. /\ data = Startup /\ ok = TRUE /\ tick = NoTick /\ limit = 0 /\ pending = 0
      /\ seen = Fresh(Keys(Startup, TRUE)) /\ shown = ShownOf(Startup, TRUE, 0)
      /\ told = [option |-> "default", rate |-> Startup.rate]
      /\ patch = "none" /\ held = Hidden
  BY DEF Init
<1>2. shown \in ShownType
  BY <1>1, PayloadTypes, FreshShows
<1>3. /\ shown.policy = Option(data) /\ shown.policy # "hidden"
      /\ shown.limit # Hidden /\ shown.switch # "hidden"
      /\ seen.policy.available = TRUE /\ seen.limit.available = TRUE
      /\ seen.switch.available = TRUE
      /\ seen.policy.print = PolicyPrint(data) /\ seen.limit.print = data.rate
      /\ shown.limit = Native(data, limit, pending)
  BY <1>1, PayloadTypes, FreshShows
<1>4. ClientShown(data, ok) = TRUE
  BY <1>1, PayloadTypes DEF ClientShown, Payload
<1>5. ShowType
  <2>1. tick \in TickType
    BY <1>1, PayloadTypes
  <2>2. data \in Payload
    BY <1>1, PayloadTypes
  <2>3. limit \in Nat /\ pending \in 0 .. PendingPolls
    BY <1>1, BoundTypes
  <2>4. told \in [option : {"default", "deny", "home"},
                  rate : Nat \cup {Unknown}]
    BY <1>1, PayloadTypes DEF Payload
  <2> QED
    BY <1>1, <1>2, <2>1, <2>2, <2>3, <2>4 DEF ShowType, ShownType
<1>a. Option(PolicyPrint(data)) = "default" /\ Option(data) = "default"
  BY <1>1 DEF Startup, Factory, PolicyPrint, Option
<1>6. Compared
  BY <1>1, <1>3, <1>4 DEF Compared
<1>b. Tracked
  <2>1. told.option = "default" /\ told.rate = data.rate /\ ~(pending > 0)
    BY <1>1
  <2>2. Option(seen.policy.print) = "default"
    BY <1>3, <1>a
  <2> QED
    BY <1>3, <1>a, <2>1, <2>2 DEF Tracked
<1>7. HiddenWhenStale
  BY <1>1, <1>3, <1>4 DEF HiddenWhenStale
<1>8. SettingsExplained
  BY <1>3 DEF SettingsExplained
<1> QED
  BY <1>5, <1>6, <1>b, <1>7, <1>8 DEF ShowInv

\* A call that returns: the entity shows what the router accepted.
LEMMA ReturnsShows ==
    ASSUME WriteInv, ShowInv, NEW c \in Control, ~Idle(c),
           NEW kept \in BOOLEAN, Returns(c, kept), ok' = ok
    PROVE  ShowInv'
<1> DEFINE r == write[c].want
<1>1. r \in Request /\ r.option \in Topic(c)
  BY DEF WriteInv, RouterType, Running, RunningCall, Write
<1>2. /\ ShowType /\ Compared /\ Tracked
      /\ HiddenWhenStale /\ SettingsExplained
  BY DEF ShowInv
<1>3. tick' \in TickType
  BY <1>2 DEF Returns, ShowType, TickType
<1>4. CASE c = "switch"
  <2>1. UNCHANGED <<ok, data, limit, pending, seen, shown, told, patch, held>>
    BY <1>4 DEF Returns, entities
  <2> QED
    BY <1>2, <1>3, <2>1 DEF ShowInv, ShowType, Compared, Tracked,
       HiddenWhenStale, SettingsExplained
<1>5. CASE c = "limit"
  <2> DEFINE v == LimitShown(data, ok, r.kbps, PendingPolls)
  <2>1. /\ limit' = r.kbps /\ pending' = PendingPolls
        /\ shown' = [shown EXCEPT !.limit = v]
        /\ held' = r.kbps
        /\ UNCHANGED <<ok, data, seen, told, patch>>
    BY <1>5 DEF Returns, ShowLimit
  <2>2. r.kbps \in Nat
    BY <1>1 DEF Request
  <2>3. /\ v \in Nat \cup {Hidden} /\ (v = Hidden <=> ~ClientShown(data, ok))
        /\ v \in {Hidden, Native(data, r.kbps, PendingPolls)}
    <3>1. data \in Payload /\ ok \in BOOLEAN
      BY <1>2 DEF ShowType
    <3> QED
      BY <2>2, <3>1, ShownTypes DEF LimitShown
  <2> HIDE DEF v, r
  <2>4. /\ shown' \in [policy : {"default", "deny", "home", "hidden"},
                       limit : Nat \cup {Hidden},
                       switch : {"on", "off", "hidden"}]
        /\ shown'.policy = shown.policy /\ shown'.switch = shown.switch
        /\ shown'.limit = v
    BY <1>2, <2>1, <2>3 DEF ShowType
  <2>5. ShowType'
    BY <1>2, <1>3, <2>1, <2>2, <2>4, BoundTypes DEF ShowType
  <2>6. Compared' /\ Tracked' /\ HiddenWhenStale' /\ SettingsExplained'
    BY <1>2, <2>1, <2>3, <2>4 DEF Compared, Tracked, HiddenWhenStale,
       SettingsExplained
  <2> QED
    BY <2>5, <2>6 DEF ShowInv
<1>6. CASE c = "policy"
  <2> DEFINE d == [data EXCEPT
                     !.access = IF r.option = "deny" THEN "deny" ELSE "permit",
                     !.policy = IF r.option = "home" THEN "home" ELSE NoPolicy]
  <2>1. /\ data' = d /\ patch' = r.option
        /\ shown' = [shown EXCEPT !.policy = OptionShown(data', ok)]
        /\ UNCHANGED <<ok, limit, pending, seen, told, held>>
    BY <1>6 DEF Returns, ShowPolicy
  <2>2. r.option \in {"deny", "default", "home"}
    BY <1>1, <1>6, OptionsOfTopics
  <2>3. data \in Payload /\ ok \in BOOLEAN
    BY <1>2 DEF ShowType
  <2>4. /\ d \in Payload /\ d.stale = data.stale /\ d.rate = data.rate
        /\ Option(d) = r.option
    BY <2>2, <2>3 DEF Payload, Option, NoPolicy
  <2> HIDE DEF d, r
  <2>5. ClientShown(d, ok) = ClientShown(data, ok)
    BY <2>4 DEF ClientShown
  <2>6. /\ OptionShown(d, ok) \in {"hidden", r.option}
        /\ OptionShown(d, ok) = "hidden" <=> ~ClientShown(data, ok)
    BY <2>2, <2>3, <2>4, <2>5 DEF OptionShown
  <2>7. /\ shown' \in [policy : {"default", "deny", "home", "hidden"},
                       limit : Nat \cup {Hidden},
                       switch : {"on", "off", "hidden"}]
        /\ shown'.limit = shown.limit /\ shown'.switch = shown.switch
        /\ shown'.policy = OptionShown(d, ok)
    BY <1>2, <2>1, <2>2, <2>6 DEF ShowType
  <2>8. ShowType'
    BY <1>2, <1>3, <2>1, <2>2, <2>4, <2>7 DEF ShowType
  <2>9. Compared' /\ Tracked' /\ HiddenWhenStale' /\ SettingsExplained'
    BY <1>2, <2>1, <2>4, <2>5, <2>6, <2>7 DEF Compared, Tracked,
       HiddenWhenStale, SettingsExplained, Native
  <2> QED
    BY <2>8, <2>9 DEF ShowInv
<1> QED
  BY <1>4, <1>5, <1>6 DEF Control

LEMMA NextShow == WriteInv /\ ShowInv /\ [Next]_vars => ShowInv'
<1> SUFFICES ASSUME WriteInv, ShowInv, [Next]_vars PROVE ShowInv'
  OBVIOUS
<1>1. /\ ShowType /\ Compared /\ Tracked
      /\ HiddenWhenStale /\ SettingsExplained
  BY DEF ShowInv
<1>2. conf \in Config
  BY DEF WriteInv, RouterType
\* The steps that touch nothing that is shown.
<1>3. ASSUME UNCHANGED <<ok, data, entities, told, patch, held>>,
             tick' \in TickType
      PROVE  ShowInv'
  BY <1>1, <1>3 DEF entities, ShowInv, ShowType, Compared, Tracked,
     HiddenWhenStale, SettingsExplained
<1>4. ASSUME UNCHANGED <<tick, ok, data, entities, told, patch, held>>
      PROVE ShowInv'
  BY <1>1, <1>3, <1>4 DEF ShowType
<1>5. ASSUME NEW c \in Control, Call(c) \/ Other(c) PROVE ShowInv'
  BY <1>4, <1>5 DEF Call, Other
<1>6. ASSUME NEW c \in Control, Send(c) \/ SendFails(c) PROVE ShowInv'
  <2>1. ~Idle(c) /\ ok' = ok
    BY <1>6 DEF Send, SendFails
  <2>2. \/ \E kept \in BOOLEAN : Returns(c, kept)
        \/ UNCHANGED <<tick, ok, data, entities, told, patch, held>>
    BY <1>6 DEF Send, SendFails, history
  <2> QED
    BY <1>4, <2>1, <2>2, ReturnsShows
<1>7. CASE Down \/ Up \/ UNCHANGED vars
  BY <1>4, <1>7 DEF Down, Up, vars, history
<1>9. ASSUME NEW i \in Item, NEW fresh \in SUBSET Parts(i), Fetch(i, fresh)
      PROVE  ShowInv'
  <2>1. data \in Payload /\ tick.read \in Payload /\ Current \in Payload
    BY <1>1, <1>2, PayloadTypes DEF ShowType, TickType
  <2>2. ASSUME NEW q PROVE Source(q, fresh) \in Payload
    BY <2>1 DEF Source, Payload
  <2>3. Taken(i, fresh) \in Payload
    <3>1. /\ Source("host", fresh) \in Payload
          /\ Source("row", fresh) \in Payload
          /\ Source("iface", fresh) \in Payload
      BY <2>2
    <3> QED
      BY <2>1, <3>1 DEF Taken, Payload
  <2>4. tick' \in TickType
    BY <1>1, <1>9, <2>3 DEF ShowType, TickType, Fetch
  <2> QED
    BY <1>3, <1>9, <2>4 DEF Fetch, history
<1>10. CASE Publish \/ TickFails
  <2>1. /\ tick' = NoTick
        /\ tick.read \in Payload /\ data \in Payload
    BY <1>1, <1>10 DEF ShowType, TickType, Publish, TickFails, Over
  <2>2. CASE Publish
    BY <2>1, <2>2, UpdateShows, PayloadTypes DEF Publish
  <2>3. CASE TickFails /\ ok
    BY <2>1, <2>3, UpdateShows, PayloadTypes DEF TickFails
  <2>4. CASE TickFails /\ ~ok
    <3>1. ok' = ok
      BY <1>1, <2>4 DEF TickFails, ShowType
    <3> QED
      BY <1>3, <2>1, <2>4, <3>1, PayloadTypes DEF TickFails
  <2> QED
    BY <1>10, <2>2, <2>3, <2>4
<1>11. CASE Reload
  <2>1. /\ tick' = NoTick /\ ok' = TRUE /\ data' = Current /\ pending' = 0
        /\ limit' = IF shown.limit = Hidden THEN 0 ELSE shown.limit
        /\ seen' = Fresh(Keys(Current, TRUE))
        /\ shown' = ShownOf(Current, TRUE, limit')
        /\ told' = [option |-> Option(Current), rate |-> Current.rate]
        /\ patch' = "none" /\ held' = Hidden
    BY <1>11 DEF Reload
  <2>2. limit' \in Nat
    BY <1>1, <2>1 DEF ShowType
  <2>3. Current \in Payload /\ ClientShown(Current, TRUE)
    BY <1>2, PayloadTypes
  <2>4. shown' \in ShownType
    BY <2>1, <2>2, <2>3, FreshShows
  <2>5. /\ shown'.policy = Option(data') /\ shown'.policy # "hidden"
        /\ shown'.limit # Hidden /\ shown'.switch # "hidden"
    BY <2>1, <2>2, <2>3, FreshShows
  <2>6. /\ seen'.policy.available = TRUE /\ seen'.limit.available = TRUE
        /\ seen'.switch.available = TRUE
        /\ seen'.policy.print = PolicyPrint(data')
        /\ seen'.limit.print = data'.rate
        /\ shown'.limit = Native(data', limit', pending')
    BY <2>1, <2>2, <2>3, FreshShows
  <2>7. ClientShown(data', ok') = TRUE
    BY <2>1, <2>3 DEF ClientShown, Payload
  <2>8. ShowType'
    <3>1. /\ tick' \in TickType
          /\ data' \in Payload
      BY <2>1, <2>3, PayloadTypes
    <3>2. pending' \in 0 .. PendingPolls
      BY <2>1, BoundTypes
    <3>3. /\ ok' \in BOOLEAN
          /\ told' \in [option : {"default", "deny", "home"},
                        rate : Nat \cup {Unknown}]
          /\ patch' \in {"default", "deny", "home", "none"}
          /\ held' \in Nat \cup {Hidden}
      BY <2>1, <2>3 DEF Payload, Option
    <3> QED
      BY <2>2, <2>4, <3>1, <3>2, <3>3 DEF ShowType, ShownType
  <2>a. Compared'
    BY <2>1, <2>6, <2>7 DEF Compared
  <2>9. Tracked'
    <3>1. Option(PolicyPrint(data')) = Option(data')
      BY DEF Option, PolicyPrint
    <3>2. told'.option = Option(data') /\ told'.rate = data'.rate
          /\ ~(pending' > 0)
      BY <2>1
    <3>3. Option(seen'.policy.print) = Option(data')
      BY <2>6, <3>1
    <3> QED
      BY <2>5, <2>6, <3>2, <3>3 DEF Tracked
  <2>10. HiddenWhenStale'
    BY <2>1, <2>5, <2>7 DEF HiddenWhenStale
  <2>11. SettingsExplained'
    BY <2>5, <2>6 DEF SettingsExplained
  <2> QED
    BY <2>8, <2>a, <2>9, <2>10, <2>11 DEF ShowInv
<1> QED
  BY <1>5, <1>6, <1>7, <1>9, <1>10, <1>11 DEF Next, CallStep, TickStep

LEMMA WritesInvariant == Spec => [](WriteInv /\ ShowInv)
BY InitWrite, NextWrite, InitShow, NextShow, PTL DEF Spec

\* The declared types hold for any options, limits and bounds.
THEOREM WritesTypeCorrect == Spec => []TypeOK
<1>1. WriteInv /\ ShowInv => TypeOK
  BY DEF WriteInv, ShowInv, RouterType, ShowType, TickType, TypeOK
<1> QED
  BY <1>1, WritesInvariant, PTL

\* A write that returned without an error and was not overridden is what the
\* router runs and what it restarts with, whatever calls of the other controls,
\* failed saves, lost answers, restarts and changes in the router's own UI come
\* in between.
THEOREM WritesAreDurable == Spec => []ReportedIsDurable
<1>1. WriteInv => ReportedIsDurable
  BY DEF WriteInv
<1> QED
  BY <1>1, WritesInvariant, PTL

\* Suppressing unchanged states never suppresses that an entity became
\* unavailable or available again.
THEOREM StaleIsHidden == Spec => []HiddenWhenStale
<1>1. ShowInv => HiddenWhenStale
  BY DEF ShowInv
<1> QED
  BY <1>1, WritesInvariant, PTL

\* The dropdown shows the published option and the number its native value,
\* unless it still shows what it wrote itself and no update has brought another
\* value since.
THEOREM SettingsAreExplained == Spec => []SettingsExplained
<1>1. ShowInv => SettingsExplained
  BY DEF ShowInv
<1> QED
  BY <1>1, WritesInvariant, PTL

-----------------------------------------------------------------------------
(***************************************************************************)
(* The second half: ClientPresence, for any clients, any configured hosts  *)
(* and any boot window -- the fired events agree with the trackers, and no *)
(* device is announced twice.                                              *)
(***************************************************************************)

\* The events sum up to the published online set, which is the merged rows'
\* unless the list is a preserved one.
SyncInv ==
    published => /\ belief = online
                 /\ ~stale => online = {m \in Mac : Online(index[m])}

\* Only devices that are listed have been announced, and once.
AnnounceInv ==
    /\ index \in [Mac -> Row]
    /\ reports \in [Mac -> {0, 1}]
    /\ \A m \in Mac : reports[m] = 1 => Real(index[m])
    /\ ~published => \A m \in Mac : reports[m] = 0

-----------------------------------------------------------------------------
\* The coordinator and the trackers decide who is home each in their own way,
\* and decide alike.
LEMMA SameNotion == \A row : IsConnected(row) <=> Online(row)
BY DEF IsConnected, PresenceSource, Online

LEMMA SyncStep == SyncInv /\ [PresenceNext]_presenceVars => SyncInv'
<1> SUFFICES ASSUME SyncInv, [PresenceNext]_presenceVars PROVE SyncInv' OBVIOUS
<1>1. CASE PublishClients
  <2>1. belief' = online'
    <3>1. CASE ~published
      BY <1>1, <3>1 DEF PublishClients
    <3>2. CASE published /\ Preserved
      <4>1. online' = online /\ events'.joined = {} /\ events'.left = {}
        BY <1>1, <3>2 DEF PublishClients, OnlineNow
      <4>2. belief' = (belief \cup events'.joined) \ events'.left
        BY <1>1, <3>2 DEF PublishClients, Notify, Fire
      <4> QED BY <3>2, <4>1, <4>2 DEF SyncInv
    <3>3. CASE published /\ ~Preserved
      <4>1. /\ events'.joined = online' \ online
            /\ events'.left = online \ online'
        BY <1>1, <3>3 DEF PublishClients
      <4>2. belief' = (belief \cup events'.joined) \ events'.left
        BY <1>1, <3>3 DEF PublishClients, Notify, Fire
      <4> QED BY <3>3, <4>1, <4>2 DEF SyncInv
    <3> QED BY <3>1, <3>2, <3>3
  <2>2. ~stale' => online' = {m \in Mac : Online(index'[m])}
    BY <1>1 DEF PublishClients, OnlineNow
  <2> QED BY <2>1, <2>2 DEF SyncInv
<1>2. CASE Raise
  BY <1>2 DEF Raise, SyncInv, Notify, followed, NewEntry
<1>3. CASE ReloadEntry
  BY <1>3 DEF ReloadEntry, NewEntry, SyncInv
<1>4. CASE Reboot \/ Age \/ PollBegin \/ ReadSystem \/ AskClients
             \/ ClientsAnswer \/ UNCHANGED presenceVars
  BY <1>4 DEF Reboot, Age, PollBegin, ReadSystem, AskClients, ClientsAnswer,
              presenceVars, snapshot,
              followed, SyncInv
<1> QED BY <1>1, <1>2, <1>3, <1>4 DEF PresenceNext, PollStep

\* Whoever follows the connect and disconnect events knows who is home.
THEOREM EventsAgreeWithTrackers == PresenceSpec => []BeliefInSync
<1>1. PresenceInit => SyncInv
  BY DEF PresenceInit, SyncInv
<1>2. SyncInv => BeliefInSync
  BY SameNotion DEF SyncInv, BeliefInSync, TrackerAvailable
<1> QED BY <1>1, <1>2, SyncStep, PTL DEF PresenceSpec

-----------------------------------------------------------------------------
LEMMA MergedType ==
    ASSUME NEW row \in Row, NEW n \in Neighbour
    PROVE  Merged(row, n) \in Row
  BY DEF Merged, Row, HostRow, Neighbour

\* Firing a snapshot's events announces only what was not announced before.
LEMMA AnnounceFire ==
    ASSUME AnnounceInv, PublishClients, published
    PROVE  /\ reports' \in [Mac -> {0, 1}]
           /\ \A m \in Mac : reports'[m] = 1 => Real(index'[m])
<1> DEFINE real == {m \in Mac : Real(index'[m])}
           news == {m \in real : index[m] = "none"}
<1>1. reports' = [m \in Mac |->
                    LET r == IF m \in real THEN reports[m] ELSE 0
                    IN  IF m \in news /\ r < 2 THEN r + 1 ELSE r]
  BY DEF PublishClients, Notify, Fire
<1>2. ASSUME NEW m \in Mac PROVE m \in news => reports[m] = 0
  BY DEF AnnounceInv, Real
<1>3. ASSUME NEW m \in Mac
      PROVE  reports'[m] \in {0, 1} /\ (reports'[m] = 1 => Real(index'[m]))
  <2>1. reports[m] \in {0, 1}
    BY DEF AnnounceInv
  <2>2. CASE m \in news
    BY <1>1, <1>2, <2>1, <2>2
  <2>3. CASE m \notin news
    BY <1>1, <2>1, <2>3
  <2> QED BY <2>2, <2>3
<1> QED BY <1>1, <1>3

LEMMA AnnounceStep ==
    PresenceTypeOK /\ AnnounceInv /\ [PresenceNext]_presenceVars => AnnounceInv'
<1> SUFFICES ASSUME PresenceTypeOK, AnnounceInv, [PresenceNext]_presenceVars
             PROVE  AnnounceInv'
  OBVIOUS
<1>1. CASE PublishClients
  <2>1. index' \in [Mac -> Row]
    <3>1. PICK n \in [Mac -> Neighbour] :
            index' = [m \in Mac |->
                Merged(IF Preserved THEN index[m] ELSE listed[m], n[m])]
      BY <1>1 DEF PublishClients
    <3>2. ASSUME NEW m \in Mac
          PROVE  (IF Preserved THEN index[m] ELSE listed[m]) \in Row
      BY DEF PresenceTypeOK, Row
    <3> QED BY <3>1, <3>2, MergedType
  <2>2. CASE published
    BY <1>1, <2>1, <2>2, AnnounceFire DEF AnnounceInv, PublishClients
  <2>3. CASE ~published
    BY <1>1, <2>1, <2>3 DEF AnnounceInv, PublishClients
  <2> QED BY <2>2, <2>3
<1>2. CASE Raise
  <2>1. CASE published
    BY <1>2, <2>1 DEF Raise, Notify, followed, AnnounceInv
  <2>2. CASE ~published
    BY <1>2, <2>2 DEF Raise, NewEntry, AnnounceInv, Empty, Row,
                      HostRow
  <2> QED BY <2>1, <2>2
<1>3. CASE ReloadEntry
  BY <1>3 DEF ReloadEntry, NewEntry, AnnounceInv, Empty, Row, HostRow
<1>4. CASE Reboot \/ Age \/ PollBegin \/ ReadSystem \/ AskClients
             \/ ClientsAnswer \/ UNCHANGED presenceVars
  BY <1>4 DEF Reboot, Age, PollBegin, ReadSystem, AskClients, ClientsAnswer,
              presenceVars, snapshot,
              followed, AnnounceInv
<1> QED BY <1>1, <1>2, <1>3, <1>4 DEF PresenceNext, PollStep

-----------------------------------------------------------------------------
LEMMA NewEntryType ==
    ASSUME PresenceTypeOK, NewEntry, PollEnds, UNCHANGED uptime
    PROVE  PresenceTypeOK'
<1>1. probed' \in BOOLEAN
  BY DEF NewEntry
<1>2. Empty \in [Mac -> HostRow] /\ Empty \in [Mac -> Row]
  BY DEF Empty, HostRow, Row
<1>3. NoEvents \in [new : SUBSET Mac, joined : SUBSET Mac, left : SUBSET Mac]
  BY DEF NoEvents
<1>4. MaxUptime + 1 \in 0 .. MaxUptime + 1
  BY PresenceAssumption DEF PresenceAssumption
<1>5. listed' \in [Mac -> HostRow] /\ index' \in [Mac -> Row]
  BY <1>2 DEF NewEntry, PollEnds
<1>6. reports' \in [Mac -> 0 .. 2]
  BY DEF NewEntry
<1> QED BY <1>1, <1>3, <1>4, <1>5, <1>6 DEF PresenceTypeOK, NewEntry, PollEnds

LEMMA FireType ==
    ASSUME PresenceTypeOK, NEW e \in [new : SUBSET Mac, joined : SUBSET Mac,
                              left : SUBSET Mac],
           NEW real, Fire(e, real)
    PROVE  belief' \subseteq Mac /\ reports' \in [Mac -> 0 .. 2]
<1>1. belief' \subseteq Mac
  BY DEF Fire, PresenceTypeOK
<1>2. ASSUME NEW m \in Mac
      PROVE  LET r == IF m \in real THEN reports[m] ELSE 0
             IN  (IF m \in e.new /\ r < 2 THEN r + 1 ELSE r) \in 0 .. 2
  <2>1. reports[m] \in 0 .. 2
    BY DEF PresenceTypeOK
  <2> QED BY <2>1
<1>3. reports' \in [Mac -> 0 .. 2]
  BY <1>2 DEF Fire
<1> QED BY <1>1, <1>3

LEMMA PublishType == PresenceTypeOK /\ PublishClients => PresenceTypeOK'
<1> SUFFICES ASSUME PresenceTypeOK, PublishClients PROVE PresenceTypeOK' OBVIOUS
<1>1. index' \in [Mac -> Row]
  <2>1. PICK n \in [Mac -> Neighbour] :
          index' = [m \in Mac |->
              Merged(IF Preserved THEN index[m] ELSE listed[m], n[m])]
    BY DEF PublishClients
  <2>2. ASSUME NEW m \in Mac
        PROVE  (IF Preserved THEN index[m] ELSE listed[m]) \in Row
    BY DEF PresenceTypeOK, Row
  <2> QED BY <2>1, <2>2, MergedType
<1>2. online' \subseteq Mac
  BY DEF PublishClients, OnlineNow, PresenceTypeOK
<1>3. events' \in [new : SUBSET Mac, joined : SUBSET Mac, left : SUBSET Mac]
  <2>1. online \subseteq Mac
    BY DEF PresenceTypeOK
  <2> QED BY <1>2, <2>1 DEF PublishClients
<1>4. belief' \subseteq Mac /\ reports' \in [Mac -> 0 .. 2]
  <2>1. CASE published
    <3>1. Fire(events', {m \in Mac : Real(index'[m])})
      BY <2>1 DEF PublishClients, Notify
    <3> QED BY <1>3, <3>1, FireType
  <2>2. CASE ~published
    BY <1>2, <2>2 DEF PublishClients, PresenceTypeOK
  <2> QED BY <2>1, <2>2
<1>5. stale' \in BOOLEAN /\ published' \in BOOLEAN /\ success' \in BOOLEAN
  BY DEF PublishClients, Preserved
<1> QED
  BY <1>1, <1>2, <1>3, <1>4, <1>5
  DEF PublishClients, PollEnds, PresenceTypeOK, client, observed, Empty, HostRow

LEMMA FirstIsPath == First \in Path /\ \A p \in Path : OtherPath(p) \in Path
<1>1. OtherPath("runtime") = "config" /\ OtherPath("config") = "runtime"
  BY DEF OtherPath, Path
<1> QED BY <1>1 DEF First, Path

LEMMA ClientsAnswerType == PresenceTypeOK /\ ClientsAnswer => PresenceTypeOK'
<1> SUFFICES ASSUME PresenceTypeOK, ClientsAnswer PROVE PresenceTypeOK' OBVIOUS
<1>1. PICK a \in Answers(asking), hosts \in [Mac -> HostRow] :
        LET hit == a = "ok" /\ Listing(asking, hosts) # Empty
        IN  /\ skip' = skip \cup {p \in {asking} : a = "missing"}
            /\ winner' = IF hit THEN asking ELSE winner
            /\ linked' = {m \in Mac : hosts[m] = "up"}
            /\ \/ /\ asking' = "none" /\ earlier' = "none"
                  /\ listed' = IF hit THEN Listing(asking, hosts) ELSE Empty
               \/ /\ asking' = OtherPath(asking) /\ earlier' = a
                  /\ listed' = listed
  BY DEF ClientsAnswer
<1>2. asking \in Path /\ a \in Answer
  BY <1>1 DEF ClientsAnswer, PresenceTypeOK, Answers
<1>3. OtherPath(asking) \in Path
  BY <1>2, FirstIsPath
<1>4. /\ skip' \subseteq Path
      /\ winner' \in Path \cup {"none"}
      /\ asking' \in Path \cup {"none"}
      /\ earlier' \in Answer \cup {"none"}
  BY <1>1, <1>2, <1>3 DEF PresenceTypeOK
<1>5. listed' \in [Mac -> HostRow]
  <2>1. Listing(asking, hosts) \in [Mac -> HostRow]
    BY DEF Listing, HostRow
  <2>2. Empty \in [Mac -> HostRow]
    BY DEF Empty, HostRow
  <2> QED BY <1>1, <2>1, <2>2 DEF PresenceTypeOK
<1>6. linked' \subseteq Mac
  BY <1>1
<1>7. live' \in BOOLEAN /\ masked' \in BOOLEAN
      /\ got' \in {"unread", "failed", "listed"}
  BY DEF ClientsAnswer, PresenceTypeOK
<1> QED
  BY <1>4, <1>5, <1>6, <1>7
  DEF ClientsAnswer, PresenceTypeOK, snapshot, followed

LEMMA PresenceTypeStep ==
    PresenceTypeOK /\ [PresenceNext]_presenceVars => PresenceTypeOK'
<1> SUFFICES ASSUME PresenceTypeOK, [PresenceNext]_presenceVars
             PROVE  PresenceTypeOK'
  OBVIOUS
<1>1. CASE Reboot \/ Age
  <2>1. uptime' \in 0 .. MaxUptime
    BY <1>1, PresenceAssumption
    DEF Reboot, Age, PresenceTypeOK, PresenceAssumption
  <2>2. probed' \in BOOLEAN
    BY <1>1 DEF Reboot, Age, PresenceTypeOK
  <2> QED
    BY <1>1, <2>1, <2>2
    DEF Reboot, Age, PresenceTypeOK, client, poll, reading, snapshot, followed,
        observed
<1>2. CASE ReadSystem
  <2>1. lastUptime' \in 0 .. MaxUptime + 1
    BY <1>2, PresenceAssumption
    DEF ReadSystem, PresenceTypeOK, client, PresenceAssumption
  <2>2. probed' \in BOOLEAN
    BY <1>2 DEF ReadSystem, PresenceTypeOK
  <2>3. masked' \in BOOLEAN
    BY <1>2 DEF ReadSystem, PresenceTypeOK
  <2>4. skip' \subseteq Path /\ winner' \in Path \cup {"none"}
    BY <1>2 DEF ReadSystem, Unlatched, PresenceTypeOK, client
  <2> QED
    BY <1>2, <2>1, <2>2, <2>3, <2>4
    DEF ReadSystem, PresenceTypeOK, reading, snapshot, followed
<1>3. CASE ClientsAnswer
  BY <1>3, ClientsAnswerType
<1>4. CASE PublishClients
  BY <1>4, PublishType
<1>5. CASE Raise
  <2>1. CASE published
    BY <1>5, <2>1
    DEF Raise, PollEnds, Notify, PresenceTypeOK, client, observed,
        followed, Empty, HostRow
  <2>2. CASE ~published
    BY <1>5, <2>2, NewEntryType DEF Raise
  <2> QED BY <2>1, <2>2
<1>6. CASE ReloadEntry
  BY <1>6, NewEntryType DEF ReloadEntry
<1>7. CASE PollBegin
  BY <1>7 DEF PollBegin, PresenceTypeOK, client, reading, snapshot, followed,
              observed
<1>8. CASE UNCHANGED presenceVars
  BY <1>8 DEF PresenceTypeOK, presenceVars, client, poll, reading, snapshot,
              followed, observed
<1>9. CASE AskClients
  <2>1. asking' \in Path /\ earlier' \in Answer \cup {"none"}
    BY <1>9, FirstIsPath DEF AskClients, PresenceTypeOK, Answer
  <2> QED
    BY <1>9, <2>1 DEF AskClients, PresenceTypeOK, client, snapshot, followed,
                      observed
<1> QED
  BY <1>1, <1>2, <1>3, <1>4, <1>5, <1>6, <1>7, <1>8, <1>9
  DEF PresenceNext, PollStep

\* Every variable keeps its type.
THEOREM PresenceTypeCorrect ==
    PresenceSpec => []PresenceTypeOK
<1>1. PresenceInit => PresenceTypeOK
  <2>1. Empty \in [Mac -> HostRow] /\ Empty \in [Mac -> Row]
    BY DEF Empty, HostRow, Row
  <2>2. NoEvents \in [new : SUBSET Mac, joined : SUBSET Mac, left : SUBSET Mac]
    BY DEF NoEvents
  <2>3. MaxUptime \in 0 .. MaxUptime /\ MaxUptime + 1 \in 0 .. MaxUptime + 1
    BY PresenceAssumption DEF PresenceAssumption
  <2> SUFFICES ASSUME PresenceInit PROVE PresenceTypeOK
    OBVIOUS
  <2>4. /\ listed \in [Mac -> HostRow]
        /\ index \in [Mac -> Row]
        /\ reports \in [Mac -> 0 .. 2]
    BY <2>1 DEF PresenceInit
  <2> QED BY <2>2, <2>3, <2>4 DEF PresenceInit, PresenceTypeOK
<1> QED BY <1>1, PresenceTypeStep, PTL DEF PresenceSpec

\* Nobody is announced twice, for any clients and any order of reads.
THEOREM AnnouncedAtMostOnce ==
    PresenceSpec => []AnnouncedOnce
<1>1. PresenceInit => AnnounceInv
  BY DEF PresenceInit, AnnounceInv, Empty, Row, HostRow
<1>2. AnnounceInv => AnnouncedOnce
  <2> SUFFICES ASSUME AnnounceInv, NEW m \in Mac PROVE reports[m] <= 1
    BY DEF AnnouncedOnce
  <2>1. reports[m] \in {0, 1}
    BY DEF AnnounceInv
  <2> QED BY <2>1
<1> QED BY <1>1, <1>2, AnnounceStep, PresenceTypeCorrect, PTL DEF PresenceSpec
=============================================================================
