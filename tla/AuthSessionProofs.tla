------------------------- MODULE AuthSessionProofs --------------------------
(***************************************************************************)
(* What holds of the shared session for every number of calls in flight.   *)
(***************************************************************************)
EXTENDS AuthSession, TLAPS

-----------------------------------------------------------------------------
(***************************************************************************)
(* A call is quiet if the router did not change since it started and       *)
(* accepts the password: what such a call meets is the client's own doing. *)
(***************************************************************************)
Quiet == {c \in Call : pc[c] # "idle" /\ c \notin disturbed /\ accepts}

\* Exactly the holder of the lock is in a handshake, and the client does not
\* count as authenticated meanwhile; a call has no result before it ends, and
\* starts with its first attempt.
Locking ==
    /\ \A c \in Call : pc[c] \in {"shake", "shaken"} <=> lock = c
    /\ lock # None => ~authenticated
    /\ \A c \in Call : result[c] # "none" => pc[c] = "done"
    /\ \A c \in Call : pc[c] = "idle" => stage[c] = 1

\* A quiet call that retries does so with a session the router knows.
Retrying ==
    \A c \in Quiet : stage[c] = 2 =>
        /\ pc[c] = "wait" /\ authenticated => Valid(header)
        /\ pc[c] \in {"sent", "answered"} => Valid(carried[c])
        /\ pc[c] = "answered" => answer[c] = "ok"

\* While a handshake has got a session that died since, quiet calls, which are
\* younger, all wait for the lock with their first attempt.
Outdated ==
    \A d \in Call : (pc[d] = "shaken" /\ answer[d] = "ok" /\ ~Valid(carried[d]))
        => \A c \in Quiet : pc[c] = "wait" /\ stage[c] = 1

\* A quiet call in a handshake is rejected only with the wrong scheme, and has
\* the right one next.
Shaking ==
    \A c \in Quiet :
        /\ pc[c] = "shake" /\ attempt = 2 => scheme = speaks
        /\ pc[c] = "shaken" /\ answer[c] = "denied"
               => attempt = 1 /\ scheme # speaks

Ended == \A c \in Quiet : result[c] # "denied"

IInv == TypeOK /\ Locking /\ Retrying /\ Outdated /\ Shaking /\ Ended

-----------------------------------------------------------------------------
LEMMA InitInv == Init => IInv
<1> SUFFICES ASSUME Init PROVE IInv
  OBVIOUS
<1>1. TypeOK
  <2>1. /\ pc \in [Call -> {"idle", "wait", "shake", "shaken", "sent",
                           "answered", "done"}]
        /\ stage \in [Call -> 1 .. 2]
        /\ carried \in [Call -> Carried]
        /\ answer \in [Call -> {"none", "ok", "denied"}]
        /\ result \in [Call -> {"none", "ok", "denied", "failed"}]
    BY DEF Init, Carried
  <2>2. /\ changes \in 0 .. MaxChanges
        /\ header \in Carried
        /\ disturbed \subseteq Call
    BY BoundAssumption DEF Init, Carried, BoundAssumption
  <2>3. /\ attempt \in 1 .. 2
        /\ lock \in Call \cup {None}
        /\ speaks \in Scheme /\ configured \in Scheme /\ scheme \in Scheme
    BY DEF Init
  <2>4. accepts \in BOOLEAN /\ authenticated \in BOOLEAN
    BY DEF Init
  <2> QED
    BY <2>1, <2>2, <2>3, <2>4 DEF TypeOK
<1>2. Locking
  BY CallAssumption DEF Init, Locking, CallAssumption
<1>3. Quiet = {}
  BY DEF Init, Quiet
<1>4. Outdated
  BY DEF Init, Outdated
<1> QED
  BY <1>1, <1>2, <1>3, <1>4 DEF IInv, Retrying, Shaking, Ended

LEMMA NextType == TypeOK /\ [Next]_vars => TypeOK'
<1> SUFFICES ASSUME TypeOK, [Next]_vars PROVE TypeOK'
  OBVIOUS
<1>1. CASE Change
  <2>1. \A x \in Carried : Dead(x) \in Carried
    BY DEF Carried, Dead
  <2> QED
    BY <1>1, <2>1, BoundAssumption DEF Change, TypeOK, BoundAssumption
<1> USE DEF TypeOK
<1>2. ASSUME NEW c \in Call, Start(c) PROVE TypeOK'
  BY <1>2 DEF Start, Pass, router, shared
<1>3. ASSUME NEW c \in Call, Acquire(c) PROVE TypeOK'
  BY <1>3 DEF Acquire, Pass, router
<1>4. ASSUME NEW c \in Call, Answer(c) PROVE TypeOK'
  BY <1>4 DEF Answer, router, shared
<1>5. ASSUME NEW c \in Call, Receive(c) PROVE TypeOK'
  BY <1>5 DEF Receive, End, router, shared
<1>6. ASSUME NEW c \in Call, ReceiveDenied(c) PROVE TypeOK'
  <2>1. CASE stage[c] = 1
    <3>1. /\ pc' \in [Call -> {"idle", "wait", "shake", "shaken", "sent",
                              "answered", "done"}]
          /\ stage' \in [Call -> 1 .. 2]
      BY <1>6, <2>1 DEF ReceiveDenied
    <3>2. /\ answer' \in [Call -> {"none", "ok", "denied"}]
          /\ result' \in [Call -> {"none", "ok", "denied", "failed"}]
      BY <1>6, <2>1 DEF ReceiveDenied
    <3>3. authenticated' \in BOOLEAN /\ accepts' \in BOOLEAN
      BY <1>6 DEF ReceiveDenied, LostSession, router
    <3>4. /\ speaks' = speaks /\ changes' = changes
          /\ configured' = configured /\ scheme' = scheme /\ header' = header
          /\ lock' = lock /\ attempt' = attempt /\ carried' = carried
          /\ disturbed' = disturbed
      BY <1>6 DEF ReceiveDenied, router
    <3> QED
      BY <3>1, <3>2, <3>3, <3>4
  <2>2. CASE stage[c] # 1
    BY <1>6, <2>2 DEF ReceiveDenied, End, LostSession, router
  <2> QED
    BY <2>1, <2>2
<1>7. ASSUME NEW c \in Call, Handshake(c) PROVE TypeOK'
  BY <1>7 DEF Handshake, Carried, router, shared
<1>8. ASSUME NEW c \in Call, Authenticated(c) PROVE TypeOK'
  BY <1>8 DEF Authenticated, router
<1>9. ASSUME NEW c \in Call, Rejected(c) PROVE TypeOK'
  BY <1>9 DEF Rejected, SchemeFlipped, GivesUp, Other, Scheme, End, router
<1>10. ASSUME NEW c \in Call, Fail(c) PROVE TypeOK'
  BY <1>10 DEF Fail, End, router
<1>11. ASSUME NEW c \in Call, Return(c) PROVE TypeOK'
  BY <1>11 DEF Return, Carried, router, shared
<1>12. CASE Reload
  <2>1. /\ pc' \in [Call -> {"idle", "wait", "shake", "shaken", "sent",
                            "answered", "done"}]
        /\ stage' \in [Call -> 1 .. 2]
        /\ answer' \in [Call -> {"none", "ok", "denied"}]
        /\ result' \in [Call -> {"none", "ok", "denied", "failed"}]
        /\ disturbed' \subseteq Call
    BY <1>12 DEF Reload, NoCalls
  <2>2. header' \in Carried /\ carried' \in [Call -> Carried]
    BY <1>12 DEF Reload, NoCalls, Carried
  <2>3. /\ configured' = configured /\ scheme' = configured
        /\ speaks' = speaks /\ accepts' = accepts /\ changes' = changes
        /\ lock' = None /\ attempt' = 1
    BY <1>12 DEF Reload, router
  <2>4. authenticated' \in BOOLEAN
    BY <1>12 DEF Reload
  <2> QED
    BY <2>1, <2>2, <2>3, <2>4
<1>13. CASE UNCHANGED vars
  BY <1>13 DEF vars, router, shared, calls
<1> QED
  BY <1>1, <1>2, <1>3, <1>4, <1>5, <1>6, <1>7, <1>8, <1>9, <1>10, <1>11, <1>12,
     <1>13 DEF Next, CallStep

LEMMA NextLocking == TypeOK /\ Locking /\ [Next]_vars => Locking'
<1> SUFFICES ASSUME TypeOK, Locking, [Next]_vars PROVE Locking'
  OBVIOUS
<1> USE CallAssumption DEF TypeOK, Locking, CallAssumption
<1>1. CASE Change
  BY <1>1 DEF Change
<1>2. ASSUME NEW c \in Call, Start(c) PROVE Locking'
  BY <1>2 DEF Start, Pass, shared
<1>3. ASSUME NEW c \in Call, Acquire(c) PROVE Locking'
  BY <1>3 DEF Acquire, Pass
<1>4. ASSUME NEW c \in Call, Answer(c) PROVE Locking'
  BY <1>4 DEF Answer, shared
<1>5. ASSUME NEW c \in Call, Receive(c) PROVE Locking'
  BY <1>5 DEF Receive, End, shared
<1>6. ASSUME NEW c \in Call, ReceiveDenied(c) PROVE Locking'
  BY <1>6 DEF ReceiveDenied, End, LostSession
<1>7. ASSUME NEW c \in Call, Handshake(c) PROVE Locking'
  BY <1>7 DEF Handshake, shared
<1>8. ASSUME NEW c \in Call, Authenticated(c) PROVE Locking'
  BY <1>8 DEF Authenticated
<1>9. ASSUME NEW c \in Call, Rejected(c) PROVE Locking'
  BY <1>9 DEF Rejected, GivesUp, End
<1>10. ASSUME NEW c \in Call, Fail(c) PROVE Locking'
  BY <1>10 DEF Fail, End
<1>11. ASSUME NEW c \in Call, Return(c) PROVE Locking'
  BY <1>11 DEF Return, shared
<1>12. CASE Reload
  BY <1>12 DEF Reload, NoCalls
<1>13. CASE UNCHANGED vars
  BY <1>13 DEF vars, shared, calls
<1> QED
  BY <1>1, <1>2, <1>3, <1>4, <1>5, <1>6, <1>7, <1>8, <1>9, <1>10, <1>11, <1>12,
     <1>13 DEF Next, CallStep

-----------------------------------------------------------------------------
(***************************************************************************)
(* A step of a call keeps what quiet calls know of the session.            *)
(***************************************************************************)
Good == Retrying /\ Outdated /\ Shaking /\ Ended

LEMMA StartGood ==
    ASSUME TypeOK, Locking, Good, NEW c \in Call, Start(c)
    PROVE  Good'
<1> USE DEF Start, Pass, router, shared, Valid, Quiet
<1>1. Retrying'
  BY DEF TypeOK, Locking, Good, Retrying, Outdated
<1>2. Outdated'
  <2> SUFFICES ASSUME NEW d \in Call, pc'[d] = "shaken", answer'[d] = "ok",
                      ~Valid(carried[d])', NEW q \in Quiet'
               PROVE  pc'[q] = "wait" /\ stage'[q] = 1
    BY DEF Outdated
  <2>1. d # c /\ pc[d] = "shaken" /\ answer[d] = "ok" /\ ~Valid(carried[d])
    BY DEF TypeOK
  <2>2. ~authenticated
    BY <2>1, CallAssumption DEF Locking, CallAssumption
  <2>3. CASE q = c
    BY <2>2, <2>3 DEF TypeOK, Locking
  <2>4. CASE q # c
    <3>1. q \in Quiet
      BY <2>4 DEF TypeOK
    <3>2. pc[q] = "wait" /\ stage[q] = 1
      BY <2>1, <3>1 DEF Good, Outdated
    <3> QED
      BY <2>4, <3>2 DEF TypeOK
  <2> QED
    BY <2>3, <2>4
<1>3. Shaking'
  BY DEF TypeOK, Locking, Good, Shaking
<1>4. Ended'
  BY DEF TypeOK, Locking, Good, Retrying, Shaking, Ended
<1> QED
  BY <1>1, <1>2, <1>3, <1>4 DEF Good

LEMMA AcquireGood ==
    ASSUME TypeOK, Locking, Good, NEW c \in Call, Acquire(c)
    PROVE  Good'
<1> USE DEF Acquire, Pass, router, Valid, Quiet
<1>1. Retrying'
  BY DEF TypeOK, Locking, Good, Retrying, Outdated
<1>2. Outdated'
  <2>1. \A d \in Call : pc[d] # "shaken"
    BY CallAssumption DEF Locking, CallAssumption
  <2>2. \A d \in Call : pc'[d] # "shaken"
    BY <2>1 DEF TypeOK
  <2> QED
    BY <2>2 DEF Outdated
<1>3. Shaking'
  BY DEF TypeOK, Locking, Good, Shaking
<1>4. Ended'
  BY DEF TypeOK, Locking, Good, Retrying, Shaking, Ended
<1> QED
  BY <1>1, <1>2, <1>3, <1>4 DEF Good

LEMMA AnswerGood ==
    ASSUME TypeOK, Locking, Good, NEW c \in Call, Answer(c)
    PROVE  Good'
<1> USE DEF Answer, router, shared, Valid, Quiet
<1>1. Retrying'
  BY DEF TypeOK, Locking, Good, Retrying, Outdated
<1>2. Outdated'
  BY DEF TypeOK, Locking, Good, Retrying, Outdated
<1>3. Shaking'
  BY DEF TypeOK, Locking, Good, Shaking
<1>4. Ended'
  BY DEF TypeOK, Locking, Good, Retrying, Shaking, Ended
<1> QED
  BY <1>1, <1>2, <1>3, <1>4 DEF Good

LEMMA ReceiveGood ==
    ASSUME TypeOK, Locking, Good, NEW c \in Call, Receive(c)
    PROVE  Good'
<1> USE DEF Receive, End, router, shared, Valid, Quiet
<1>1. Retrying'
  BY DEF TypeOK, Locking, Good, Retrying, Outdated
<1>2. Outdated'
  BY DEF TypeOK, Locking, Good, Retrying, Outdated
<1>3. Shaking'
  BY DEF TypeOK, Locking, Good, Shaking
<1>4. Ended'
  BY DEF TypeOK, Locking, Good, Retrying, Shaking, Ended
<1> QED
  BY <1>1, <1>2, <1>3, <1>4 DEF Good

LEMMA ReceiveDeniedGood ==
    ASSUME TypeOK, Locking, Good, NEW c \in Call, ReceiveDenied(c)
    PROVE  Good'
<1> USE DEF ReceiveDenied, End, LostSession, router, Valid, Quiet
<1>1. Retrying'
  BY DEF TypeOK, Locking, Good, Retrying, Outdated
<1>2. Outdated'
  BY DEF TypeOK, Locking, Good, Retrying, Outdated
<1>3. Shaking'
  BY DEF TypeOK, Locking, Good, Shaking
<1>4. Ended'
  BY DEF TypeOK, Locking, Good, Retrying, Shaking, Ended
<1> QED
  BY <1>1, <1>2, <1>3, <1>4 DEF Good

LEMMA HandshakeGood ==
    ASSUME TypeOK, Locking, Good, NEW c \in Call, Handshake(c)
    PROVE  Good'
<1> USE DEF Handshake, router, shared, Valid, Quiet
<1>1. Retrying'
  BY DEF TypeOK, Locking, Good, Retrying, Outdated
<1>2. Outdated'
  BY DEF TypeOK, Locking, Good, Retrying, Outdated
<1>3. Shaking'
  BY DEF TypeOK, Locking, Good, Shaking
<1>4. Ended'
  BY DEF TypeOK, Locking, Good, Retrying, Shaking, Ended
<1> QED
  BY <1>1, <1>2, <1>3, <1>4 DEF Good

LEMMA AuthenticatedGood ==
    ASSUME TypeOK, Locking, Good, NEW c \in Call, Authenticated(c)
    PROVE  Good'
<1> USE DEF Authenticated, router, Valid, Quiet
<1>1. Retrying'
  BY DEF TypeOK, Locking, Good, Retrying, Outdated
<1>2. Outdated'
  BY DEF TypeOK, Locking, Good, Retrying, Outdated
<1>3. Shaking'
  BY DEF TypeOK, Locking, Good, Shaking
<1>4. Ended'
  BY DEF TypeOK, Locking, Good, Retrying, Shaking, Ended
<1> QED
  BY <1>1, <1>2, <1>3, <1>4 DEF Good

LEMMA RejectedGood ==
    ASSUME TypeOK, Locking, Good, NEW c \in Call, Rejected(c)
    PROVE  Good'
<1> USE DEF Rejected, GivesUp, SchemeFlipped, Other, Scheme, End, router, Valid, Quiet
<1>1. Retrying'
  BY DEF TypeOK, Locking, Good, Retrying, Outdated
<1>2. Outdated'
  BY DEF TypeOK, Locking, Good, Retrying, Outdated
<1>3. Shaking'
  BY DEF TypeOK, Locking, Good, Shaking
<1>4. Ended'
  BY DEF TypeOK, Locking, Good, Retrying, Shaking, Ended
<1> QED
  BY <1>1, <1>2, <1>3, <1>4 DEF Good

LEMMA FailGood ==
    ASSUME TypeOK, Locking, Good, NEW c \in Call, Fail(c)
    PROVE  Good'
<1> USE DEF Fail, End, router, Valid, Quiet
<1>1. Retrying'
  BY DEF TypeOK, Locking, Good, Retrying, Outdated
<1>2. Outdated'
  BY DEF TypeOK, Locking, Good, Retrying, Outdated
<1>3. Shaking'
  BY DEF TypeOK, Locking, Good, Shaking
<1>4. Ended'
  BY DEF TypeOK, Locking, Good, Retrying, Shaking, Ended
<1> QED
  BY <1>1, <1>2, <1>3, <1>4 DEF Good

LEMMA ReturnGood ==
    ASSUME TypeOK, Locking, Good, NEW c \in Call, Return(c)
    PROVE  Good'
<1> USE DEF Return, router, shared, Valid, Quiet
<1>1. Retrying'
  BY DEF TypeOK, Locking, Good, Retrying, Outdated
<1>2. Outdated'
  BY DEF TypeOK, Locking, Good, Retrying, Outdated
<1>3. Shaking'
  BY DEF TypeOK, Locking, Good, Shaking
<1>4. Ended'
  BY DEF TypeOK, Locking, Good, Retrying, Shaking, Ended
<1> QED
  BY <1>1, <1>2, <1>3, <1>4 DEF Good

LEMMA NextInv == IInv /\ [Next]_vars => IInv'
<1> SUFFICES ASSUME IInv, [Next]_vars PROVE IInv'
  OBVIOUS
<1>1. TypeOK' /\ Locking'
  BY NextType, NextLocking DEF IInv
<1>2. TypeOK /\ Locking /\ Good
  BY DEF IInv, Good
<1>3. Good'
  <2>1. CASE Change
    <3>1. Quiet' = {}
      BY <2>1, <1>2 DEF Change, Quiet
    <3> QED
      BY <3>1 DEF Good, Retrying, Outdated, Shaking, Ended
  <2>2. CASE Reload
    <3>1. Quiet' = {}
      BY <2>2 DEF Reload, NoCalls, Quiet
    <3> QED
      BY <3>1 DEF Good, Retrying, Outdated, Shaking, Ended
  <2>3. CASE \E c \in Call : Start(c) \/ CallStep(c) \/ Fail(c)
    BY <2>3, <1>2, StartGood, AcquireGood, AnswerGood, ReceiveGood,
       ReceiveDeniedGood, HandshakeGood, AuthenticatedGood, RejectedGood,
       FailGood, ReturnGood DEF CallStep
  <2>4. CASE UNCHANGED vars
    BY <2>4, <1>2 DEF vars, router, shared, calls, Good, Retrying, Outdated,
                      Shaking, Ended, Quiet, Valid
  <2> QED
    BY <2>1, <2>2, <2>3, <2>4 DEF Next
<1> QED
  BY <1>1, <1>3 DEF IInv, Good

-----------------------------------------------------------------------------
(* Every variable keeps its type, for every set of calls and every bound. *)
THEOREM TypeCorrect == Spec => []TypeOK
<1>1. Init => TypeOK
  BY InitInv DEF IInv
<1> QED
  BY <1>1, NextType, PTL DEF Spec

LEMMA Invariance == Spec => []IInv
BY InitInv, NextInv, PTL DEF Spec

(***************************************************************************)
(* However many calls share the session, and however often it dies under   *)
(* them: a call that ends with an authentication error, which asks the     *)
(* user for the password, was rejected by a router that does not accept    *)
(* it, or that changed while the call was in flight.                       *)
(***************************************************************************)
THEOREM DenialsAreReal == Spec => []DenialIsReal
<1>1. IInv => DenialIsReal
  <2> SUFFICES ASSUME IInv, NEW c \in Call, result[c] = "denied"
               PROVE  ~accepts \/ c \in disturbed
    BY DEF DenialIsReal
  <2>1. pc[c] # "idle"
    BY DEF IInv, Locking
  <2> QED
    BY <2>1 DEF IInv, Ended, Quiet
<1> QED
  BY <1>1, Invariance, PTL

\* The safety half of CallsSucceed: the lock is never left behind.  Whoever holds
\* it is a call in a handshake, which the router or a timeout ends, and no other
\* call is in one; so a rejection, a timeout or a reload in the middle of the
\* handshake never leaves the waiting calls behind a lock that nobody releases,
\* and two calls never flip the scheme under each other.
THEOREM LockIsReleased ==
    Spec => [](/\ lock # None =>
                     /\ lock \in Call
                     /\ pc[lock] \in {"shake", "shaken"}
                     /\ ~authenticated
               /\ \A c, d \in Call :
                     /\ pc[c] \in {"shake", "shaken"}
                     /\ pc[d] \in {"shake", "shaken"}
                     => c = d)
<1> DEFINE Goal == /\ lock # None =>
                        /\ lock \in Call
                        /\ pc[lock] \in {"shake", "shaken"}
                        /\ ~authenticated
                   /\ \A c, d \in Call :
                        /\ pc[c] \in {"shake", "shaken"}
                        /\ pc[d] \in {"shake", "shaken"}
                        => c = d
<1>1. IInv => Goal
  BY DEF IInv, TypeOK, Locking
<1> HIDE DEF Goal
<1>2. Spec => []Goal
  BY <1>1, Invariance, PTL
<1> QED
  BY <1>2 DEF Goal
=============================================================================
