---------------------------- MODULE AuthSession -----------------------------
(***************************************************************************)
(* The authenticated session of one API client: concurrent calls share an  *)
(* Authorization header or a session cookie, re-authenticate under a lock  *)
(* when the router answers 401, and switch between Basic and challenge     *)
(* authentication when the router has changed its mind (api/auth.py and    *)
(* _request / _handle_response of api/transport.py).                       *)
(***************************************************************************)
EXTENDS Naturals

CONSTANTS
    Call,       \* the calls in flight at a time (the tick's semaphore: 4)
    None,       \* no call
    MaxChanges  \* bound: changes of the router

ASSUME CallAssumption == None \notin Call

ASSUME BoundAssumption == MaxChanges \in Nat

Scheme == {"basic", "challenge"}

Other(s) == IF s = "basic" THEN "challenge" ELSE "basic"

(***************************************************************************)
(* What a call can carry: the Basic header, or a session cookie that is    *)
(* still known to the router ("live") or is not ("dead").                  *)
(***************************************************************************)
Carried == {"nothing", "basic", "live", "dead"}

VARIABLES
    \* the router
    speaks,         \* the scheme it accepts
    accepts,        \* the configured password is right
    changes,        \* number of changes so far
    \* the API client
    configured,     \* the scheme of the config entry
    scheme,         \* _use_challenge_auth, as a scheme
    header,         \* _auth_header
    authenticated,  \* _authenticated
    lock,           \* the holder of _auth_lock, or None
    attempt,        \* the holder's handshake: 1, or 2 with the other scheme
    \* the calls
    pc,             \* "idle", "wait" (for the lock), "shake", "shaken",
                    \* "sent", "answered", "done"
    stage,          \* 1, or 2 for the retry after a 401
    carried,        \* what the call carries, or what its handshake got
    answer,         \* the router's answer: "ok", "denied"
    result,         \* how the call ended: "ok", "denied", "failed"
    disturbed       \* history: the router changed during the call

router == <<speaks, accepts, changes>>
shared == <<configured, scheme, header, authenticated, lock, attempt>>
calls  == <<pc, stage, carried, answer, result, disturbed>>
vars   == <<router, shared, calls>>

TypeOK ==
    /\ speaks \in Scheme
    /\ accepts \in BOOLEAN
    /\ changes \in 0 .. MaxChanges
    /\ configured \in Scheme
    /\ scheme \in Scheme
    /\ header \in Carried
    /\ authenticated \in BOOLEAN
    /\ lock \in Call \cup {None}
    /\ attempt \in 1 .. 2
    /\ pc \in [Call -> {"idle", "wait", "shake", "shaken", "sent", "answered",
                        "done"}]
    /\ stage \in [Call -> 1 .. 2]
    /\ carried \in [Call -> Carried]
    /\ answer \in [Call -> {"none", "ok", "denied"}]
    /\ result \in [Call -> {"none", "ok", "denied", "failed"}]
    /\ disturbed \subseteq Call

\* A new client, as async_start leaves it: the first call authenticates.
NoCalls ==
    /\ pc' = [c \in Call |-> "idle"]
    /\ stage' = [c \in Call |-> 1]
    /\ carried' = [c \in Call |-> "nothing"]
    /\ answer' = [c \in Call |-> "none"]
    /\ result' = [c \in Call |-> "none"]
    /\ disturbed' = {}

Init ==
    /\ speaks \in Scheme
    /\ accepts \in BOOLEAN
    /\ changes = 0
    /\ configured \in Scheme
    /\ scheme = configured
    /\ header = "nothing"
    /\ authenticated = FALSE
    /\ lock = None
    /\ attempt = 1
    /\ pc = [c \in Call |-> "idle"]
    /\ stage = [c \in Call |-> 1]
    /\ carried = [c \in Call |-> "nothing"]
    /\ answer = [c \in Call |-> "none"]
    /\ result = [c \in Call |-> "none"]
    /\ disturbed = {}

-----------------------------------------------------------------------------
(***************************************************************************)
(* The router.                                                             *)
(***************************************************************************)
Dead(x) == IF x = "live" THEN "dead" ELSE x

\* Its sessions are gone (they expired, or it rebooted); a firmware update may
\* have changed its scheme, its owner the password.
Change ==
    /\ changes < MaxChanges
    /\ changes' = changes + 1
    /\ speaks' \in Scheme
    /\ accepts' \in BOOLEAN
    /\ header' = Dead(header)
    /\ carried' = [c \in Call |-> Dead(carried[c])]
    /\ disturbed' = {c \in Call : pc[c] # "idle"}
    /\ UNCHANGED <<configured, scheme, authenticated, lock, attempt, pc, stage,
                   answer, result>>

\* What it makes of a call.
Valid(x) ==
    \/ x = "basic" /\ speaks = "basic" /\ accepts
    \/ x = "live"

-----------------------------------------------------------------------------
(***************************************************************************)
(* _request: the first attempt, and after a 401 a second one.              *)
(***************************************************************************)
\* _ensure_auth lets a call with an authenticated session pass.
Pass(c) ==
    /\ pc' = [pc EXCEPT ![c] = "sent"]
    /\ carried' = [carried EXCEPT ![c] = header]

Start(c) ==
    /\ pc[c] = "idle"
    /\ IF authenticated THEN Pass(c)
       ELSE pc' = [pc EXCEPT ![c] = "wait"] /\ UNCHANGED carried
    /\ UNCHANGED <<router, shared, stage, answer, result, disturbed>>

\* The lock is free: another call may have authenticated meanwhile.
Acquire(c) ==
    /\ pc[c] = "wait"
    /\ lock = None
    /\ IF authenticated
       THEN Pass(c) /\ UNCHANGED <<lock, attempt>>
       ELSE /\ pc' = [pc EXCEPT ![c] = "shake"]
            /\ lock' = c
            /\ attempt' = 1
            /\ UNCHANGED carried
    /\ UNCHANGED <<router, configured, scheme, header, authenticated, stage,
                   answer, result, disturbed>>

\* The router answers a call.
Answer(c) ==
    /\ pc[c] = "sent"
    /\ pc' = [pc EXCEPT ![c] = "answered"]
    /\ answer' = [answer EXCEPT ![c] = IF Valid(carried[c]) THEN "ok"
                                       ELSE "denied"]
    /\ UNCHANGED <<router, shared, stage, carried, result, disturbed>>

End(c, r) ==
    /\ pc' = [pc EXCEPT ![c] = "done"]
    /\ result' = [result EXCEPT ![c] = r]
    /\ answer' = [answer EXCEPT ![c] = "none"]
    /\ UNCHANGED stage

Receive(c) ==
    /\ pc[c] = "answered"
    /\ answer[c] = "ok"
    /\ End(c, "ok")
    /\ UNCHANGED <<router, shared, carried, disturbed>>

\* A change that would break the code: a session that was refused is kept.
KeptSession == authenticated

\* What a 401 leaves of _authenticated.
LostSession == FALSE

\* The session is lost: once more, with a fresh one; a second 401 is an
\* authentication error.
ReceiveDenied(c) ==
    /\ pc[c] = "answered"
    /\ answer[c] = "denied"
    /\ authenticated' = LostSession
    /\ IF stage[c] = 1
       THEN /\ pc' = [pc EXCEPT ![c] = "wait"]
            /\ stage' = [stage EXCEPT ![c] = 2]
            /\ answer' = [answer EXCEPT ![c] = "none"]
            /\ UNCHANGED result
       ELSE End(c, "denied")
    /\ UNCHANGED <<router, configured, scheme, header, lock, attempt, carried,
                   disturbed>>

-----------------------------------------------------------------------------
(***************************************************************************)
(* _ensure_auth, in the lock.                                              *)
(***************************************************************************)
\* The router answers the handshake of the scheme that is tried.
Handshake(c) ==
    /\ pc[c] = "shake"
    /\ pc' = [pc EXCEPT ![c] = "shaken"]
    /\ IF scheme = speaks /\ accepts
       THEN /\ answer' = [answer EXCEPT ![c] = "ok"]
            /\ carried' = [carried EXCEPT ![c] =
                              IF scheme = "basic" THEN "basic" ELSE "live"]
       ELSE /\ answer' = [answer EXCEPT ![c] = "denied"]
            /\ UNCHANGED carried
    /\ UNCHANGED <<router, shared, stage, result, disturbed>>

\* The header is replaced, the lock released, and the call goes out with it.
Authenticated(c) ==
    /\ pc[c] = "shaken"
    /\ answer[c] = "ok"
    /\ header' = carried[c]
    /\ authenticated' = TRUE
    /\ lock' = None
    /\ pc' = [pc EXCEPT ![c] = "sent"]
    /\ answer' = [answer EXCEPT ![c] = "none"]
    /\ UNCHANGED <<router, configured, scheme, attempt, stage, carried, result,
                   disturbed>>

\* Whether a rejected handshake was the last one.
GivesUp == attempt = 2

\* A change that would break the code: the scheme is not flipped back after a
\* failed fallback.
SchemeKept == scheme

\* The scheme after a rejected handshake.
SchemeFlipped == Other(scheme)

\* Rejected: once more with the other scheme; rejected again, the scheme is put
\* back and the call fails.
Rejected(c) ==
    /\ pc[c] = "shaken"
    /\ answer[c] = "denied"
    /\ scheme' = SchemeFlipped
    /\ IF GivesUp
       THEN /\ End(c, "denied")
            /\ lock' = None
            /\ UNCHANGED attempt
       ELSE /\ attempt' = attempt + 1
            /\ pc' = [pc EXCEPT ![c] = "shake"]
            /\ answer' = [answer EXCEPT ![c] = "none"]
            /\ UNCHANGED <<lock, stage, result>>
    /\ UNCHANGED <<router, configured, header, authenticated, carried,
                   disturbed>>

\* A timeout or a connection error at any point: of the handshake, of the call,
\* and on the retry also of the wait for the lock.  The scheme stays as it is,
\* even between the two handshakes.
Fail(c) ==
    /\ \/ pc[c] \in {"shake", "shaken", "sent", "answered"}
       \/ pc[c] = "wait" /\ stage[c] = 2
    /\ End(c, "failed")
    /\ lock' = IF lock = c THEN None ELSE lock
    /\ UNCHANGED <<router, configured, scheme, header, authenticated, attempt,
                   carried, disturbed>>

-----------------------------------------------------------------------------
\* The caller has its result.
Return(c) ==
    /\ pc[c] = "done"
    /\ pc' = [pc EXCEPT ![c] = "idle"]
    /\ stage' = [stage EXCEPT ![c] = 1]
    /\ carried' = [carried EXCEPT ![c] = "nothing"]
    /\ result' = [result EXCEPT ![c] = "none"]
    /\ disturbed' = disturbed \ {c}
    /\ UNCHANGED <<router, shared, answer>>

\* The entry is reloaded: a new client with the configured scheme.
Reload ==
    /\ scheme' = configured
    /\ header' = "nothing"
    /\ authenticated' = FALSE
    /\ lock' = None
    /\ attempt' = 1
    /\ NoCalls
    /\ UNCHANGED <<router, configured>>

CallStep(c) ==
    \/ Acquire(c)
    \/ Answer(c)
    \/ Receive(c)
    \/ ReceiveDenied(c)
    \/ Handshake(c)
    \/ Authenticated(c)
    \/ Rejected(c)
    \/ Return(c)

Next ==
    \/ Change
    \/ \E c \in Call : Start(c) \/ CallStep(c) \/ Fail(c)
    \/ Reload

Spec == Init /\ [][Next]_vars

\* The router or a timeout ends every wait, and the lock is fair (asyncio.Lock
\* wakes its waiters in order).
FairSpec ==
    /\ Spec
    /\ \A c \in Call : WF_vars(CallStep(c)) /\ SF_vars(Acquire(c))
-----------------------------------------------------------------------------
\* "Only an explicit credential rejection may raise KeeneticAuthError": a call
\* that asks the user for the password again was rejected by a router that does
\* not accept it - or that changed while the call was in flight.  Sessions that
\* died before, another scheme and other calls' handshakes are all recovered
\* from within the call.
DenialIsReal ==
    \A c \in Call : result[c] = "denied" => ~accepts \/ c \in disturbed

\* Once the router accepts the password and no call times out any more, every
\* call comes back and none is rejected, whatever scheme an earlier handshake
\* that timed out has left behind.
Stable == accepts /\ \A c \in Call : result[c] # "failed"

CallsSucceed ==
    <>[]Stable => \A c \in Call : /\ []<>(pc[c] = "idle")
                                  /\ <>[](result[c] # "denied")

=============================================================================
