---------------------------- MODULE ConfigFlows -----------------------------
(***************************************************************************)
(* The dialogs of config_flow.py that write the stored entry, composed     *)
(* with the entry's own life (EntryLifecycle): the options dialog, the     *)
(* reauthentication and the reconfiguration.  Each reads the entry at one  *)
(* moment and writes it at another, with a call to the router in between.  *)
(* One options dialog and one of the other two can be open at a time.      *)
(***************************************************************************)
EXTENDS EntryLifecycle

CONSTANTS MaxSaves,      \* how often dialogs write the entry
          MaxRestarts    \* how often Home Assistant restarts

ASSUME FlowAssumption == MaxSaves \in Nat /\ MaxRestarts \in Nat

VARIABLES
    options,    \* the options dialog
    login,      \* the reauthentication or reconfiguration dialog
    chosen,     \* the client list of the user's last options save
    reverted,   \* an options save landed while a login was being checked
    saves,      \* writes so far
    restarts    \* restarts so far

flowVars == <<options, login, chosen, reverted, saves, restarts>>
vars     == <<entryVars, flowVars>>

Closed    == [stage |-> "closed", before |-> {}, seen |-> {}]
NoLogin   == [stage |-> "closed", data |-> [choice |-> NotRead, secret |-> 0]]

Init ==
    /\ EntryInit
    /\ options = Closed
    /\ login = NoLogin
    /\ chosen = stored.choice.tracked
    /\ reverted = FALSE
    /\ saves = 0
    /\ restarts = 0

-----------------------------------------------------------------------------
(***************************************************************************)
(* The options dialog.  It notes the tracked clients, asks the router for  *)
(* its clients -- through the running instance, or a client of its own --  *)
(* and shows both; a router that cannot be asked leaves the tracked ones.  *)
(***************************************************************************)
OpenOptions ==
    /\ options.stage = "closed" /\ saves < MaxSaves
    /\ options' = [Closed EXCEPT !.stage = "asking", !.before = stored.choice.tracked]
    /\ UNCHANGED <<entryVars, login, chosen, reverted, saves, restarts>>

\* _async_connect: the router takes the credentials.
Accepts(password) == password = secret

HasRuntime == phase \in {"forwarding", "added", "loaded", "unloading", "stuck"}
Reachable  == Accepts(IF HasRuntime THEN used.secret ELSE stored.secret)

ShowOptions ==
    /\ options.stage = "asking"
    /\ \E found \in SUBSET Mac :
          /\ found # {} => Reachable
          /\ options' = [options EXCEPT !.stage = "form", !.seen = found]
    /\ UNCHANGED <<entryVars, login, chosen, reverted, saves, restarts>>

\* What the form offers: the clients found, and the tracked ones not found.
Offered == options.seen \union options.before

\* The selection replaces the client list of the entry as it is now; data
\* and option are written in one call, and only if either differs.
SubmitOptions ==
    /\ options.stage = "form"
    /\ \E picked \in SUBSET Offered, level \in Level :
          /\ Store([stored EXCEPT !.choice = [tracked |-> picked,
                                              sensors |-> level]], 0)
          /\ chosen' = picked
    /\ options' = Closed
    /\ reverted' = (reverted \/ login.stage = "checking")
    /\ saves' = saves + 1
    /\ UNCHANGED <<phase, listening, reg, off, dev, secret, login, restarts>>

-----------------------------------------------------------------------------
\* Rejected credentials start a reauthentication, the user a
\* reconfiguration: both show the entry's data and ask for the password.
OpenLogin(kind) ==
    /\ login.stage = "closed" /\ saves < MaxSaves
    /\ kind = "reauth" => \/ phase = "rejected"
                          \/ phase = "loaded" /\ used.secret # secret
    /\ login' = [stage |-> "form", data |-> stored]
    /\ UNCHANGED <<entryVars, options, chosen, reverted, saves, restarts>>

\* A change that would break the code: the entry as it was when the form opened.
MergedAtOpen(typed) == [login.data EXCEPT !.secret = typed]

\* What the form's input is merged into: the entry when it is submitted.
Merged(typed) == [stored EXCEPT !.secret = typed]

SubmitLogin ==
    /\ login.stage = "form"
    /\ \E typed \in 1..MaxSecret :
          login' = [stage |-> "checking", data |-> Merged(typed)]
    /\ UNCHANGED <<entryVars, options, chosen, reverted, saves, restarts>>

\* _async_validate_and_update failed: back to the form, nothing written.
LoginRefused ==
    /\ login.stage = "checking"
    /\ login' = [stage |-> "form", data |-> stored]
    /\ UNCHANGED <<entryVars, options, chosen, reverted, saves, restarts>>

\* It passed: the merged data replaces the entry's data, its options stay,
\* and a reload is scheduled.
LoginAccepted ==
    /\ login.stage = "checking" /\ Accepts(login.data.secret)
    /\ Store([login.data EXCEPT !.choice.sensors = stored.choice.sensors], 1)
    /\ login' = NoLogin
    /\ saves' = saves + 1
    /\ UNCHANGED <<phase, listening, reg, off, dev, secret, options,
                   chosen, reverted, restarts>>

\* A dialog is closed without an answer; a restart closes them all.
Dismiss ==
    /\ \/ options.stage = "form" /\ options' = Closed /\ UNCHANGED login
       \/ login.stage = "form" /\ login' = NoLogin /\ UNCHANGED options
    /\ UNCHANGED <<entryVars, chosen, reverted, saves, restarts>>

RestartAll ==
    /\ restarts < MaxRestarts
    /\ Restart
    /\ options' = Closed
    /\ login' = NoLogin
    /\ restarts' = restarts + 1
    /\ UNCHANGED <<chosen, reverted, saves>>

Life == (LifeStep \/ Disable \/ DeleteDevice \/ SecretChanged) /\ UNCHANGED flowVars

Next ==
    \/ Life \/ RestartAll
    \/ OpenOptions \/ ShowOptions \/ SubmitOptions \/ Dismiss
    \/ \E kind \in {"reauth", "reconfigure"} : OpenLogin(kind)
    \/ SubmitLogin \/ LoginRefused \/ LoginAccepted

Spec == Init /\ [][Next]_vars

\* Home Assistant runs the setups, unloads and scheduled reloads it has
\* begun; nothing is assumed of the user or the router.
FairSpec == Spec /\ WF_vars(LifeStep /\ UNCHANGED flowVars)

-----------------------------------------------------------------------------
TypeOK ==
    /\ EntryTypeOK
    /\ options \in [stage : {"closed", "asking", "form"},
                    before : SUBSET Mac, seen : SUBSET Mac]
    /\ login \in [stage : {"closed", "form", "checking"}, data : Entry]
    /\ chosen \in SUBSET Mac
    /\ reverted \in BOOLEAN
    /\ saves \in Nat /\ restarts \in Nat

(***************************************************************************)
(* The tracked clients are the ones of the user's last save.  The one way  *)
(* round is a save that landed while a login dialog was waiting for the    *)
(* router: that dialog writes back the entry as it was before the wait.    *)
(***************************************************************************)
ChoiceKept == stored.choice.tracked = chosen \/ reverted

(***************************************************************************)
(* An instance that was overtaken by a change of the entry does not stay:  *)
(* it is taken down -- unless the change arrived while setup had read the  *)
(* entry and not yet registered its update listener.                       *)
(***************************************************************************)
OutdatedRunEnds == (Outdated /\ ~used.late) ~> ~Outdated

=============================================================================
