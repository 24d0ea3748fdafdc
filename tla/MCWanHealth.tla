---------------------------- MODULE MCWanHealth ----------------------------
(***************************************************************************)
(* Small instances of WanHealth: a provider with a ping check and a backup *)
(* without one.                                                            *)
(***************************************************************************)
EXTENDS WanHealth

Line == [up |-> TRUE, link |-> TRUE, addr |-> "real", global |-> TRUE,
         priority |-> 1, inet |-> FALSE, failing |-> FALSE,
         disabled |-> FALSE, defaultgw |-> FALSE]

Default(i)  == [i EXCEPT !.defaultgw = TRUE]
LinkLost    == [Line EXCEPT !.up = FALSE, !.addr = "none"]
NoCable     == [Line EXCEPT !.link = FALSE]
NoLease     == [Line EXCEPT !.addr = "zero"]
SwitchedOff == [Line EXCEPT !.up = FALSE, !.disabled = TRUE]

Passing == {[testNet |-> FALSE, status |-> "pass"]}
Failing == {[testNet |-> FALSE, status |-> "fail"], [testNet |-> FALSE, status |-> "pass"]}
Probing == {[testNet |-> TRUE, status |-> "fail"], [testNet |-> FALSE, status |-> "pass"]}

Provider == {[iface |-> Default(Line), checks |-> Failing],
             [iface |-> Default(Line), checks |-> Probing],
             [iface |-> LinkLost, checks |-> {}]}

Backup == {[iface |-> Default(Line), checks |-> {}],
           [iface |-> SwitchedOff, checks |-> {}],
           [iface |-> Absent, checks |-> {}]}

MCReports == [w \in Wan |-> IF w = 1 THEN Provider ELSE Backup]
=============================================================================
