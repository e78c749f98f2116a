-------------------------------- MODULE Desk ---------------------------------
(***************************************************************************)
(* What applying promises the user, whatever the requests do to each       *)
(* other: a request files all the applications it reports and announces    *)
(* each of them, or it files nothing; and what it reports is true unless   *)
(* it reports a job it skipped as well.                                    *)
(***************************************************************************)
EXTENDS Naturals, FiniteSets

CONSTANTS
  Requests, None,
  MaxQueued     \* what one request may file

VARIABLES
  filed,        \* applications on record: <<request, number>>
  told,         \* the applications the user was notified of
  answer        \* how each request ended: None, or [ok, queued, skipped]

desk == <<filed, told, answer>>

Refused == [ok |-> FALSE, queued |-> 0, skipped |-> FALSE]
Init == filed = {} /\ told = {} /\ answer = [p \in Requests |-> None]

(* An answer may get lost with the connection, its effect then stays.      *)
Serve(p) ==
  \E n \in 0..MaxQueued, ok \in BOOLEAN, skipped \in BOOLEAN :
    LET new == {<<p, k>> : k \in 1..n}
    IN /\ answer[p] = None
       /\ filed' = filed \cup new /\ told' = told \cup new
       /\ answer' = [answer EXCEPT ![p] = IF ok THEN [ok |-> TRUE, queued |-> n, skipped |-> skipped] ELSE Refused]

Refuse(p) ==
  /\ answer[p] = None
  /\ answer' = [answer EXCEPT ![p] = Refused]
  /\ UNCHANGED <<filed, told>>

(* A skipped job may have taken the whole transaction with it.             *)
Mislead(p) ==
  /\ answer[p] = None
  /\ \E n \in 0..MaxQueued :
       answer' = [answer EXCEPT ![p] = [ok |-> TRUE, queued |-> n, skipped |-> TRUE]]
  /\ UNCHANGED <<filed, told>>

Next == \E p \in Requests : Serve(p) \/ Refuse(p) \/ Mislead(p)
Spec == Init /\ [][Next]_desk
=============================================================================
