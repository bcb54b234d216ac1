---------------------------- MODULE SerialQueue ----------------------------
(***************************************************************************)
(* What the queue of the console promises, without tables and positions:   *)
(* runs wait in an order, and one at a time, the first of them, is taken   *)
(* and executed.  An interrupted run goes before all others; a run that    *)
(* failed may be submitted again; only the user changes the order.         *)
(***************************************************************************)
CONSTANTS Runs, None

VARIABLES
  waiting,    \* the runs in the queue
  before,     \* the order of their execution: <<r, s>> if r comes before s
  executing,  \* the run being executed, or None
  result      \* how a run ended last

svars == <<waiting, before, executing, result>>

Results == {"none", "succeeded", "failed", "cancelled"}

\* The strict total orders of the runs in S.
Orders(S) ==
  {R \in SUBSET (S \X S) :
     /\ \A r \in S : <<r, r>> \notin R
     /\ \A r, s \in S : r # s => <<r, s>> \in R \/ <<s, r>> \in R
     /\ \A r, s, t \in S : <<r, s>> \in R /\ <<s, t>> \in R => <<r, t>> \in R}

Among(S) == before \cap (S \X S)

SInit ==
  /\ waiting = {} /\ before = {} /\ executing = None
  /\ result = [r \in Runs |-> "none"]

\* Runs that are new, or failed before, go to the end, in some order.
Submit(new) ==
  /\ new # {} /\ new \cap waiting = {} /\ executing \notin new
  /\ \A r \in new : result[r] \in {"none", "failed"}
  /\ waiting' = waiting \cup new
  /\ before' \in Orders(waiting')
  /\ before \cup (waiting \X new) \subseteq before'
  /\ result' = [r \in Runs |-> IF r \in new THEN "none" ELSE result[r]]
  /\ UNCHANGED executing

Take ==
  /\ executing = None
  /\ \E r \in waiting :
       /\ \A s \in waiting \ {r} : <<r, s>> \in before
       /\ executing' = r /\ waiting' = waiting \ {r} /\ before' = Among(waiting')
  /\ UNCHANGED result

End(outcome) ==
  /\ executing # None
  /\ result' = [result EXCEPT ![executing] = outcome]
  /\ executing' = None
  /\ UNCHANGED <<waiting, before>>

Interrupt ==
  /\ executing # None
  /\ waiting' = waiting \cup {executing}
  /\ before' = before \cup ({executing} \X waiting)
  /\ executing' = None
  /\ UNCHANGED result

Withdraw(r) ==
  /\ r \in waiting
  /\ waiting' = waiting \ {r} /\ before' = Among(waiting')
  /\ result' = [result EXCEPT ![r] = "cancelled"]
  /\ UNCHANGED executing

Rearrange ==
  /\ before' \in Orders(waiting)
  /\ UNCHANGED <<waiting, executing, result>>

SNext ==
  \/ \E new \in SUBSET Runs : Submit(new)
  \/ Take \/ Interrupt \/ Rearrange
  \/ \E outcome \in Results \ {"none"} : End(outcome)
  \/ \E r \in Runs : Withdraw(r)

SSpec == SInit /\ [][SNext]_svars
=============================================================================
