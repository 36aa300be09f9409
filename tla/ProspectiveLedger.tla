-------------------------- MODULE ProspectiveLedger --------------------------
(***************************************************************************)
(* What the forward registry promises a reader of its two evidence tables, *)
(* without runs, sessions or transactions: a prediction is written once,   *)
(* before the horizon it is about, and is later given at most one outcome, *)
(* never earlier than that horizon.  Nothing is ever revised.              *)
(***************************************************************************)
EXTENDS Naturals

VARIABLES
  predictions,  \* records [id, made, horizon, claim]
  outcomes      \* records [id, at, value]

Init == predictions = {} /\ outcomes = {}

NewPrediction(p) ==
  /\ p.made < p.horizon
  /\ \A q \in predictions' : q.id = p.id => q = p

Predict ==
  /\ predictions \subseteq predictions'
  /\ \A p \in predictions' \ predictions : NewPrediction(p)
  /\ UNCHANGED outcomes

NewOutcome(o) ==
  /\ \E p \in predictions : p.id = o.id /\ p.horizon <= o.at
  /\ \A q \in outcomes' : q.id = o.id => q = o

Settle ==
  /\ outcomes \subseteq outcomes'
  /\ \A o \in outcomes' \ outcomes : NewOutcome(o)
  /\ UNCHANGED predictions

Next == Predict \/ Settle

Spec == Init /\ [][Next]_<<predictions, outcomes>>
=============================================================================
