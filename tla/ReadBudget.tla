----------------------------- MODULE ReadBudget ------------------------------
(* What read admission promises, with no clock, no database row and no       *)
(* executor: a budget of Limit reads, one slot, every identity reads at most  *)
(* once, and the slot is passed on only when the database read that used it   *)
(* is over.  Ops README: "one active read across all users of the same        *)
(* record"; "denied requests do not create database reads or refund           *)
(* admissions".                                                               *)
EXTENDS Naturals, FiniteSets

CONSTANTS Ids, Limit

VARIABLES
    spent,      \* identities that consumed allowance
    slot,       \* the identity holding the slot, as a set of at most one
    reading,    \* identities whose database read is open
    begun       \* identities whose database read was ever opened

budgetVars == <<spent, slot, reading, begun>>

BudgetInit == spent = {} /\ slot = {} /\ reading = {} /\ begun = {}

Spend(id) ==
    /\ slot = {} /\ reading = {}
    /\ id \notin spent /\ Cardinality(spent) < Limit
    /\ spent' = spent \cup {id} /\ slot' = {id}
    /\ UNCHANGED <<reading, begun>>

Begin(id) ==
    /\ slot = {id} /\ id \notin begun
    /\ reading' = {id} /\ begun' = begun \cup {id}
    /\ UNCHANGED <<spent, slot>>

Finish(id) ==
    /\ reading = {id}
    /\ reading' = {}
    /\ UNCHANGED <<spent, slot, begun>>

Release ==
    /\ reading = {} /\ slot' = {}
    /\ UNCHANGED <<spent, reading, begun>>

BudgetNext == Release \/ \E id \in Ids : Spend(id) \/ Begin(id) \/ Finish(id)

BudgetSpec == BudgetInit /\ [][BudgetNext]_budgetVars

=============================================================================
