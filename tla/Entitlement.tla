---------------------------- MODULE Entitlement ----------------------------
(***************************************************************************)
(* What the subscription code promises about access, without orders,       *)
(* callbacks, receipts or goroutines: a user's plan rises only because     *)
(* that user bought that plan or the operator granted one, and it is       *)
(* called paid ("active") only for a bought plan.                          *)
(***************************************************************************)
CONSTANTS
    User,
    Grants     \* what the operator may do: a subset of {"plan", "trial"}

VARIABLES
    purchases, \* the <<user, plan>> pairs customers paid for at LiqPay
    access,    \* access[u]: the plan user u's requests are served under
    label      \* label[u]: why; the row's subscription_status

vars == <<purchases, access, label>>

Priced == {"pro", "max"}

Init ==
    /\ purchases = {}
    /\ access = [u \in User |-> "free"]
    /\ label = [u \in User |-> ""]

Give(u, plan, why) ==
    /\ access' = [access EXCEPT ![u] = plan]
    /\ label' = [label EXCEPT ![u] = why]
    /\ UNCHANGED purchases

Buy(u, plan) ==
    /\ purchases' = purchases \cup {<<u, plan>>}
    /\ UNCHANGED <<access, label>>

\* A purchase takes effect: at once, or as the trial of Max that precedes it.
Activate(u, plan) == <<u, plan>> \in purchases /\ Give(u, plan, "active")

BeginTrial(u) ==
    /\ "trial" \in Grants \/ <<u, "max">> \in purchases
    /\ Give(u, "max", "trialing")

GrantPlan(u, plan) == "plan" \in Grants /\ plan # "free" /\ Give(u, plan, "manual")

Withdraw(u) == \E why \in {"", "canceled"} : Give(u, "free", why)

\* A checkout never changes the plan, whatever it is at that moment.
Checkout(u) == Give(u, access[u], "pending")

Next ==
    \E u \in User :
        \/ \E plan \in Priced : Buy(u, plan) \/ Activate(u, plan)
        \/ \E plan \in {"pro", "max", "enterprise"} : GrantPlan(u, plan)
        \/ BeginTrial(u) \/ Withdraw(u) \/ Checkout(u)

Spec == Init /\ [][Next]_vars

=============================================================================
