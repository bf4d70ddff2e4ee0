------------------------- MODULE BillingRefinement -------------------------
(***************************************************************************)
(* Billing implements Entitlement: its initial states are the promise's,   *)
(* and every step of a handler, of LiqPay or of the operator, seen through *)
(* the purchases made and the plan and status of each row, is a step the   *)
(* promise allows or leaves it as it was.                                  *)
(***************************************************************************)
EXTENDS BillingProofs

\* The values the promise's variables are mapped to.
Bought == {<<order.user, order.plan>> : order \in paid}
Access == [u \in User |-> users[u].plan]
Label  == [u \in User |-> users[u].status]

MayGrant == (IF "SetPlan" \in Operators THEN {"plan"} ELSE {})
            \cup (IF "ExtendTrial" \in Operators THEN {"trial"} ELSE {})

Stutter == UNCHANGED <<Bought, Access, Label>>

\* A promise step, or none.
Allowed == Promise!Next \/ Stutter

LEMMA Grants ==
    /\ "SetPlan" \in Operators => "plan" \in MayGrant
    /\ "ExtendTrial" \in Operators => "trial" \in MayGrant
BY DEF MayGrant

LEMMA InitImplements == Init => Promise!Init
<1> SUFFICES ASSUME Init PROVE Promise!Init
  OBVIOUS
<1>1. Bought = {}
  BY DEF Init, Bought
<1>2. Access = [u \in User |-> "free"]
  BY DEF Init, Access
<1>3. Label = [u \in User |-> ""]
  BY DEF Init, Label
<1>4. QED
  BY <1>1, <1>2, <1>3 DEF Promise!Init, Bought, Access, Label

\* What UpdateSubscription does to the mapped variables.
LEMMA UpdateGives ==
    ASSUME TypeOK, NEW u \in User, NEW plan \in Plan, NEW status \in Status,
           NEW trialEnd \in Nat, UpdateSubscription(u, plan, status, trialEnd),
           paid' = paid
    PROVE  Promise!Give(u, plan, status)
<1>0. /\ users'[u] = [plan |-> plan, status |-> status, trialEnd |-> trialEnd,
                      order |-> users[u].order]
      /\ \A v \in User \ {u} : users'[v] = users[v]
  BY UpdateTyped
<1>1. /\ users'[u].plan = plan /\ users'[u].status = status
      /\ \A v \in User \ {u} : users'[v] = users[v]
  BY <1>0
<1>2. Access' = [Access EXCEPT ![u] = plan]
  BY <1>1 DEF Access
<1>3. Label' = [Label EXCEPT ![u] = status]
  BY <1>1 DEF Label
<1>4. Bought' = Bought
  BY DEF Bought
<1>5. QED
  BY <1>2, <1>3, <1>4 DEF Promise!Give, Access, Label, Bought

\* A downgrade, or a row given back.
LEMMA FreeAllowed ==
    ASSUME TypeOK, NEW u \in User, NEW status \in {"", "canceled"},
           UpdateSubscription(u, "free", status, NoTime), paid' = paid
    PROVE  Promise!Next
<1>1. "free" \in Plan /\ status \in Status /\ NoTime \in Nat
  BY DEF Plan, Status, NoTime
<1>2. Promise!Give(u, "free", status)
  BY <1>1, UpdateGives
<1>3. Promise!Withdraw(u)
  BY <1>2 DEF Promise!Withdraw
<1>4. QED
  BY <1>3 DEF Promise!Next

\* A step that changes neither a plan, nor a status, nor a purchase.
LEMMA QuietStep == users' = users /\ paid' = paid => Stutter
BY DEF Bought, Access, Label, Stutter

\* The switch of HandleCallback: a purchase takes effect, or is withdrawn.
LEMMA OutcomeAllowed ==
    ASSUME Inv, NEW u \in User, NEW order \in issued, NEW event \in Event,
           NEW trialEnd \in Nat, ApplyOutcome(u, order, event, trialEnd),
           order.user = u, event \in PaidEvent => order \in paid, paid' = paid
    PROVE  Allowed
<1>0. /\ TypeOK /\ order.plan \in Plan /\ order.plan \in Promise!Priced /\ NoTime \in Nat
      /\ order.flow \in Flow /\ SoundOrder(order)
  BY DEF Inv, TypeOK, SetsInv, Order, Priced, Promise!Priced, Plan, NoTime
<1>1. event \in PaidEvent => <<u, order.plan>> \in Bought
  BY DEF Bought
<1>2. ASSUME event = "subscribed", order.flow = "direct" PROVE Promise!Next
  <2>1. UpdateSubscription(u, order.plan, "active", trialEnd) /\ "active" \in Status
    BY <1>2 DEF ApplyOutcome, Status
  <2>2. Promise!Activate(u, order.plan)
    BY <1>0, <1>1, <1>2, <2>1, UpdateGives DEF Promise!Activate, Bought, PaidEvent
  <2>3. QED
    BY <1>0, <2>2 DEF Promise!Next
<1>3. ASSUME event = "subscribed", order.flow # "direct" PROVE Promise!Next
  <2>1. order.plan = "max"
    BY <1>0, <1>3 DEF SoundOrder, Flow
  <2>2. UpdateSubscription(u, "max", "trialing", trialEnd) /\ "trialing" \in Status
    BY <1>3, <2>1 DEF ApplyOutcome, Status
  <2>3. Promise!Give(u, "max", "trialing")
    BY <1>0, <2>1, <2>2, UpdateGives
  <2>4. Promise!BeginTrial(u)
    BY <1>1, <1>3, <2>1, <2>3 DEF Promise!BeginTrial, Bought, PaidEvent
  <2>5. QED
    BY <2>4 DEF Promise!Next
<1>4. ASSUME event = "success" PROVE Promise!Next
  <2>1. UpdateSubscription(u, order.plan, "active", NoTime) /\ "active" \in Status
    BY <1>4 DEF ApplyOutcome, Status
  <2>2. Promise!Activate(u, order.plan)
    BY <1>0, <1>1, <1>4, <2>1, UpdateGives DEF Promise!Activate, Bought, PaidEvent
  <2>3. QED
    BY <1>0, <2>2 DEF Promise!Next
<1>5. ASSUME event \in {"failure", "unsubscribed"} PROVE Promise!Next
  BY <1>0, <1>5, FreeAllowed DEF ApplyOutcome
<1>6. ASSUME event = "other" PROVE Stutter
  BY <1>6, QuietStep DEF ApplyOutcome
<1>7. QED
  BY <1>2, <1>3, <1>4, <1>5, <1>6 DEF Event, Allowed

\* A checkout only changes the label.
LEMMA CheckoutAllowed ==
    ASSUME TypeOK, NEW u \in User, NEW order \in Order, NEW trialEnd \in Nat,
           BeginCheckout(u, order, trialEnd), paid' = paid
    PROVE  Promise!Next
<1>1. /\ users'[u] = [plan |-> users[u].plan, status |-> "pending",
                      trialEnd |-> trialEnd, order |-> order]
      /\ \A v \in User \ {u} : users'[v] = users[v]
  BY BeginTyped
<1>2. users'[u].plan = users[u].plan /\ users'[u].status = "pending"
  BY <1>1
<1>3. Access' = [Access EXCEPT ![u] = Access[u]]
  BY <1>1, <1>2 DEF Access
<1>4. Label' = [Label EXCEPT ![u] = "pending"]
  BY <1>1, <1>2 DEF Label
<1>5. Bought' = Bought
  BY DEF Bought
<1>6. Promise!Checkout(u)
  BY <1>3, <1>4, <1>5 DEF Promise!Checkout, Promise!Give, Access, Label, Bought
<1>7. QED
  BY <1>6 DEF Promise!Next

\* ExtendTrial is the operator's grant of a trial.
LEMMA ExtendAllowed ==
    ASSUME TypeOK, NEW u \in User, NEW trialEnd \in Nat, "ExtendTrial" \in Operators,
           UpdateSubscription(u, "max", "trialing", trialEnd), paid' = paid
    PROVE  Promise!Next
<1>1. "max" \in Plan /\ "trialing" \in Status
  BY DEF Plan, Status
<1>2. Promise!Give(u, "max", "trialing")
  BY <1>1, UpdateGives
<1>3. Promise!BeginTrial(u)
  BY <1>2, Grants DEF Promise!BeginTrial, MayGrant
<1>4. QED
  BY <1>3 DEF Promise!Next

LEMMA StepAllowed ==
    ASSUME Inv, NEW t \in Thread, Step(t)
    PROVE  Allowed
<1>0. TypeOK /\ thr[t] \in Local /\ SoundLocal(thr[t])
  BY DEF Inv, TypeOK
<1>1. CASE FinishCheckout(t)
  <2>1. /\ thr[t].user \in User /\ thr[t].order \in Order
        /\ TrialEnd(thr[t].order) \in Nat
    BY <1>0, <1>1, LocalFields, TrialEndTyped DEF FinishCheckout
  <2>2. BeginCheckout(thr[t].user, thr[t].order, TrialEnd(thr[t].order)) /\ paid' = paid
    BY <1>1 DEF FinishCheckout
  <2>3. QED
    BY <1>0, <2>1, <2>2, CheckoutAllowed DEF Allowed
<1>2. CASE RecordPayment(t)
  BY <1>2, QuietStep DEF RecordPayment, liqpay, Allowed
<1>3. CASE ApplyCallback(t)
  <2> DEFINE l == thr[t]
  <2>1. /\ l.user \in User /\ l.order \in issued /\ l.event \in Event /\ l.trialEnd \in Nat
        /\ l.order.user = l.user /\ (l.event \in PaidEvent => l.order \in paid)
    BY <1>0, <1>3, LocalFields DEF ApplyCallback, SoundLocal
  <2>2. ApplyOutcome(l.user, l.order, l.event, l.trialEnd) /\ paid' = paid
    BY <1>3 DEF ApplyCallback
  <2> HIDE DEF l
  <2>3. QED
    BY <2>1, <2>2, OutcomeAllowed
<1>4. CASE Unsubscribe(t)
  BY <1>4, QuietStep DEF Unsubscribe, EndOrRefuse, EndSubscription, db, Allowed
<1>5. CASE UnsubscribeFails(t)
  BY <1>5, QuietStep
     DEF UnsubscribeFails, EndOrRefuse, EndSubscription, db, liqpay, Allowed
<1>6. CASE Downgrade(t)
  <2>1. thr[t].user \in User
    BY <1>0, <1>6, LocalFields DEF Downgrade
  <2>2. UpdateSubscription(thr[t].user, "free", "canceled", NoTime) /\ paid' = paid
    BY <1>6 DEF Downgrade, liqpay
  <2>3. QED
    BY <1>0, <2>1, <2>2, FreeAllowed DEF Allowed
<1>7. CASE FinishExtend(t)
  <2> DEFINE base == IF thr[t].trialEnd < now THEN now ELSE thr[t].trialEnd
             u == thr[t].user
  <2>1. u \in User /\ thr[t].trialEnd \in Nat /\ "ExtendTrial" \in Operators
    BY <1>0, <1>7, LocalFields DEF FinishExtend, SoundLocal
  <2>2. base + 1 \in Nat
    BY <1>0, <2>1 DEF TypeOK
  <2>3. UpdateSubscription(u, "max", "trialing", base + 1) /\ paid' = paid
    BY <1>7 DEF FinishExtend, liqpay
  <2> HIDE DEF base, u
  <2>4. QED
    BY <1>0, <2>1, <2>2, <2>3, ExtendAllowed DEF Allowed
<1>8. CASE AdminCancel(t)
  BY <1>8, QuietStep DEF AdminCancel, db, liqpay, Allowed
<1>9. CASE Release(t)
  <2>1. thr[t].user \in User
    BY <1>0, <1>9, LocalFields DEF Release
  <2>2. UpdateSubscription(thr[t].user, "free", "", NoTime) /\ paid' = paid
    BY <1>9 DEF Release, liqpay
  <2>3. QED
    BY <1>0, <2>1, <2>2, FreeAllowed DEF Allowed
<1>10. CASE DbFails(t)
  BY <1>10, QuietStep DEF DbFails, db, Allowed
<1>11. QED
  BY <1>1, <1>2, <1>3, <1>4, <1>5, <1>6, <1>7, <1>8, <1>9, <1>10 DEF Step

LEMMA SetPlanAllowed ==
    ASSUME Inv, NEW u \in User, NEW plan \in Plan, SetPlan(u, plan)
    PROVE  Promise!Next
<1>0. TypeOK /\ paid' = paid /\ NoTime \in Nat
  BY DEF Inv, SetPlan, liqpay, NoTime
<1>1. CASE plan = "free"
  BY <1>0, <1>1, FreeAllowed DEF SetPlan
<1>2. CASE plan # "free"
  <2>1. UpdateSubscription(u, plan, "manual", NoTime) /\ "manual" \in Status
    BY <1>2 DEF SetPlan, Status
  <2>2. Promise!Give(u, plan, "manual")
    BY <1>0, <2>1, UpdateGives
  <2>3. Promise!GrantPlan(u, plan) /\ plan \in {"pro", "max", "enterprise"}
    BY <1>2, <2>2, Grants DEF Promise!GrantPlan, SetPlan, MayGrant, Plan
  <2>4. QED
    BY <2>3 DEF Promise!Next
<1>3. QED
  BY <1>1, <1>2

LEMMA PayAllowed ==
    ASSUME Inv, NEW order \in issued, Pay(order)
    PROVE  Promise!Next
<1>1. order \in Order /\ order.user \in User /\ order.plan \in Promise!Priced
  BY DEF Inv, TypeOK, Order, Priced, Promise!Priced
<1>2. paid' = paid \cup {order} /\ users' = users
  BY DEF Pay, db
<1>3. Bought' = Bought \cup {<<order.user, order.plan>>}
  BY <1>2 DEF Bought
<1>4. Access' = Access /\ Label' = Label
  BY <1>2 DEF Access, Label
<1>5. Promise!Buy(order.user, order.plan)
  BY <1>3, <1>4 DEF Promise!Buy, Bought, Access, Label
<1>6. QED
  BY <1>1, <1>5 DEF Promise!Next

\* Every step of Billing is allowed.
LEMMA NextAllowed == Inv /\ [Next]_vars => Allowed
<1> SUFFICES ASSUME Inv, [Next]_vars PROVE Allowed
  OBVIOUS
<1>1. ASSUME NEW t \in Thread, NEW u \in User, Request(t, u) PROVE Allowed
  BY <1>1, QuietStep DEF Request, StartTrial, Subscribe, CheckNoSubscription, Cancel,
     ExtendTrial, CancelSubscription, db, liqpay, Allowed
<1>2. ASSUME NEW cb \in inflight, Deliver(cb) PROVE Allowed
  BY <1>2, QuietStep DEF Deliver, UnknownOrder, LookUpOrder, db, liqpay, Allowed
<1>3. ASSUME NEW order \in issued, LiqPay(order) PROVE Allowed
  <2>1. CASE Pay(order)
    BY <2>1, PayAllowed DEF Allowed
  <2>2. CASE ~Pay(order)
    BY <1>3, <2>2, QuietStep DEF LiqPay, Report, Charge, Terminate, EndSubscription, db,
       Allowed
  <2>3. QED
    BY <2>1, <2>2
<1>4. CASE Tick \/ Crash
  BY <1>4, QuietStep DEF Tick, Crash, db, liqpay, Allowed
<1>5. CASE UNCHANGED vars
  BY <1>5, QuietStep DEF vars, db, liqpay, Allowed
<1>6. QED
  BY <1>1, <1>2, <1>3, <1>4, <1>5, StepAllowed, SetPlanAllowed DEF Next, Allowed

\* Billing implements Entitlement: no interleaving of requests, callbacks,
\* restarts and operators raises a plan that was neither bought nor granted.
THEOREM BillingImplementsEntitlement == Spec => ImplementsPromise
<1>1. Allowed => [Promise!Next]_Promise!vars
  BY DEF Allowed, Stutter, Promise!vars, Bought, Access, Label
<1>2. Inv /\ [Next]_vars => [Promise!Next]_Promise!vars
  BY <1>1, NextAllowed
<1>3. QED
  BY InitImplements, <1>2, Safe, PTL DEF Spec, ImplementsPromise, Promise!Spec

=============================================================================
