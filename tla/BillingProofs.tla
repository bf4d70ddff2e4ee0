--------------------------- MODULE BillingProofs ---------------------------
(***************************************************************************)
(* Proofs about Billing, for every number of users and goroutines, every   *)
(* choice of faults and operators, and every bound.                        *)
(***************************************************************************)
EXTENDS Billing, TLAPS

-----------------------------------------------------------------------------
(* What a goroutine's locals hold, by where it is.                         *)

LEMMA LocalFields ==
    ASSUME NEW l \in Local
    PROVE  /\ l.pc \in {"idle", "begin", "record", "apply", "adminCancel", "release",
                        "unsubscribe", "downgrade", "extend"}
           /\ l.pc = "begin" => l.user \in User /\ l.order \in Order
           /\ l.pc \in {"record", "apply"} =>
                 /\ l.user \in User /\ l.order \in Order
                 /\ l.event \in Event /\ l.trialEnd \in Nat
                 /\ l = [pc |-> l.pc, user |-> l.user, order |-> l.order,
                         event |-> l.event, trialEnd |-> l.trialEnd]
           /\ l.pc \in {"adminCancel", "release"} => l.user \in User
           /\ l.pc = "unsubscribe" =>
                 l.user \in User /\ l.order \in Order /\ l.by \in {"user", "admin"}
           /\ l.pc = "downgrade" => l.user \in User /\ l.by \in {"user", "admin"}
           /\ l.pc = "extend" => l.user \in User /\ l.trialEnd \in Nat
<1>1. CASE l = Idle
  BY <1>1 DEF Idle
<1>2. CASE l \in [pc : {"begin"}, user : User, order : Order]
  BY <1>2
<1>3. CASE l \in [pc : {"record", "apply"}, user : User, order : Order,
                  event : Event, trialEnd : Nat]
  BY <1>3
<1>4. CASE l \in [pc : {"adminCancel", "release"}, user : User]
  BY <1>4
<1>5. CASE l \in [pc : {"unsubscribe"}, user : User, order : Order,
                  by : {"user", "admin"}]
  BY <1>5
<1>6. CASE l \in [pc : {"downgrade"}, user : User, by : {"user", "admin"}]
  BY <1>6
<1>7. CASE l \in [pc : {"extend"}, user : User, trialEnd : Nat]
  BY <1>7
<1>8. QED
  BY <1>1, <1>2, <1>3, <1>4, <1>5, <1>6, <1>7 DEF Local

LEMMA StepWrites ==
    ASSUME TypeOK, NEW t \in Thread, NEW l \in Local, thr' = [thr EXCEPT ![t] = l]
    PROVE  thr' \in [Thread -> Local]
BY DEF TypeOK

LEMMA UpdateTyped ==
    ASSUME TypeOK, NEW u \in User, NEW plan \in Plan, NEW status \in Status,
           NEW trialEnd \in Nat, UpdateSubscription(u, plan, status, trialEnd)
    PROVE  /\ users' \in [User -> Row]
           /\ users'[u] = [plan |-> plan, status |-> status, trialEnd |-> trialEnd,
                           order |-> users[u].order]
           /\ \A v \in User \ {u} : users'[v] = users[v]
BY DEF TypeOK, UpdateSubscription, Row

LEMMA BeginTyped ==
    ASSUME TypeOK, NEW u \in User, NEW order \in Order,
           NEW trialEnd \in Nat, BeginCheckout(u, order, trialEnd)
    PROVE  /\ users' \in [User -> Row]
           /\ users'[u] = [plan |-> users[u].plan, status |-> "pending",
                           trialEnd |-> trialEnd, order |-> order]
           /\ \A v \in User \ {u} : users'[v] = users[v]
BY DEF TypeOK, BeginCheckout, Row, Status

-----------------------------------------------------------------------------
(* Type correctness.                                                       *)

LEMMA EndTyped ==
    ASSUME TypeOK, NEW order \in Order, EndOrRefuse(order)
    PROVE  /\ issued' = issued /\ paid' = paid
           /\ ended \subseteq ended' /\ ended' \subseteq Order
           /\ inflight' \subseteq Callback
           /\ \A cb \in inflight' :
                 cb \in inflight \/ cb = [order |-> order, event |-> "unsubscribed"]
           /\ sends' \in Nat
BY DEF TypeOK, EndSubscription, EndOrRefuse, Callback, Event

LEMMA AnswerTyped ==
    ASSUME TypeOK, NEW order, NEW event, Answer(order, event)
    PROVE  inflight' \subseteq inflight /\ sends' \in Nat
BY DEF TypeOK, Answer

LEMMA SendTyped ==
    ASSUME TypeOK, NEW order \in Order, NEW event \in Event, Send(order, event)
    PROVE  /\ inflight' = inflight \cup {[order |-> order, event |-> event]}
           /\ inflight' \subseteq Callback /\ sends' \in Nat
BY DEF TypeOK, Send, Callback

LEMMA OrderIdTyped ==
    ASSUME TypeOK, NEW u \in User, NEW flow \in Flow, NEW plan \in Priced
    PROVE  orderID(flow, plan, u) \in Order
BY DEF TypeOK, orderID, Order

LEMMA TrialEndTyped == ASSUME NEW order \in Order PROVE TrialEnd(order) \in Nat
BY TrialLenAssumption DEF TrialEnd, Order, NoTime

LEMMA IdleLocal == Idle \in Local
BY DEF Local

LEMMA TypeInit == Init => TypeOK
<1> SUFFICES ASSUME Init PROVE TypeOK
  OBVIOUS
<1>1. users \in [User -> Row]
  BY DEF Init, Row, Plan, Status, NoTime
<1>2. thr \in [Thread -> Local]
  BY IdleLocal DEF Init
<1>3. sends \in Nat /\ now \in Nat \ {0} /\ crashes \in Nat
  <2>1. sends = 0 /\ now = 1 /\ crashes = 0
    BY Zenon DEF Init
  <2>2. QED
    BY <2>1
<1>4. /\ receipts \subseteq Receipt /\ issued \subseteq Order /\ paid \subseteq Order
      /\ ended \subseteq Order /\ answered \subseteq User /\ inflight \subseteq Callback
  BY DEF Init
<1>5. QED
  BY <1>1, <1>2, <1>3, <1>4 DEF TypeOK

\* The operation a new request starts.
LEMMA RequestTyped ==
    ASSUME TypeOK, NEW t \in Thread, NEW u \in User, Request(t, u)
    PROVE  /\ \E l \in Local : Start(t, l)
           /\ UNCHANGED <<db, liqpay, env>>
<1>1. ASSUME NEW flow \in Flow, NEW plan \in Priced,
             CheckNoSubscription(t, u, flow, plan)
      PROVE  (\E l \in Local : Start(t, l)) /\ UNCHANGED <<db, liqpay, env>>
  <2> DEFINE l == [pc |-> "begin", user |-> u, order |-> orderID(flow, plan, u)]
  <2>1. l \in Local
    BY OrderIdTyped DEF Local
  <2>2. QED
    BY <1>1, <2>1 DEF CheckNoSubscription
<1>2. CASE StartTrial(t, u)
  BY <1>1, <1>2 DEF StartTrial, Flow, Priced
<1>3. ASSUME NEW plan \in Priced, Subscribe(t, u, plan)
      PROVE  (\E l \in Local : Start(t, l)) /\ UNCHANGED <<db, liqpay, env>>
  BY <1>1, <1>3 DEF Subscribe, Flow
<1>4. CASE Cancel(t, u)
  <2> DEFINE l == [pc |-> "unsubscribe", user |-> u, order |-> users[u].order,
                   by |-> "user"]
  <2>1. l \in Local
    BY <1>4 DEF Cancel, TypeOK, Row, Local
  <2>2. QED
    BY <1>4, <2>1 DEF Cancel
<1>5. CASE ExtendTrial(t, u)
  <2> DEFINE l == [pc |-> "extend", user |-> u, trialEnd |-> users[u].trialEnd]
  <2>1. l \in Local
    BY DEF TypeOK, Row, Local
  <2>2. QED
    BY <1>5, <2>1 DEF ExtendTrial
<1>6. CASE CancelSubscription(t, u)
  <2> DEFINE l == [pc |-> IF users[u].order = NoOrder THEN "release" ELSE "adminCancel",
                   user |-> u]
  <2>1. l \in Local
    BY DEF Local
  <2>2. QED
    BY <1>6, <2>1 DEF CancelSubscription
<1>7. QED
  BY <1>2, <1>3, <1>4, <1>5, <1>6 DEF Request

LEMMA DeliverTyped ==
    ASSUME TypeOK, NEW cb \in inflight, Deliver(cb)
    PROVE  TypeOK'
<1>1. ASSUME NEW t \in Thread, UnknownOrder(t, cb) PROVE TypeOK'
  BY <1>1 DEF UnknownOrder, TypeOK, db, env
<1>2. ASSUME NEW t \in Thread, LookUpOrder(t, cb) PROVE TypeOK'
  <2>1. PICK u \in User : Start(t, [pc |-> "record", user |-> u, order |-> cb.order,
                        event |-> cb.event, trialEnd |-> users[u].trialEnd])
    BY <1>2 DEF LookUpOrder
  <2>2. [pc |-> "record", user |-> u, order |-> cb.order,
         event |-> cb.event, trialEnd |-> users[u].trialEnd] \in Local
    BY DEF TypeOK, Callback, Row, Local
  <2>3. thr' \in [Thread -> Local]
    BY <2>1, <2>2, StepWrites DEF Start
  <2>4. QED
    BY <1>2, <2>3 DEF LookUpOrder, TypeOK, db, liqpay, env
<1>3. QED
  BY <1>1, <1>2 DEF Deliver

LEMMA LiqPayTyped ==
    ASSUME TypeOK, NEW order \in issued, LiqPay(order)
    PROVE  TypeOK'
<1>0. order \in Order
  BY DEF TypeOK
<1>1. CASE Pay(order)
  BY <1>0, <1>1, SendTyped DEF Pay, TypeOK, db, env, Event
<1>2. ASSUME NEW event \in {"failure", "other"}, Report(order, event) PROVE TypeOK'
  BY <1>0, <1>2, SendTyped DEF Report, TypeOK, db, env, Event
<1>3. CASE Charge(order)
  BY <1>0, <1>3, SendTyped DEF Charge, TypeOK, db, env, Event
<1>4. CASE Terminate(order)
  <2>1. EndOrRefuse(order)
    BY <1>4 DEF Terminate, EndOrRefuse
  <2>2. QED
    BY <1>0, <1>4, <2>1, EndTyped DEF Terminate, TypeOK, db, env
<1>5. QED
  BY <1>1, <1>2, <1>3, <1>4 DEF LiqPay

LEMMA AnswerKeepsTypes ==
    ASSUME TypeOK, NEW order, NEW event, Answer(order, event)
    PROVE  inflight' \subseteq Callback /\ sends' \in Nat
BY AnswerTyped DEF TypeOK

LEMMA OutcomeTyped ==
    ASSUME TypeOK, NEW u \in User, NEW order \in Order, NEW event \in Event,
           NEW trialEnd \in Nat, ApplyOutcome(u, order, event, trialEnd)
    PROVE  users' \in [User -> Row]
<1> order.plan \in Plan /\ NoTime \in Nat
  BY DEF Order, Priced, Plan, NoTime
<1>1. CASE event = "subscribed"
  <2> DEFINE status == IF order.flow = "direct" THEN "active" ELSE "trialing"
  <2>1. status \in Status
    BY DEF Status
  <2>2. UpdateSubscription(u, order.plan, status, trialEnd)
    BY <1>1 DEF ApplyOutcome
  <2>3. QED
    BY <2>1, <2>2, UpdateTyped
<1>2. CASE event = "success"
  BY <1>2, UpdateTyped DEF ApplyOutcome, Status
<1>3. CASE event \in {"failure", "unsubscribed"}
  BY <1>3, UpdateTyped DEF ApplyOutcome, Status, Plan
<1>4. CASE event = "other"
  BY <1>4 DEF ApplyOutcome, TypeOK
<1>5. QED
  BY <1>1, <1>2, <1>3, <1>4 DEF Event

LEMMA StepTyped ==
    ASSUME TypeOK, NEW t \in Thread, Step(t)
    PROVE  TypeOK'
<1> DEFINE l == thr[t]
<1>l. l \in Local
  BY DEF TypeOK
<1>idle. Return(t) => thr' \in [Thread -> Local]
  BY StepWrites, IdleLocal DEF Return
<1>goto. ASSUME NEW k \in Local, Goto(t, k) PROVE thr' \in [Thread -> Local]
  BY <1>goto, StepWrites DEF Goto
<1>consts. NoTime \in Nat /\ {"free", "max"} \subseteq Plan
           /\ {"", "canceled", "trialing"} \subseteq Status
  BY DEF NoTime, Plan, Status
<1>1. CASE FinishCheckout(t)
  <2>1. l.user \in User /\ l.order \in Order
    BY <1>1, <1>l, LocalFields DEF FinishCheckout
  <2>2. users' \in [User -> Row]
    BY <1>1, <2>1, BeginTyped, TrialEndTyped DEF FinishCheckout
  <2>3. QED
    BY <1>1, <2>1, <2>2, <1>idle DEF FinishCheckout, TypeOK, env
<1>2. CASE RecordPayment(t)
  <2>1. /\ l.user \in User /\ l.order \in Order /\ l.event \in Event /\ l.trialEnd \in Nat
        /\ l = [pc |-> l.pc, user |-> l.user, order |-> l.order,
                event |-> l.event, trialEnd |-> l.trialEnd]
    BY <1>2, <1>l, LocalFields DEF RecordPayment
  <2>2. [l EXCEPT !.pc = "apply"] \in Local
    BY <2>1 DEF Local
  <2>3. receipts' \subseteq Receipt
    BY <1>2, <2>1 DEF RecordPayment, TypeOK, Receipt
  <2>4. QED
    BY <1>2, <2>2, <2>3, <1>goto DEF RecordPayment, TypeOK, liqpay, env
<1>3. CASE ApplyCallback(t)
  <2>1. l.user \in User /\ l.order \in Order /\ l.event \in Event /\ l.trialEnd \in Nat
    BY <1>3, <1>l, LocalFields DEF ApplyCallback
  <2>2. users' \in [User -> Row]
    BY <1>3, <2>1, OutcomeTyped DEF ApplyCallback
  <2>3. inflight' \subseteq Callback /\ sends' \in Nat
    BY <1>3, AnswerKeepsTypes DEF ApplyCallback
  <2>4. QED
    BY <1>3, <2>2, <2>3, <1>idle DEF ApplyCallback, TypeOK, env
<1>4. CASE Unsubscribe(t)
  <2>1. /\ l.user \in User /\ l.order \in Order /\ l.order.user \in User
        /\ l.by \in {"user", "admin"}
    BY <1>4, <1>l, LocalFields DEF Unsubscribe, Order
  <2>2. [pc |-> "downgrade", user |-> l.user, by |-> l.by] \in Local
    BY <2>1 DEF Local
  <2>3. QED
    BY <1>4, <2>1, <2>2, <1>goto, EndTyped DEF Unsubscribe, TypeOK, db, env
<1>5. CASE UnsubscribeFails(t)
  <2>1. l.order \in Order /\ EndOrRefuse(l.order)
    BY <1>5, <1>l, LocalFields DEF UnsubscribeFails
  <2>2. QED
    BY <1>5, <2>1, <1>idle, EndTyped DEF UnsubscribeFails, TypeOK, db, env, liqpay
<1>6. CASE Downgrade(t)
  <2>1. l.user \in User
    BY <1>6, <1>l, LocalFields DEF Downgrade
  <2>2. users' \in [User -> Row]
    BY <1>6, <2>1, <1>consts, UpdateTyped DEF Downgrade
  <2>3. QED
    BY <1>6, <2>2, <1>idle DEF Downgrade, TypeOK, liqpay, env
<1>7. CASE FinishExtend(t)
  <2>1. l.user \in User /\ l.trialEnd \in Nat
    BY <1>7, <1>l, LocalFields DEF FinishExtend
  <2> DEFINE base == IF l.trialEnd < now THEN now ELSE l.trialEnd
  <2>2. base + 1 \in Nat
    BY <2>1 DEF TypeOK
  <2>3. UpdateSubscription(l.user, "max", "trialing", base + 1)
    BY <1>7 DEF FinishExtend
  <2>4. users' \in [User -> Row]
    BY <2>1, <2>2, <2>3, <1>consts, UpdateTyped
  <2>5. QED
    BY <1>7, <2>4, <1>idle DEF FinishExtend, TypeOK, liqpay, env
<1>8. CASE AdminCancel(t)
  <2>1. l.user \in User
    BY <1>8, <1>l, LocalFields DEF AdminCancel
  <2>2. CASE users[l.user].order = NoOrder
    BY <1>8, <2>2, <1>goto, IdleLocal DEF AdminCancel, TypeOK, db, liqpay, env
  <2>3. CASE users[l.user].order # NoOrder
    <3>1. [pc |-> "unsubscribe", user |-> l.user, order |-> users[l.user].order,
           by |-> "admin"] \in Local
      BY <2>1, <2>3 DEF TypeOK, Row, Local
    <3>2. QED
      BY <1>8, <2>3, <3>1, <1>goto DEF AdminCancel, TypeOK, db, liqpay, env
  <2>4. QED
    BY <2>2, <2>3
<1>9. CASE Release(t)
  <2>1. l.user \in User
    BY <1>9, <1>l, LocalFields DEF Release
  <2>2. users' \in [User -> Row]
    BY <1>9, <2>1, <1>consts, UpdateTyped DEF Release
  <2>3. QED
    BY <1>9, <2>2, <1>idle DEF Release, TypeOK, liqpay, env
<1>10. CASE DbFails(t)
  <2>1. inflight' \subseteq Callback /\ sends' \in Nat
    BY <1>10, AnswerKeepsTypes DEF DbFails, TypeOK
  <2>2. QED
    BY <1>10, <2>1, <1>idle DEF DbFails, TypeOK, db, env
<1>11. QED
  BY <1>1, <1>2, <1>3, <1>4, <1>5, <1>6, <1>7, <1>8, <1>9, <1>10 DEF Step

LEMMA SetPlanTyped ==
    ASSUME TypeOK, NEW u \in User, NEW plan \in Plan, SetPlan(u, plan)
    PROVE  TypeOK'
<1> DEFINE status == IF plan = "free" THEN "" ELSE "manual"
<1>1. status \in Status /\ NoTime \in Nat
  BY DEF Status, NoTime
<1>2. UpdateSubscription(u, plan, status, NoTime)
  BY DEF SetPlan
<1>3. users' \in [User -> Row]
  BY <1>1, <1>2, UpdateTyped
<1>4. QED
  BY <1>3 DEF SetPlan, TypeOK, liqpay, env

LEMMA TypeNext == TypeOK /\ [Next]_vars => TypeOK'
<1> SUFFICES ASSUME TypeOK, [Next]_vars PROVE TypeOK'
  OBVIOUS
<1>1. ASSUME NEW t \in Thread, NEW u \in User, Request(t, u) PROVE TypeOK'
  <2>1. PICK l \in Local : Start(t, l)
    BY <1>1, RequestTyped
  <2>2. QED
    BY <1>1, <2>1, RequestTyped, StepWrites DEF Start, TypeOK, db, liqpay, env
<1>2. CASE Tick
  BY <1>2 DEF Tick, TypeOK, db, liqpay
<1>3. CASE Crash
  BY <1>3, IdleLocal DEF Crash, TypeOK, db, liqpay
<1>4. CASE UNCHANGED vars
  BY <1>4 DEF vars, TypeOK, db, liqpay, env
<1>5. QED
  BY <1>1, <1>2, <1>3, <1>4, StepTyped, SetPlanTyped, DeliverTyped, LiqPayTyped DEF Next

\* Every variable of the subscription system keeps its type.
THEOREM TypeCorrect == Spec => []TypeOK
BY TypeInit, TypeNext, PTL DEF Spec

-----------------------------------------------------------------------------
(* The safety invariant. Rows, receipts, callbacks and goroutines are      *)
(* sound one by one; orders, payments, ends and receipts only accumulate,  *)
(* so whatever a step leaves alone stays sound.                            *)

RowInv(u) ==
    /\ Consistent(users[u])
    /\ OwnsOrder(u)
    /\ \/ users[u].status \notin {"active", "trialing"}
       \/ users[u].status = "trialing" /\ "ExtendTrial" \in Operators
       \/ HasPaid(u)
    /\ users[u].status = "canceled" => HasLost(u)

SetsInv ==
    /\ \A order \in issued : SoundOrder(order)
    /\ \A cb \in inflight :
          cb.order \in issued /\ (cb.event \in PaidEvent => cb.order \in paid)
    /\ \A r \in receipts :
          /\ r.order \in issued /\ r.order.user = r.user
          /\ r.event \in PaidEvent => r.order \in paid

Inv == /\ TypeOK
       /\ \A u \in User : RowInv(u)
       /\ SetsInv
       /\ \A t \in Thread : SoundLocal(thr[t])

Grow == /\ issued \subseteq issued' /\ paid \subseteq paid'
        /\ answered \subseteq answered' /\ receipts \subseteq receipts'

LEMMA InvParts ==
    Inv => RowConsistent /\ OrderOwnership /\ AccessIsPaidFor /\ CanceledHasCause
           /\ EventsSound
BY DEF Inv, RowInv, SetsInv, RowConsistent, OrderOwnership, AccessIsPaidFor,
       CanceledHasCause, EventsSound

LEMMA InvInit == Init => Inv
<1> SUFFICES ASSUME Init PROVE Inv
  OBVIOUS
<1>1. TypeOK
  BY TypeInit
<1>2. ASSUME NEW u \in User PROVE RowInv(u)
  BY DEF Init, RowInv, Consistent, OwnsOrder
<1>3. SetsInv
  BY DEF Init, SetsInv
<1>4. ASSUME NEW t \in Thread PROVE SoundLocal(thr[t])
  BY DEF Init, SoundLocal, Idle
<1>5. QED
  BY <1>1, <1>2, <1>3, <1>4 DEF Inv

LEMMA RowKept ==
    ASSUME Grow, NEW u \in User, RowInv(u), users'[u] = users[u]
    PROVE  RowInv(u)'
<1>1. Consistent(users[u]) => Consistent(users[u])'
  <2>1. ASSUME NEW v, users'[u] = v, Consistent(v) PROVE Consistent(users[u])'
    BY <2>1 DEF Consistent
  <2>2. QED
    BY <2>1
<1>2. OwnsOrder(u) => OwnsOrder(u)'
  BY DEF OwnsOrder, Grow
<1>3. HasPaid(u) => HasPaid(u)'
  BY DEF HasPaid, Grow
<1>4. HasLost(u) => HasLost(u)'
  BY DEF HasLost, Grow
<1>5. QED
  BY <1>1, <1>2, <1>3, <1>4 DEF RowInv

LEMMA LocalKept ==
    ASSUME Grow, NEW t \in Thread, SoundLocal(thr[t]), thr'[t] = thr[t]
    PROVE  SoundLocal(thr[t])'
<1> DEFINE l == thr[t]
<1>1. SoundLocal(l) => SoundLocal(l)'
  <2> SUFFICES ASSUME SoundLocal(l) PROVE SoundLocal(l)'
    OBVIOUS
  <2>1. l.pc = "downgrade" => l.user \in answered'
    BY DEF SoundLocal, Grow
  <2>2. QED
    BY <2>1 DEF SoundLocal, Grow
<1>2. QED
  BY <1>1

LEMMA IdleSound == ASSUME NEW t, thr'[t] = Idle PROVE SoundLocal(thr[t])'
BY DEF SoundLocal, Idle

\* The rows after a statement on the users table.
LEMMA UpdateInv ==
    ASSUME Inv, Grow, NEW u \in User, NEW plan \in Plan, NEW status \in Status,
           NEW trialEnd \in Nat, UpdateSubscription(u, plan, status, trialEnd),
           Consistent([plan |-> plan, status |-> status, trialEnd |-> trialEnd,
                       order |-> users[u].order]),
           \/ status \notin {"active", "trialing"}
           \/ status = "trialing" /\ "ExtendTrial" \in Operators
           \/ \E r \in receipts : /\ r.user = u /\ r.event \in PaidEvent
                                  /\ r.order.plan = plan /\ r.order \in paid,
           status = "canceled" => HasLost(u)
    PROVE  \A v \in User : RowInv(v)'
<1>1. /\ users'[u] = [plan |-> plan, status |-> status, trialEnd |-> trialEnd,
                      order |-> users[u].order]
      /\ \A v \in User \ {u} : users'[v] = users[v]
  BY UpdateTyped DEF Inv
<1>2. ASSUME NEW v \in User, v # u PROVE RowInv(v)'
  BY <1>1, <1>2, RowKept DEF Inv
<1>3. RowInv(u)'
  <2>1. OwnsOrder(u)'
    BY <1>1 DEF Inv, RowInv, OwnsOrder, Grow
  <2>2. status = "canceled" => HasLost(u)'
    BY DEF HasLost, Grow
  <2>3. \/ status \notin {"active", "trialing"}
        \/ status = "trialing" /\ "ExtendTrial" \in Operators
        \/ HasPaid(u)'
    BY <1>1 DEF HasPaid, Grow
  <2> DEFINE row == [plan |-> plan, status |-> status, trialEnd |-> trialEnd,
                     order |-> users[u].order]
  <2>4. Consistent(users[u])'
    <3> HIDE DEF row
    <3>1. Consistent(row) /\ users'[u] = row
      BY <1>1 DEF row
    <3>2. QED
      BY <3>1 DEF Consistent
  <2>5. QED
    BY <1>1, <2>1, <2>2, <2>3, <2>4 DEF RowInv
<1>4. QED
  BY <1>2, <1>3

\* A downgrade, and a row released, need no more than their status.
LEMMA FreeInv ==
    ASSUME Inv, Grow, NEW u \in User, NEW status \in {"", "canceled"},
           UpdateSubscription(u, "free", status, NoTime),
           status = "canceled" => HasLost(u)
    PROVE  \A v \in User : RowInv(v)'
<1> NoTime \in Nat /\ "free" \in Plan /\ status \in Status
  BY DEF NoTime, Plan, Status
<1>1. Consistent([plan |-> "free", status |-> status, trialEnd |-> NoTime,
                  order |-> users[u].order])
  BY DEF Consistent
<1>2. QED
  BY <1>1, UpdateInv

LEMMA BeginInv ==
    ASSUME Inv, Grow, NEW u \in User, NEW order \in Order, NEW trialEnd \in Nat,
           BeginCheckout(u, order, trialEnd), order.user = u, order \in issued'
    PROVE  \A v \in User : RowInv(v)'
<1>1. /\ users'[u] = [plan |-> users[u].plan, status |-> "pending",
                      trialEnd |-> trialEnd, order |-> order]
      /\ \A v \in User \ {u} : users'[v] = users[v]
  BY BeginTyped DEF Inv
<1>2. ASSUME NEW v \in User, v # u PROVE RowInv(v)'
  BY <1>1, <1>2, RowKept DEF Inv
<1>3. RowInv(u)'
  BY <1>1 DEF RowInv, Consistent, OwnsOrder
<1>4. QED
  BY <1>2, <1>3

\* A step that changes no row, and the sets only as SetsInv' says.
LEMMA InvFrom ==
    ASSUME Inv, TypeOK', Grow, SetsInv', \A u \in User : RowInv(u)',
           NEW t \in Thread, \A s \in Thread \ {t} : thr'[s] = thr[s],
           SoundLocal(thr[t])'
    PROVE  Inv'
<1>1. ASSUME NEW s \in Thread PROVE SoundLocal(thr[s])'
  BY LocalKept DEF Inv
<1>2. QED
  BY <1>1 DEF Inv

LEMMA RowsKept ==
    ASSUME Inv, Grow, users' = users
    PROVE  \A u \in User : RowInv(u)'
BY RowKept DEF Inv

LEMMA GrowFrom ==
    ASSUME UNCHANGED <<receipts, issued, paid, answered>>
    PROVE  Grow
BY DEF Grow

\* Reading a row before a checkout, a cancel or an admin operation.
LEMMA RequestInv ==
    ASSUME Inv, TypeOK', NEW t \in Thread, NEW u \in User, Request(t, u)
    PROVE  Inv'
<1>0. UNCHANGED <<db, liqpay, env>>
  BY RequestTyped DEF Inv
<1>1. Grow /\ SetsInv' /\ users' = users
  BY <1>0 DEF Grow, SetsInv, Inv, db, liqpay
<1>2. ASSUME NEW l, Start(t, l), SoundLocal(l) PROVE Inv'
  <2>1. thr'[t] = l /\ \A s \in Thread \ {t} : thr'[s] = thr[s]
    BY <1>2 DEF Start, Inv, TypeOK
  <2>2. SoundLocal(thr[t])'
    BY <1>0, <1>2, <2>1 DEF SoundLocal, db, liqpay
  <2>3. QED
    BY <1>1, <2>1, <2>2, InvFrom, RowsKept
<1>3. ASSUME NEW flow \in Flow, NEW plan \in Priced, flow = "trial" => plan = "max",
             CheckNoSubscription(t, u, flow, plan)
      PROVE  Inv'
  <2> DEFINE l == [pc |-> "begin", user |-> u, order |-> orderID(flow, plan, u)]
  <2>1. SoundLocal(l)
    BY <1>3 DEF SoundLocal, orderID, SoundOrder
  <2>2. QED
    BY <1>2, <1>3, <2>1 DEF CheckNoSubscription
<1>4. CASE StartTrial(t, u)
  BY <1>3, <1>4 DEF StartTrial, Flow, Priced
<1>5. ASSUME NEW plan \in Priced, Subscribe(t, u, plan) PROVE Inv'
  BY <1>3, <1>5 DEF Subscribe, Flow
<1>6. CASE Cancel(t, u)
  <2> DEFINE l == [pc |-> "unsubscribe", user |-> u, order |-> users[u].order,
                   by |-> "user"]
  <2>1. SoundLocal(l)
    BY <1>6 DEF Cancel, SoundLocal, Inv, RowInv, OwnsOrder
  <2>2. QED
    BY <1>2, <1>6, <2>1 DEF Cancel
<1>7. CASE ExtendTrial(t, u)
  <2> DEFINE l == [pc |-> "extend", user |-> u, trialEnd |-> users[u].trialEnd]
  <2>1. SoundLocal(l)
    BY <1>7 DEF ExtendTrial, SoundLocal
  <2>2. QED
    BY <1>2, <1>7, <2>1 DEF ExtendTrial
<1>8. CASE CancelSubscription(t, u)
  <2> DEFINE l == [pc |-> IF users[u].order = NoOrder THEN "release" ELSE "adminCancel",
                   user |-> u]
  <2>1. SoundLocal(l)
    BY DEF SoundLocal
  <2>2. QED
    BY <1>2, <1>8, <2>1 DEF CancelSubscription
<1>9. QED
  BY <1>4, <1>5, <1>6, <1>7, <1>8 DEF Request

LEMMA DeliverInv ==
    ASSUME Inv, TypeOK', NEW cb \in inflight, Deliver(cb)
    PROVE  Inv'
<1>1. ASSUME NEW t \in Thread, UnknownOrder(t, cb) PROVE Inv'
  <2>1. Grow /\ SetsInv' /\ users' = users /\ thr' = thr
    BY <1>1 DEF UnknownOrder, Grow, SetsInv, Inv, db
  <2>2. SoundLocal(thr[t])'
    BY <2>1, LocalKept DEF Inv
  <2>3. QED
    BY <2>1, <2>2, InvFrom, RowsKept
<1>2. ASSUME NEW t \in Thread, LookUpOrder(t, cb) PROVE Inv'
  <2>1. Grow /\ SetsInv' /\ users' = users /\ UNCHANGED <<issued, paid, receipts>>
    BY <1>2 DEF LookUpOrder, Grow, SetsInv, Inv, db, liqpay
  <2>2. PICK u \in User :
          /\ users[u].order = cb.order
          /\ Start(t, [pc |-> "record", user |-> u, order |-> cb.order,
                       event |-> cb.event, trialEnd |-> users[u].trialEnd])
    BY <1>2 DEF LookUpOrder
  <2> DEFINE l == [pc |-> "record", user |-> u, order |-> cb.order,
                   event |-> cb.event, trialEnd |-> users[u].trialEnd]
  <2>3. thr'[t] = l /\ \A s \in Thread \ {t} : thr'[s] = thr[s]
    BY <2>2 DEF Start, Inv, TypeOK
  <2>4. /\ cb.order \in issued /\ cb.order.user = u
        /\ cb.event \in PaidEvent => cb.order \in paid
    BY <2>2, NoOrderAssumption DEF Inv, RowInv, OwnsOrder, SetsInv, TypeOK, Callback
  <2>5. SoundLocal(thr[t])'
    BY <2>1, <2>3, <2>4 DEF SoundLocal
  <2>6. QED
    BY <2>1, <2>3, <2>5, InvFrom, RowsKept
<1>3. QED
  BY <1>1, <1>2 DEF Deliver

LEMMA AllKept ==
    ASSUME Inv, TypeOK', Grow, SetsInv', users' = users, thr' = thr
    PROVE  Inv'
BY RowsKept, LocalKept DEF Inv

LEMMA EndSets ==
    ASSUME Inv, NEW order \in issued, EndOrRefuse(order)
    PROVE  /\ issued' = issued /\ paid' = paid
           /\ receipts' = receipts => SetsInv'
<1>1. order \in Order
  BY DEF Inv, TypeOK
<1>2. /\ issued' = issued /\ paid' = paid
      /\ \A cb \in inflight' :
            cb \in inflight \/ cb = [order |-> order, event |-> "unsubscribed"]
  BY <1>1, EndTyped DEF Inv
<1>3. \A cb \in inflight' :
         cb.order \in issued' /\ (cb.event \in PaidEvent => cb.order \in paid')
  BY <1>2 DEF Inv, SetsInv, PaidEvent
<1>4. QED
  BY <1>2, <1>3 DEF Inv, SetsInv

LEMMA LiqPayInv ==
    ASSUME Inv, TypeOK', NEW order \in issued, LiqPay(order)
    PROVE  Inv'
<1>0. order \in Order
  BY DEF Inv, TypeOK
<1>1. CASE Pay(order)
  <2>1. inflight' = inflight \cup {[order |-> order, event |-> "subscribed"]}
    BY <1>1 DEF Pay, Send
  <2>2. Grow /\ SetsInv' /\ users' = users /\ thr' = thr
    BY <1>1, <2>1 DEF Pay, Grow, Inv, SetsInv, db
  <2>3. QED
    BY <2>2, AllKept
<1>2. ASSUME NEW event \in {"failure", "other"}, Report(order, event) PROVE Inv'
  <2>1. inflight' = inflight \cup {[order |-> order, event |-> event]}
    BY <1>2 DEF Report, Send
  <2>2. Grow /\ SetsInv' /\ users' = users /\ thr' = thr
    BY <1>2, <2>1 DEF Report, Grow, Inv, SetsInv, db, PaidEvent
  <2>3. QED
    BY <2>2, AllKept
<1>3. CASE Charge(order)
  <2>1. inflight' = inflight \cup {[order |-> order, event |-> "success"]}
    BY <1>3 DEF Charge, Send
  <2>2. Grow /\ SetsInv' /\ users' = users /\ thr' = thr
    BY <1>3, <2>1 DEF Charge, Running, Grow, Inv, SetsInv, db
  <2>3. QED
    BY <2>2, AllKept
<1>4. CASE Terminate(order)
  <2>1. EndOrRefuse(order)
    BY <1>4 DEF Terminate, EndOrRefuse
  <2>2. SetsInv' /\ Grow
    BY <1>4, <2>1, EndSets DEF Terminate, Grow, db
  <2>3. QED
    BY <1>4, <2>2, AllKept DEF Terminate, db
<1>5. QED
  BY <1>1, <1>2, <1>3, <1>4 DEF LiqPay

\* The switch of HandleCallback, for a callback whose receipt is recorded.
LEMMA OutcomeInv ==
    ASSUME Inv, Grow, NEW u \in User, NEW order \in issued, NEW event \in Event,
           NEW trialEnd \in Nat, ApplyOutcome(u, order, event, trialEnd),
           order.user = u, event \in PaidEvent => order \in paid,
           [user |-> u, order |-> order, event |-> event] \in receipts
    PROVE  \A v \in User : RowInv(v)'
<1> DEFINE r == [user |-> u, order |-> order, event |-> event]
<1>0. /\ order \in Order /\ order.plan \in Plan /\ order.plan \in Priced
      /\ NoTime \in Nat /\ SoundOrder(order)
  BY DEF Inv, TypeOK, SetsInv, Order, Priced, Plan, NoTime
<1>1. CASE event = "subscribed"
  <2> DEFINE status == IF order.flow = "direct" THEN "active" ELSE "trialing"
  <2>1. status \in Status /\ status # "canceled"
    BY DEF Status
  <2>2. UpdateSubscription(u, order.plan, status, trialEnd)
    BY <1>1 DEF ApplyOutcome
  <2>3. Consistent([plan |-> order.plan, status |-> status, trialEnd |-> trialEnd,
                    order |-> users[u].order])
    BY <1>0 DEF Consistent, SoundOrder, Order, Flow
  <2>4. \E s \in receipts : /\ s.user = u /\ s.event \in PaidEvent
                            /\ s.order.plan = order.plan /\ s.order \in paid
    BY <1>1 DEF PaidEvent
  <2> HIDE DEF status
  <2>5. QED
    BY <1>0, <2>1, <2>2, <2>3, <2>4, UpdateInv
<1>2. CASE event = "success"
  <2>1. UpdateSubscription(u, order.plan, "active", NoTime)
    BY <1>2 DEF ApplyOutcome
  <2>2. Consistent([plan |-> order.plan, status |-> "active", trialEnd |-> NoTime,
                    order |-> users[u].order])
    BY <1>0 DEF Consistent
  <2>3. \E s \in receipts : /\ s.user = u /\ s.event \in PaidEvent
                            /\ s.order.plan = order.plan /\ s.order \in paid
    BY <1>2 DEF PaidEvent
  <2>4. "active" \in Status
    BY DEF Status
  <2>5. QED
    BY <1>0, <2>1, <2>2, <2>3, <2>4, UpdateInv
<1>3. CASE event \in {"failure", "unsubscribed"}
  <2>1. UpdateSubscription(u, "free", "canceled", NoTime)
    BY <1>3 DEF ApplyOutcome
  <2>2. HasLost(u)
    BY <1>3 DEF HasLost, FailingEvent
  <2>3. QED
    BY <2>1, <2>2, FreeInv
<1>4. CASE event = "other"
  BY <1>4, RowsKept DEF ApplyOutcome
<1>5. QED
  BY <1>1, <1>2, <1>3, <1>4 DEF Event

LEMMA StepInv ==
    ASSUME Inv, TypeOK', NEW t \in Thread, Step(t)
    PROVE  Inv'
<1> DEFINE l == thr[t]
<1>l. l \in Local /\ SoundLocal(l)
  BY DEF Inv, TypeOK
<1>return. ASSUME Return(t), Grow, SetsInv', \A u \in User : RowInv(u)' PROVE Inv'
  <2>1. thr'[t] = Idle /\ \A s \in Thread \ {t} : thr'[s] = thr[s]
    BY <1>return DEF Return, Inv, TypeOK
  <2>2. QED
    BY <1>return, <2>1, IdleSound, InvFrom
<1>goto. ASSUME NEW k, Goto(t, k), Grow, SetsInv', users' = users, SoundLocal(k)'
         PROVE  Inv'
  <2>1. thr'[t] = k /\ \A s \in Thread \ {t} : thr'[s] = thr[s]
    BY <1>goto DEF Goto, Inv, TypeOK
  <2>2. SoundLocal(thr[t])'
    BY <1>goto, <2>1 DEF SoundLocal
  <2>3. QED
    BY <1>goto, <2>1, <2>2, RowsKept, InvFrom
<1>1. CASE FinishCheckout(t)
  <2>1. /\ l.user \in User /\ l.order \in Order /\ l.order.user = l.user
        /\ SoundOrder(l.order)
    BY <1>1, <1>l, LocalFields DEF FinishCheckout, SoundLocal
  <2>2. Grow
    BY <1>1 DEF FinishCheckout, Grow
  <2>3. SetsInv'
    BY <1>1, <2>1 DEF FinishCheckout, Inv, SetsInv, SoundOrder
  <2>4. \A u \in User : RowInv(u)'
    BY <1>1, <2>1, <2>2, BeginInv, TrialEndTyped DEF FinishCheckout
  <2>5. QED
    BY <1>1, <2>2, <2>3, <2>4, <1>return DEF FinishCheckout
<1>2. CASE RecordPayment(t)
  <2>1. /\ l.pc = "record" /\ l.user \in User /\ l.order \in issued
        /\ l.order.user = l.user /\ (l.event \in PaidEvent => l.order \in paid)
        /\ l = [pc |-> l.pc, user |-> l.user, order |-> l.order,
                event |-> l.event, trialEnd |-> l.trialEnd]
    BY <1>2, <1>l, LocalFields DEF RecordPayment, SoundLocal
  <2> DEFINE r == [user |-> l.user, order |-> l.order, event |-> l.event]
  <2>k. PICK k : k = [l EXCEPT !.pc = "apply"]
    OBVIOUS
  <2>2. receipts' = receipts \cup {r} /\ UNCHANGED <<users, liqpay, env>> /\ Goto(t, k)
    BY <1>2, <2>k DEF RecordPayment
  <2>3. Grow
    BY <2>2 DEF Grow, liqpay
  <2>4. SetsInv'
    BY <2>1, <2>2 DEF Inv, SetsInv, liqpay
  <2>5. k = [pc |-> "apply", user |-> l.user, order |-> l.order,
             event |-> l.event, trialEnd |-> l.trialEnd]
    BY <2>1, <2>k
  <2>6. SoundLocal(k)'
    BY <2>1, <2>2, <2>5 DEF SoundLocal, liqpay
  <2>7. QED
    BY <2>2, <2>3, <2>4, <2>6, <1>goto
<1>3. CASE ApplyCallback(t)
  <2>1. /\ l.user \in User /\ l.order \in issued /\ l.event \in Event /\ l.trialEnd \in Nat
        /\ l.order.user = l.user /\ (l.event \in PaidEvent => l.order \in paid)
        /\ [user |-> l.user, order |-> l.order, event |-> l.event] \in receipts
    BY <1>3, <1>l, LocalFields DEF ApplyCallback, SoundLocal
  <2>2. Grow /\ inflight' \subseteq inflight
    BY <1>3, AnswerTyped DEF ApplyCallback, Grow, Inv
  <2>3. SetsInv'
    BY <1>3, <2>2 DEF ApplyCallback, Inv, SetsInv
  <2>4. \A u \in User : RowInv(u)'
    BY <1>3, <2>1, <2>2, OutcomeInv DEF ApplyCallback
  <2>5. QED
    BY <1>3, <2>2, <2>3, <2>4, <1>return DEF ApplyCallback
<1>4. CASE Unsubscribe(t)
  <2>1. l.order \in issued /\ l.order.user = l.user
    BY <1>4, <1>l DEF Unsubscribe, SoundLocal
  <2>2. /\ answered' = answered \cup {l.user} /\ users' = users /\ Grow /\ SetsInv'
    BY <1>4, <2>1, EndSets DEF Unsubscribe, Grow, db
  <2>k. PICK k : k = [pc |-> "downgrade", user |-> l.user, by |-> l.by]
    OBVIOUS
  <2>3. SoundLocal(k)'
    BY <2>1, <2>2, <2>k DEF SoundLocal
  <2>4. QED
    BY <1>4, <2>2, <2>3, <2>k, <1>goto DEF Unsubscribe
<1>5. CASE UnsubscribeFails(t)
  <2>1. l.order \in issued
    BY <1>5, <1>l DEF UnsubscribeFails, SoundLocal
  <2>2. Grow /\ SetsInv' /\ users' = users
    BY <1>5, <2>1, EndSets DEF UnsubscribeFails, Grow, db
  <2>3. QED
    BY <1>5, <2>2, <1>return, RowsKept DEF UnsubscribeFails
<1>6. CASE Downgrade(t)
  <2>1. l.user \in User /\ HasLost(l.user)
    BY <1>6, <1>l, LocalFields DEF Downgrade, SoundLocal, HasLost
  <2>2. Grow /\ SetsInv'
    BY <1>6 DEF Downgrade, Grow, SetsInv, Inv, liqpay
  <2>3. \A u \in User : RowInv(u)'
    BY <1>6, <2>1, <2>2, FreeInv DEF Downgrade
  <2>4. QED
    BY <1>6, <2>2, <2>3, <1>return DEF Downgrade
<1>7. CASE FinishExtend(t)
  <2>1. l.user \in User /\ l.trialEnd \in Nat /\ "ExtendTrial" \in Operators
    BY <1>7, <1>l, LocalFields DEF FinishExtend, SoundLocal
  <2>2. Grow /\ SetsInv'
    BY <1>7 DEF FinishExtend, Grow, SetsInv, Inv, liqpay
  <2> DEFINE base == IF l.trialEnd < now THEN now ELSE l.trialEnd
  <2>3. base + 1 \in Nat
    BY <2>1 DEF Inv, TypeOK
  <2>4. UpdateSubscription(l.user, "max", "trialing", base + 1)
    BY <1>7 DEF FinishExtend
  <2> HIDE DEF base
  <2>5. Consistent([plan |-> "max", status |-> "trialing", trialEnd |-> base + 1,
                    order |-> users[l.user].order])
    BY DEF Consistent
  <2>6. "max" \in Plan /\ "trialing" \in Status
    BY DEF Plan, Status
  <2>7. \A u \in User : RowInv(u)'
    BY <2>1, <2>2, <2>3, <2>4, <2>5, <2>6, UpdateInv
  <2>8. QED
    BY <1>7, <2>2, <2>7, <1>return DEF FinishExtend
<1>8. CASE AdminCancel(t)
  <2>1. l.user \in User
    BY <1>8, <1>l, LocalFields DEF AdminCancel
  <2>2. /\ Grow /\ SetsInv' /\ users' = users
        /\ UNCHANGED <<issued, paid, answered, receipts>>
    BY <1>8 DEF AdminCancel, Grow, SetsInv, Inv, db, liqpay
  <2>3. CASE users[l.user].order = NoOrder
    <3>1. SoundLocal(Idle)'
      BY DEF SoundLocal, Idle
    <3>2. QED
      BY <1>8, <2>2, <2>3, <3>1, <1>goto DEF AdminCancel
  <2>4. CASE users[l.user].order # NoOrder
    <3>k. PICK k : k = [pc |-> "unsubscribe", user |-> l.user,
                        order |-> users[l.user].order, by |-> "admin"]
      OBVIOUS
    <3>1. users[l.user].order \in issued /\ users[l.user].order.user = l.user
      BY <2>1, <2>4 DEF Inv, RowInv, OwnsOrder
    <3>2. SoundLocal(k)'
      BY <2>2, <3>1, <3>k DEF SoundLocal
    <3>3. QED
      BY <1>8, <2>2, <2>4, <3>2, <3>k, <1>goto DEF AdminCancel
  <2>5. QED
    BY <2>3, <2>4
<1>9. CASE Release(t)
  <2>1. l.user \in User
    BY <1>9, <1>l, LocalFields DEF Release
  <2>2. Grow /\ SetsInv'
    BY <1>9 DEF Release, Grow, SetsInv, Inv, liqpay
  <2>3. \A u \in User : RowInv(u)'
    BY <1>9, <2>1, <2>2, FreeInv DEF Release
  <2>4. QED
    BY <1>9, <2>2, <2>3, <1>return DEF Release
<1>10. CASE DbFails(t)
  <2>1. inflight' \subseteq inflight
    BY <1>10, AnswerTyped DEF DbFails, Inv
  <2>2. Grow /\ SetsInv' /\ users' = users
    BY <1>10, <2>1 DEF DbFails, Grow, SetsInv, Inv, db
  <2>3. QED
    BY <1>10, <2>2, <1>return, RowsKept DEF DbFails
<1>11. QED
  BY <1>1, <1>2, <1>3, <1>4, <1>5, <1>6, <1>7, <1>8, <1>9, <1>10 DEF Step

LEMMA SetPlanInv ==
    ASSUME Inv, TypeOK', NEW u \in User, NEW plan \in Plan, SetPlan(u, plan)
    PROVE  Inv'
<1> DEFINE status == IF plan = "free" THEN "" ELSE "manual"
<1>1. /\ status \in Status /\ NoTime \in Nat
      /\ status # "canceled" /\ status \notin {"active", "trialing"}
  BY DEF Status, NoTime
<1>2. UpdateSubscription(u, plan, status, NoTime)
  BY DEF SetPlan
<1>3. Consistent([plan |-> plan, status |-> status, trialEnd |-> NoTime,
                  order |-> users[u].order])
  BY DEF Consistent
<1> HIDE DEF status
<1>4. Grow /\ SetsInv' /\ thr' = thr
  BY DEF SetPlan, Grow, SetsInv, Inv, liqpay
<1>5. \A v \in User : RowInv(v)'
  BY <1>1, <1>2, <1>3, <1>4, UpdateInv
<1>6. QED
  BY <1>4, <1>5, LocalKept DEF Inv

LEMMA InvNext == Inv /\ [Next]_vars => Inv'
<1> SUFFICES ASSUME Inv, [Next]_vars PROVE Inv'
  OBVIOUS
<1>0. TypeOK'
  BY TypeNext DEF Inv
<1>1. CASE Tick
  <2>1. Grow /\ SetsInv' /\ users' = users /\ thr' = thr
    BY <1>1 DEF Tick, Grow, SetsInv, Inv, db, liqpay
  <2>2. QED
    BY <1>0, <2>1, AllKept
<1>2. CASE Crash
  <2>1. Grow /\ SetsInv' /\ users' = users
    BY <1>2 DEF Crash, Grow, SetsInv, Inv, db, liqpay
  <2>2. ASSUME NEW t \in Thread PROVE SoundLocal(thr[t])'
    BY <1>2, IdleSound DEF Crash
  <2>3. QED
    BY <1>0, <2>1, <2>2, RowsKept DEF Inv
<1>3. CASE UNCHANGED vars
  <2>1. Grow /\ SetsInv' /\ users' = users /\ thr' = thr
    BY <1>3 DEF vars, Grow, SetsInv, Inv, db, liqpay
  <2>2. QED
    BY <1>0, <2>1, AllKept
<1>4. QED
  BY <1>0, <1>1, <1>2, <1>3, StepInv, RequestInv, SetPlanInv, DeliverInv, LiqPayInv
     DEF Next

\* The invariant every theorem below rests on.
LEMMA Safe == Spec => []Inv
BY InvInit, InvNext, PTL DEF Spec

\* Plan, status and trial end of a row agree, whatever handlers race.
THEOREM RowsConsistent == Spec => []RowConsistent
BY Safe, InvParts, PTL

\* Orders and receipts never pass from one user to another.
THEOREM OrdersOwned == Spec => []OrderOwnership
BY Safe, InvParts, PTL

\* Access under a paid label was paid for, and its receipt recorded first.
THEOREM AccessPaidFor == Spec => []AccessIsPaidFor
BY Safe, InvParts, PTL

\* A row is canceled only when LiqPay answered a request to end an order of that user,
\* or a callback of a failed charge or an ended subscription of theirs was recorded
\* (Cancel and HandleCallback, whatever fails or races).
THEOREM CanceledForCause == Spec => []CanceledHasCause
BY Safe, InvParts, PTL

\* Callbacks, receipts and goroutines speak of orders and payments that exist.
THEOREM EventsAreSound == Spec => []EventsSound
BY Safe, InvParts, PTL

=============================================================================
