------------------------------ MODULE Billing ------------------------------
(***************************************************************************)
(* Subscriptions: internal/service/billing (StartTrial, Subscribe,         *)
(* HandleCallback, Cancel), internal/service/admin (SetPlan, ExtendTrial,  *)
(* CancelSubscription), the users and payment_events rows they write, and  *)
(* LiqPay, the payment provider, as far as that code relies on it.         *)
(*                                                                         *)
(* Every request runs in a goroutine of its own, without a transaction or  *)
(* a row lock: each SQL statement and each call to LiqPay is one atomic    *)
(* step, and whatever was read before is kept in the goroutine's locals    *)
(* while other goroutines run.                                             *)
(***************************************************************************)
EXTENDS Naturals, FiniteSets

CONSTANTS
    User,          \* ids of rows of the users table
    Thread,        \* goroutines that can be serving a request at one time
    NoOrder,       \* the empty liqpay_order_id
    TrialLen,      \* trialDuration, in ticks of the clock
    Faults,        \* which calls may fail: a subset of {"db", "liqpay"}
    Operators,     \* admin operations in use: a subset of AdminOps
    MaxClock,      \* bound: last tick of the clock
    MaxCheckouts,  \* bound: orders ever handed to LiqPay
    MaxSends,      \* bound: callbacks LiqPay ever sends
    MaxCrashes     \* bound: restarts of the server

Plan    == {"free", "pro", "max", "enterprise"}
Priced  == {"pro", "max"}      \* the plans planPrice knows
Flow    == {"trial", "direct"}
Status  == {"", "pending", "trialing", "active", "canceled", "manual"}

\* "failure" stands for LiqPay's failure and error, which the code treats
\* alike; "other" for any status the code has no case for.
Event   == {"subscribed", "success", "failure", "unsubscribed", "other"}

\* An order id is "sub.flow.plan.user.seconds": two made in the same tick
\* with the same arguments are the same order.
Order    == [flow : Flow, plan : Priced, user : User, at : Nat]
Callback == [order : Order, event : Event]
Receipt  == [user : User, order : Order, event : Event]

AdminOps == {"SetPlan", "ExtendTrial", "CancelSubscription"}

ASSUME NoOrderAssumption == NoOrder \notin Order
ASSUME TrialLenAssumption == TrialLen \in Nat \ {0}
ASSUME FaultsAssumption ==
    Faults \subseteq {"db", "liqpay"} /\ Operators \subseteq AdminOps
ASSUME BoundsAssumption ==
    /\ MaxClock \in Nat /\ MaxCheckouts \in Nat
    /\ MaxSends \in Nat /\ MaxCrashes \in Nat

VARIABLES
    users,      \* users[u]: plan, subscription_status, trial_ends_at, liqpay_order_id
    receipts,   \* rows of payment_events (a repeated delivery adds an equal row)
    thr,        \* thr[t]: where goroutine t is, with its locals
    issued,     \* orders whose signed checkout form left the server
    paid,       \* LiqPay: orders whose subscription a customer started
    ended,      \* LiqPay: paid orders unsubscribed or terminated, never charged again
    answered,   \* users of whose order LiqPay answered an unsubscribe with 200
    inflight,   \* LiqPay: callbacks sent and not yet answered with 200
    sends,      \* LiqPay: number of callbacks sent
    now,        \* the clock; 0 is Go's zero time, stored as NULL
    crashes     \* number of restarts so far

db     == <<users, receipts>>
liqpay == <<issued, paid, ended, answered, inflight, sends>>
env    == <<now, crashes>>
vars   == <<db, thr, liqpay, env>>

NoTime == 0
Idle   == [pc |-> "idle"]

Row == [plan : Plan, status : Status, trialEnd : Nat, order : Order \cup {NoOrder}]

\* A goroutine between two of its steps. "by" is who asked for a Cancel:
\* the user, or the admin service, which ignores the result.
Local ==
    {Idle}
    \cup [pc : {"begin"}, user : User, order : Order]
    \cup [pc : {"record", "apply"}, user : User, order : Order,
          event : Event, trialEnd : Nat]
    \cup [pc : {"adminCancel", "release"}, user : User]
    \cup [pc : {"unsubscribe"}, user : User, order : Order, by : {"user", "admin"}]
    \cup [pc : {"downgrade"}, user : User, by : {"user", "admin"}]
    \cup [pc : {"extend"}, user : User, trialEnd : Nat]

TypeOK ==
    /\ users \in [User -> Row]
    /\ receipts \subseteq Receipt
    /\ thr \in [Thread -> Local]
    /\ issued \subseteq Order
    /\ paid \subseteq Order
    /\ ended \subseteq Order
    /\ answered \subseteq User
    /\ inflight \subseteq Callback
    /\ sends \in Nat
    /\ now \in Nat \ {0}
    /\ crashes \in Nat

Init ==
    /\ users = [u \in User |-> [plan |-> "free", status |-> "",
                                trialEnd |-> NoTime, order |-> NoOrder]]
    /\ receipts = {}
    /\ thr = [t \in Thread |-> Idle]
    /\ issued = {} /\ paid = {} /\ ended = {} /\ answered = {} /\ inflight = {} /\ sends = 0
    /\ now = 1 /\ crashes = 0

-----------------------------------------------------------------------------
(* Statements on the users table, and goroutine steps.                     *)

\* Slip: the plan and status arguments swapped.
UpdateSubscriptionSwapped(u, plan, status, trialEnd) ==
    users' = [users EXCEPT ![u].plan = status, ![u].status = plan,
                           ![u].trialEnd = trialEnd]

UpdateSubscription(u, plan, status, trialEnd) ==
    users' = [users EXCEPT ![u].plan = plan, ![u].status = status,
                           ![u].trialEnd = trialEnd]

BeginCheckout(u, order, trialEnd) ==
    users' = [users EXCEPT ![u].order = order, ![u].status = "pending",
                           ![u].trialEnd = trialEnd]

Start(t, local)  == thr[t] = Idle /\ thr' = [thr EXCEPT ![t] = local]
Goto(t, local)   == thr' = [thr EXCEPT ![t] = local]
Return(t)        == thr' = [thr EXCEPT ![t] = Idle]

-----------------------------------------------------------------------------
(* StartTrial and Subscribe: read the row, refuse unless its status is     *)
(* empty, make the order id and the trial's end, then write them into the  *)
(* row and hand the signed form out.                                       *)

CheckoutsBegun == Cardinality(issued)
                  + Cardinality({t \in Thread : thr[t].pc = "begin"})

orderID(flow, plan, u) == [flow |-> flow, plan |-> plan, user |-> u, at |-> now]

CheckNoSubscription(t, u, flow, plan) ==
    /\ users[u].status = ""
    /\ CheckoutsBegun < MaxCheckouts
    /\ Start(t, [pc |-> "begin", user |-> u, order |-> orderID(flow, plan, u)])
    /\ UNCHANGED <<db, liqpay, env>>

StartTrial(t, u) == CheckNoSubscription(t, u, "trial", "max")

Subscribe(t, u, plan) == plan \in Priced /\ CheckNoSubscription(t, u, "direct", plan)

TrialEnd(order) == IF order.flow = "trial" THEN order.at + TrialLen ELSE NoTime

\* A form lost on its way to the customer is one that is never submitted.
FinishCheckout(t) ==
    /\ thr[t].pc = "begin"
    /\ BeginCheckout(thr[t].user, thr[t].order, TrialEnd(thr[t].order))
    /\ issued' = issued \cup {thr[t].order}
    /\ Return(t)
    /\ UNCHANGED <<receipts, paid, ended, answered, inflight, sends, env>>

-----------------------------------------------------------------------------
(* HandleCallback behind the webhook: look the order up, record the        *)
(* receipt, update the row. The webhook answers 200 whatever happened, and *)
(* LiqPay then forgets the callback, or misses the answer and sends again. *)

Answer(order, event) ==
    \/ /\ inflight' = inflight \ {[order |-> order, event |-> event]}
       /\ UNCHANGED sends
    \/ /\ sends < MaxSends
       /\ sends' = sends + 1
       /\ UNCHANGED inflight

UnknownOrder(t, cb) ==
    /\ cb \in inflight
    /\ thr[t] = Idle
    /\ \A u \in User : users[u].order # cb.order
    /\ inflight' = inflight \ {cb}
    /\ UNCHANGED <<db, thr, issued, paid, ended, answered, sends, env>>

\* Slip: the callback is answered before it is processed.
LookUpOrderAnswered(t, cb) ==
    /\ cb \in inflight
    /\ \E u \in User :
        /\ users[u].order = cb.order
        /\ Start(t, [pc |-> "record", user |-> u, order |-> cb.order,
                     event |-> cb.event, trialEnd |-> users[u].trialEnd])
    /\ inflight' = inflight \ {cb}
    /\ UNCHANGED <<db, issued, paid, ended, answered, sends, env>>

\* Slip: the row is looked up by flow and plan instead of the whole order id.
LookUpOrderByPlan(t, cb) ==
    /\ cb \in inflight
    /\ \E u \in User :
        /\ users[u].order # NoOrder
        /\ users[u].order.flow = cb.order.flow /\ users[u].order.plan = cb.order.plan
        /\ Start(t, [pc |-> "record", user |-> u, order |-> cb.order,
                     event |-> cb.event, trialEnd |-> users[u].trialEnd])
    /\ UNCHANGED <<db, liqpay, env>>

LookUpOrder(t, cb) ==
    /\ cb \in inflight
    /\ \E u \in User :
        /\ users[u].order = cb.order
        /\ Start(t, [pc |-> "record", user |-> u, order |-> cb.order,
                     event |-> cb.event, trialEnd |-> users[u].trialEnd])
    /\ UNCHANGED <<db, liqpay, env>>

RecordPayment(t) ==
    /\ thr[t].pc = "record"
    /\ receipts' = receipts \cup {[user |-> thr[t].user, order |-> thr[t].order,
                                   event |-> thr[t].event]}
    /\ Goto(t, [thr[t] EXCEPT !.pc = "apply"])
    /\ UNCHANGED <<users, liqpay, env>>

\* Slip: a status without a case falls through to "subscribed".
ApplyOutcomeDefaultGrants(u, order, event, trialEnd) ==
    \/ /\ event \in {"subscribed", "other"}
       /\ UpdateSubscription(u, order.plan,
              IF order.flow = "direct" THEN "active" ELSE "trialing", trialEnd)
    \/ /\ event = "success"
       /\ UpdateSubscription(u, order.plan, "active", NoTime)
    \/ /\ event \in {"failure", "unsubscribed"}
       /\ UpdateSubscription(u, "free", "canceled", NoTime)

\* Slip: a failed or ended subscription is marked, but its plan is kept.
ApplyOutcomeKeepsPlan(u, order, event, trialEnd) ==
    \/ /\ event = "subscribed"
       /\ UpdateSubscription(u, order.plan,
              IF order.flow = "direct" THEN "active" ELSE "trialing", trialEnd)
    \/ /\ event = "success"
       /\ UpdateSubscription(u, order.plan, "active", NoTime)
    \/ /\ event \in {"failure", "unsubscribed"}
       /\ UpdateSubscription(u, users[u].plan, "canceled", NoTime)
    \/ /\ event = "other"
       /\ UNCHANGED users

\* The switch over the callback's status, with the trial end read by LookUpOrder.
ApplyOutcome(u, order, event, trialEnd) ==
    \/ /\ event = "subscribed"
       /\ UpdateSubscription(u, order.plan,
              IF order.flow = "direct" THEN "active" ELSE "trialing", trialEnd)
    \/ /\ event = "success"
       /\ UpdateSubscription(u, order.plan, "active", NoTime)
    \/ /\ event \in {"failure", "unsubscribed"}
       /\ UpdateSubscription(u, "free", "canceled", NoTime)
    \/ /\ event = "other"
       /\ UNCHANGED users

ApplyCallback(t) ==
    /\ thr[t].pc = "apply"
    /\ ApplyOutcome(thr[t].user, thr[t].order, thr[t].event, thr[t].trialEnd)
    /\ Answer(thr[t].order, thr[t].event)
    /\ Return(t)
    /\ UNCHANGED <<receipts, issued, paid, ended, answered, env>>

-----------------------------------------------------------------------------
(* Cancel: read the row, unsubscribe its order at LiqPay, downgrade.       *)

Cancel(t, u) ==
    /\ users[u].order # NoOrder
    /\ Start(t, [pc |-> "unsubscribe", user |-> u, order |-> users[u].order,
                 by |-> "user"])
    /\ UNCHANGED <<db, liqpay, env>>

Running(order) == order \in paid \ ended

\* LiqPay ends order's subscription, if one runs, and announces it, or drops the
\* announcement once MaxSends is reached.
EndSubscription(order) ==
    /\ ended' = ended \cup (paid \cap {order})
    /\ IF Running(order) /\ sends < MaxSends
       THEN /\ inflight' = inflight \cup {[order |-> order, event |-> "unsubscribed"]}
            /\ sends' = sends + 1
       ELSE UNCHANGED <<inflight, sends>>
    /\ UNCHANGED <<issued, paid>>

\* LiqPay carries the request out, or refuses it in the body of its answer.
EndOrRefuse(order) ==
    EndSubscription(order) \/ UNCHANGED <<issued, paid, ended, inflight, sends>>

\* Answered with 200: Request looks at nothing else and Cancel drops the body, so a
\* refusal goes on to the downgrade too.
Unsubscribe(t) ==
    /\ thr[t].pc = "unsubscribe"
    /\ EndOrRefuse(thr[t].order)
    /\ answered' = answered \cup {thr[t].order.user}
    /\ Goto(t, [pc |-> "downgrade", user |-> thr[t].user, by |-> thr[t].by])
    /\ UNCHANGED <<db, env>>

\* Slip: the error of the request is ignored.
UnsubscribeFailsIgnored(t) ==
    /\ "liqpay" \in Faults
    /\ thr[t].pc = "unsubscribe"
    /\ EndOrRefuse(thr[t].order)
    /\ Goto(t, [pc |-> "downgrade", user |-> thr[t].user, by |-> thr[t].by])
    /\ UNCHANGED <<db, answered, env>>

\* The request to LiqPay fails: refused, or carried out and its answer lost.
UnsubscribeFails(t) ==
    /\ "liqpay" \in Faults
    /\ thr[t].pc = "unsubscribe"
    /\ EndOrRefuse(thr[t].order)
    /\ Return(t)
    /\ UNCHANGED <<db, answered, env>>

Downgrade(t) ==
    /\ thr[t].pc = "downgrade"
    /\ UpdateSubscription(thr[t].user, "free", "canceled", NoTime)
    /\ Return(t)
    /\ UNCHANGED <<receipts, liqpay, env>>

-----------------------------------------------------------------------------
(* The admin service.                                                      *)

\* Slip: every plan set by hand is marked "manual", Free too.
SetPlanAlwaysManual(u, plan) ==
    /\ "SetPlan" \in Operators
    /\ UpdateSubscription(u, plan, "manual", NoTime)
    /\ UNCHANGED <<receipts, thr, liqpay, env>>

SetPlan(u, plan) ==
    /\ "SetPlan" \in Operators
    /\ UpdateSubscription(u, plan, IF plan = "free" THEN "" ELSE "manual", NoTime)
    /\ UNCHANGED <<receipts, thr, liqpay, env>>

ExtendTrial(t, u) ==
    /\ "ExtendTrial" \in Operators
    /\ users[u].trialEnd <= MaxClock
    /\ Start(t, [pc |-> "extend", user |-> u, trialEnd |-> users[u].trialEnd])
    /\ UNCHANGED <<db, liqpay, env>>

\* One day more, from the end read or from now if that is over.
FinishExtend(t) ==
    /\ thr[t].pc = "extend"
    /\ LET base == IF thr[t].trialEnd < now THEN now ELSE thr[t].trialEnd
       IN  UpdateSubscription(thr[t].user, "max", "trialing", base + 1)
    /\ Return(t)
    /\ UNCHANGED <<receipts, liqpay, env>>

CancelSubscription(t, u) ==
    /\ "CancelSubscription" \in Operators
    /\ Start(t, [pc |-> IF users[u].order = NoOrder THEN "release" ELSE "adminCancel",
                 user |-> u])
    /\ UNCHANGED <<db, liqpay, env>>

\* billing.Cancel, called with its result ignored, reads the row again.
AdminCancel(t) ==
    /\ thr[t].pc = "adminCancel"
    /\ Goto(t, IF users[thr[t].user].order = NoOrder
               THEN Idle
               ELSE [pc |-> "unsubscribe", user |-> thr[t].user,
                     order |-> users[thr[t].user].order, by |-> "admin"])
    /\ UNCHANGED <<db, liqpay, env>>

Release(t) ==
    /\ thr[t].pc = "release"
    /\ UpdateSubscription(thr[t].user, "free", "", NoTime)
    /\ Return(t)
    /\ UNCHANGED <<receipts, liqpay, env>>

-----------------------------------------------------------------------------
(* LiqPay, the customer at its card page, the clock, and failures.         *)

\* subscribe_date_start: the trial's end, or at once.
FirstCharge(order) == IF order.flow = "trial" THEN TrialEnd(order) ELSE order.at

Send(order, event) ==
    /\ sends < MaxSends
    /\ sends' = sends + 1
    /\ inflight' = inflight \cup {[order |-> order, event |-> event]}

\* The customer's card is accepted and the subscription starts.
Pay(order) ==
    /\ order \in issued \ paid
    /\ paid' = paid \cup {order}
    /\ Send(order, "subscribed")
    /\ UNCHANGED <<db, thr, issued, ended, answered, env>>

\* A card is refused, or a status the code has no case for is reported.
Report(order, event) ==
    /\ order \in issued
    /\ event \in {"failure", "other"}
    /\ Send(order, event)
    /\ UNCHANGED <<db, thr, issued, paid, ended, answered, env>>

Charge(order) ==
    /\ Running(order)
    /\ FirstCharge(order) <= now
    /\ Send(order, "success")
    /\ UNCHANGED <<db, thr, issued, paid, ended, answered, env>>

Terminate(order) ==
    /\ Running(order)
    /\ EndSubscription(order)
    /\ UNCHANGED <<db, thr, answered, env>>

Tick ==
    /\ now < MaxClock
    /\ now' = now + 1
    /\ UNCHANGED <<db, thr, liqpay, crashes>>

\* A statement fails or the request's context is canceled: the handler
\* returns its error; the webhook still answers 200.
DbFails(t) ==
    /\ "db" \in Faults
    /\ thr[t].pc \notin {"idle", "unsubscribe"}
    /\ IF thr[t].pc \in {"record", "apply"}
       THEN Answer(thr[t].order, thr[t].event)
       ELSE UNCHANGED <<inflight, sends>>
    /\ Return(t)
    /\ UNCHANGED <<db, issued, paid, ended, answered, env>>

\* The server restarts: every goroutine is gone, its callback unanswered.
Crash ==
    /\ crashes < MaxCrashes
    /\ crashes' = crashes + 1
    /\ thr' = [t \in Thread |-> Idle]
    /\ UNCHANGED <<db, liqpay, now>>

-----------------------------------------------------------------------------

\* The next step of a goroutine that is serving a request.
Step(t) ==
    \/ FinishCheckout(t)
    \/ RecordPayment(t) \/ ApplyCallback(t)
    \/ Unsubscribe(t) \/ UnsubscribeFails(t) \/ Downgrade(t)
    \/ FinishExtend(t) \/ AdminCancel(t) \/ Release(t)
    \/ DbFails(t)

\* A request of user u, or of the operator about u, arrives.
Request(t, u) ==
    \/ StartTrial(t, u)
    \/ \E plan \in Priced : Subscribe(t, u, plan)
    \/ Cancel(t, u)
    \/ ExtendTrial(t, u)
    \/ CancelSubscription(t, u)

Deliver(cb) == \E t \in Thread : UnknownOrder(t, cb) \/ LookUpOrder(t, cb)

LiqPay(order) ==
    \/ Pay(order)
    \/ \E event \in {"failure", "other"} : Report(order, event)
    \/ Charge(order)
    \/ Terminate(order)

Next ==
    \/ \E t \in Thread : Step(t) \/ \E u \in User : Request(t, u)
    \/ \E u \in User, plan \in Plan : SetPlan(u, plan)
    \/ \E cb \in inflight : Deliver(cb)
    \/ \E order \in issued : LiqPay(order)
    \/ Tick
    \/ Crash

Spec == Init /\ [][Next]_vars

\* The server runs every goroutine on, and starts one for each callback
\* LiqPay delivers, however busy it is. Users, the operator, LiqPay's
\* customers and the clock owe nothing.
Fairness ==
    /\ \A t \in Thread : WF_vars(Step(t))
    /\ SF_vars(\E cb \in inflight : Deliver(cb))

FairSpec == Spec /\ Fairness

-----------------------------------------------------------------------------
(* Safety.                                                                 *)

PaidEvent    == {"subscribed", "success"}
FailingEvent == {"failure", "unsubscribed"}

Consistent(row) ==
    /\ row.status \in {"", "canceled"} => row.plan = "free"
    /\ row.status = "active"   => row.plan \in Priced
    /\ row.status = "trialing" => row.plan = "max"
    /\ row.status = "manual"   => row.plan # "free"
    /\ row.status \in {"", "canceled", "manual"} => row.trialEnd = NoTime

OwnsOrder(u) ==
    users[u].order # NoOrder => users[u].order \in issued /\ users[u].order.user = u

HasPaid(u) ==
    \E r \in receipts : /\ r.user = u /\ r.event \in PaidEvent
                        /\ r.order.plan = users[u].plan
                        /\ r.order \in paid

HasLost(u) ==
    \/ u \in answered
    \/ \E r \in receipts : r.user = u /\ r.event \in FailingEvent

\* A row's plan, subscription_status and trial_ends_at agree, whichever
\* handlers race: no status left over from one writer stands beside a plan
\* of another, and Enterprise is never sold, only granted (admin SetPlan).
\* "pending" may stand beside any plan: BeginCheckout writes no plan.
RowConsistent == \A u \in User : Consistent(users[u])

\* Orders, rows and receipts of different users never mix: the order in a
\* row was made for that user and handed to LiqPay, and HandleCallback
\* books a callback to the user whose order it names.
OrderOwnership ==
    /\ \A u \in User : OwnsOrder(u)
    /\ \A r \in receipts : r.order \in issued /\ r.order.user = r.user

\* Access LiqPay is billing for was really paid for: a row is "active" only
\* on a plan for which the user's own subscription was started at LiqPay,
\* and its receipt is already in payment_events; "trialing" likewise, unless
\* the operator extends trials by hand. HandleCallback records the receipt
\* before it grants access, and this must survive races and restarts.
AccessIsPaidFor ==
    \A u \in User :
        \/ users[u].status \notin {"active", "trialing"}
        \/ users[u].status = "trialing" /\ "ExtendTrial" \in Operators
        \/ HasPaid(u)

\* Nobody loses a plan for nothing: a row is "canceled" only when LiqPay answered a
\* request to end an order of this very user, or a callback of a failed charge or an
\* ended subscription of such an order is in payment_events. Cancel downgrades only
\* after an answer, also when requests fail and are retried, and whoever's callbacks
\* arrive meanwhile. That LiqPay did what it was asked is not implied.
CanceledHasCause == \A u \in User : users[u].status = "canceled" => HasLost(u)

\* What makes the four inductive: LiqPay reports a payment only of an order
\* that was paid, a goroutine's locals stay true while others run, and every
\* trial is for Max.
SoundOrder(order) == order.flow = "trial" => order.plan = "max"

SoundLocal(l) ==
    /\ l.pc = "begin" => l.order.user = l.user /\ SoundOrder(l.order)
    /\ l.pc \in {"record", "apply", "unsubscribe"} =>
          l.order \in issued /\ l.order.user = l.user
    /\ l.pc \in {"record", "apply"} /\ l.event \in PaidEvent => l.order \in paid
    /\ l.pc = "apply" =>
          [user |-> l.user, order |-> l.order, event |-> l.event] \in receipts
    /\ l.pc = "downgrade" => l.user \in answered
    /\ l.pc = "extend" => "ExtendTrial" \in Operators

\* Callbacks in flight, receipts and goroutines all speak of orders that
\* exist, and of payments that happened.
EventsSound ==
    /\ \A order \in issued : SoundOrder(order)
    /\ \A cb \in inflight :
          cb.order \in issued /\ (cb.event \in PaidEvent => cb.order \in paid)
    /\ \A r \in receipts : r.event \in PaidEvent => r.order \in paid
    /\ \A t \in Thread : SoundLocal(thr[t])

-----------------------------------------------------------------------------
(* The promise behind it: Billing implements Entitlement.                  *)

Promise == INSTANCE Entitlement WITH
    Grants    <- (IF "SetPlan" \in Operators THEN {"plan"} ELSE {})
                 \cup (IF "ExtendTrial" \in Operators THEN {"trial"} ELSE {}),
    purchases <- {<<order.user, order.plan>> : order \in paid},
    access    <- [u \in User |-> users[u].plan],
    label     <- [u \in User |-> users[u].status]

\* Every step of every handler, seen through its plan and status alone, is
\* one the promise allows: no interleaving of callbacks, checkouts, cancels
\* and admin calls gives a user a plan that user neither bought nor was granted.
ImplementsPromise == Promise!Spec

-----------------------------------------------------------------------------
(* What comments in the code claim, and the code does not do.              *)

\* "a replayed or superseded callback just won't find anyone and is dropped"
\* (HandleCallback): a callback whose receipt is there already finds no row that is
\* canceled and whose subscription is over.
ReplayDropped ==
    [][\A t \in Thread, r \in receipts :
          /\ thr[t] = Idle /\ thr'[t].pc = "record"
          /\ r = [user |-> thr'[t].user, order |-> thr'[t].order, event |-> thr'[t].event]
          /\ users[r.user].status = "canceled"
          => r.order \notin ended]_vars

-----------------------------------------------------------------------------
(* Liveness.                                                               *)

BoundedOrder ==
    {order \in [flow : Flow, plan : Priced, user : User, at : 1..MaxClock] :
        SoundOrder(order)}

\* A customer whose subscription LiqPay announced does not stay "pending":
\* the callback is applied, after a restart if need be, unless another
\* checkout has replaced the order.
PaidLeavesPending ==
    \A order \in BoundedOrder :
        /\ users[order.user].order = order
        /\ users[order.user].status = "pending"
        /\ [order |-> order, event |-> "subscribed"] \in inflight
        ~>  users[order.user].order # order \/ users[order.user].status # "pending"

=============================================================================
