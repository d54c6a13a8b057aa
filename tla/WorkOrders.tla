----------------------------- MODULE WorkOrders -----------------------------
(***************************************************************************)
(* The locally emulated work orders.  POST /work-orders numbers an order    *)
(* with count(orders of the year) + 1 (work_order_numbering,                *)
(* work_order_query.create_work_order); GET /work-orders first moves every  *)
(* order to the status its age calls for (work_order_lifecycle              *)
(* .sync_work_order_statuses) and then lists them.                          *)
(*                                                                         *)
(* Requests run concurrently, each in a transaction at READ COMMITTED: the  *)
(* wall clock is read once, at the start, and the rows later.  Statuses are *)
(* their positions in _STATUS_ORDER: 1 is draft, 5 completed.               *)
(***************************************************************************)
EXTENDS Naturals, Sequences, FiniteSets

CONSTANTS
  Creators,    \* concurrent POST handlers
  Listers,     \* concurrent GET handlers
  Threshold,   \* _CUMULATIVE_MINUTES, by position, in ticks of the clock
  YearLength,  \* ticks of a year
  MaxTime,     \* bound: ticks
  MaxOrders    \* bound: orders

Statuses == 1 .. Len(Threshold)
Draft == 1
Completed == Len(Threshold)

ASSUME WorkOrderAssumption ==
  /\ Threshold \in Seq(Nat)
  /\ Len(Threshold) > 1
  /\ YearLength \in Nat \ {0}
  /\ MaxTime \in Nat
  /\ MaxOrders \in Nat

VARIABLES
  now,     \* wall clock
  orders,  \* committed work_orders rows, in the order of their COMMITs
  post,    \* per POST: its step, its `now`, the number it is going to use
  get,     \* per GET: its step, its `now`
  rows,    \* per GET: the status of the orders it loaded
  raced    \* history: a GET changed an order while another was on its way

vars == <<now, orders, post, get, rows, raced>>

Time == 0 .. MaxTime
Order == [seq : 1 .. MaxOrders + 1, created_at : Time, status : Statuses]
Post == [pc : {"idle", "count", "insert"}, at : Time, seq : 0 .. MaxOrders + 1]
Get == [pc : {"idle", "select", "write"}, at : Time]

NoPost == [pc |-> "idle", at |-> 0, seq |-> 0]
NoGet == [pc |-> "idle", at |-> 0]

TypeOK ==
  /\ now \in Time
  /\ orders \in Seq(Order)
  /\ Len(orders) <= MaxOrders
  /\ post \in [Creators -> Post]
  /\ get \in [Listers -> Get]
  /\ rows \in [Listers -> Seq(Statuses)]
  /\ \A l \in Listers : Len(rows[l]) <= Len(orders)
  /\ raced \in BOOLEAN

Init ==
  /\ now = 0
  /\ orders = <<>>
  /\ post = [c \in Creators |-> NoPost]
  /\ get = [l \in Listers |-> NoGet]
  /\ rows = [l \in Listers |-> <<>>]
  /\ raced = FALSE

Tick ==
  /\ now < MaxTime
  /\ now' = now + 1
  /\ UNCHANGED <<orders, post, get, rows, raced>>

-----------------------------------------------------------------------------
(* POST /work-orders.                                                       *)

Year(t) == t \div YearLength

OrdersOf(year) == {i \in DOMAIN orders : Year(orders[i].created_at) = year}

\* now = datetime.now(timezone.utc); the numbering uses the same now.
PostStart(c) ==
  /\ post[c].pc = "idle"
  /\ post' = [post EXCEPT ![c] = [pc |-> "count", at |-> now, seq |-> 0]]
  /\ UNCHANGED <<now, orders, get, rows, raced>>

\* Mutated forms: counting the new order twice; numbers run on over the years.
NextSeqButOne(year) == Cardinality(OrdersOf(year)) + 2
NextEverSeq(year) == Len(orders) + 1

\* generate_display_number
NextSeq(year) == Cardinality(OrdersOf(year)) + 1

PostCount(c) ==
  /\ post[c].pc = "count"
  /\ post' = [post EXCEPT ![c] =
       [pc |-> "insert", at |-> post[c].at, seq |-> NextSeq(Year(post[c].at))]]
  /\ UNCHANGED <<now, orders, get, rows, raced>>

\* display_number is unique.
Taken(year, seq) == \E i \in OrdersOf(year) : orders[i].seq = seq

NewOrder(p) == [seq |-> p.seq, created_at |-> p.at, status |-> Draft]

PostInsert(c) ==
  /\ post[c].pc = "insert"
  /\ ~Taken(Year(post[c].at), post[c].seq)
  /\ Len(orders) < MaxOrders
  /\ orders' = Append(orders, NewOrder(post[c]))
  /\ post' = [post EXCEPT ![c] = NoPost]
  /\ UNCHANGED <<now, get, rows, raced>>

\* Another request took the number since it was counted: IntegrityError, 500.
PostFail(c) ==
  /\ post[c].pc = "insert"
  /\ Taken(Year(post[c].at), post[c].seq)
  /\ post' = [post EXCEPT ![c] = NoPost]
  /\ UNCHANGED <<now, orders, get, rows, raced>>

-----------------------------------------------------------------------------
(* GET /work-orders.                                                        *)

\* Mutated forms: the first threshold not reached yet; timedelta.seconds,
\* which starts again every day (of two ticks), for total_seconds().
UpcomingStatus(created, at) ==
  CHOOSE k \in Statuses :
    /\ k = Completed \/ created + Threshold[k] > at
    /\ \A j \in Statuses : j < k => created + Threshold[j] <= at
DailyStatus(created, at) ==
  CHOOSE k \in Statuses :
    /\ k = Draft \/ (at >= created /\ (at - created) % 2 >= Threshold[k])
    /\ \A j \in Statuses : j > k => at < created \/ (at - created) % 2 < Threshold[j]

\* status_for_elapsed: the last status whose threshold is reached, draft if
\* none is (an order may be created after `at`).
StatusForElapsed(created, at) ==
  CHOOSE k \in Statuses :
    /\ k = Draft \/ at >= created + Threshold[k]
    /\ \A j \in Statuses : j > k => at < created + Threshold[j]

GetStart(l) ==
  /\ get[l].pc = "idle"
  /\ get' = [get EXCEPT ![l] = [pc |-> "select", at |-> now]]
  /\ UNCHANGED <<now, orders, post, rows, raced>>

NewStatus(l, i) == StatusForElapsed(orders[i].created_at, get[l].at)

\* Mutated form: a row is written only while it is a draft.
IsDirtyDraft(l, i) == i \in DOMAIN rows[l] /\ rows[l][i] = Draft /\ NewStatus(l, i) # Draft

\* The ORM writes a row only when its status differs from the loaded one.
IsDirty(l, i) == i \in DOMAIN rows[l] /\ rows[l][i] # NewStatus(l, i)

\* Every row is in the automatic chain: no operation cancels an order.
GetSelect(l) ==
  /\ get[l].pc = "select"
  /\ rows' = [rows EXCEPT ![l] = [i \in DOMAIN orders |-> orders[i].status]]
  /\ get' = [get EXCEPT ![l].pc = "write"]
  /\ UNCHANGED <<now, orders, post, raced>>

\* Another GET has read the clock and has not written yet.
Races(l) == \E o \in Listers \ {l} : get[o].pc # "idle"

\* UPDATE the dirty rows by id and COMMIT (with none there is no COMMIT), then
\* list_work_orders and the answer.
GetWrite(l) ==
  /\ get[l].pc = "write"
  /\ orders' = [i \in DOMAIN orders |->
       IF IsDirty(l, i) THEN [orders[i] EXCEPT !.status = NewStatus(l, i)] ELSE orders[i]]
  /\ raced' = (raced \/ (Races(l) /\ \E i \in DOMAIN orders : IsDirty(l, i)))
  /\ rows' = [rows EXCEPT ![l] = <<>>]
  /\ get' = [get EXCEPT ![l] = NoGet]
  /\ UNCHANGED <<now, post>>

-----------------------------------------------------------------------------
PostStep(c) == PostStart(c) \/ PostCount(c) \/ PostInsert(c) \/ PostFail(c)
GetStep(l) == GetStart(l) \/ GetSelect(l) \/ GetWrite(l)

Next ==
  \/ Tick
  \/ \E c \in Creators : PostStep(c)
  \/ \E l \in Listers : GetStep(l)

Spec == Init /\ [][Next]_vars

\* Time passes, dashboards poll GET /work-orders, a request goes on.
FairSpec == Spec /\ WF_vars(Tick) /\ \A l \in Listers : WF_vars(GetStep(l))

-----------------------------------------------------------------------------
(* Properties.                                                              *)

\* However POSTs race, the numbers of a year run 1, 2, 3, ... without a gap
\* or a repetition, so a POST that meets no other never fails.
NumbersContiguous ==
  \A i \in DOMAIN orders :
    LET same == OrdersOf(Year(orders[i].created_at)) IN
    {orders[j].seq : j \in same} = 1 .. Cardinality(same)

\* No order has a status its age does not call for yet.
StatusNeverAhead ==
  \A i \in DOMAIN orders :
    orders[i].status # Draft => orders[i].created_at + Threshold[orders[i].status] <= now

\* As long as no GET has changed an order while another GET was on its way,
\* the status of an order only ever advances.
StatusAdvances ==
  [][~raced' => \A i \in DOMAIN orders : orders[i].status <= orders'[i].status]_vars

\* A status that a race put back is put right again: every order that grows
\* old enough before the clock of the model stops ends up completed for good.
EveryOrderCompletes ==
  \A i \in 1 .. MaxOrders :
    (i \in DOMAIN orders /\ orders[i].created_at + Threshold[Completed] <= MaxTime)
      ~> [](i \in DOMAIN orders /\ orders[i].status = Completed)

\* A completed order never changes.
CompletedIsFinal ==
  [][\A i \in DOMAIN orders :
       orders[i].status = Completed => orders'[i].status = Completed]_vars
=============================================================================
