--------------------------- MODULE WorkOrdersProofs ---------------------------
(***************************************************************************)
(* The emulated work orders for every number of concurrent requests, every *)
(* table of thresholds and every length of the year: how they are numbered *)
(* and how their statuses move.                                            *)
(***************************************************************************)
EXTENDS WorkOrders, FiniteSetTheorems, TLAPS

-----------------------------------------------------------------------------
(* The operators of the model.                                              *)

LEMMA LeastExists ==
  ASSUME NEW T, T \subseteq Nat, T # {}
  PROVE  \E m \in T : \A t \in T : m <= t
<1> DEFINE R == OpToRel(<, Nat)
<1>1. IsWellFoundedOn(R, Nat)
  BY NatLessThanWellFounded
<1> HIDE DEF R
<1>2. PICK m \in T : \A t \in T : <<t, m>> \notin R
  BY <1>1, WFMin
<1>3. \A t \in T : ~(t < m)
  BY <1>2 DEF R, OpToRel
<1> QED  BY <1>3

LEMMA GreatestExists ==
  ASSUME NEW n \in Nat, NEW S, S \subseteq 1 .. n, S # {}
  PROVE  \E m \in S : \A s \in S : s <= m
<1> DEFINE T == {x \in 0 .. n : n - x \in S}
<1>1. \A s \in S : n - s \in T
  <2> SUFFICES ASSUME NEW s \in S PROVE n - s \in T
    OBVIOUS
  <2>1. n - s \in 0 .. n /\ n - (n - s) = s
    OBVIOUS
  <2> QED  BY <2>1
<1>2. T \subseteq Nat /\ T # {}
  <2>1. PICK s \in S : TRUE
    OBVIOUS
  <2>2. n - s \in T
    BY <1>1, <2>1
  <2>3. T \subseteq Nat
    OBVIOUS
  <2> HIDE DEF T
  <2> QED  BY <2>2, <2>3
<1>3. PICK t \in T : \A u \in T : t <= u
  BY <1>2, LeastExists
<1>4. n - t \in S /\ \A s \in S : t <= n - s
  BY <1>1, <1>3
<1> QED  BY <1>3, <1>4

\* status_for_elapsed answers: the last threshold reached, or draft.
LEMMA StatusForElapsedReached ==
  ASSUME NEW created \in Nat, NEW at \in Nat
  PROVE  LET k == StatusForElapsed(created, at) IN
         /\ k \in Statuses
         /\ k = Draft \/ at >= created + Threshold[k]
         /\ \A j \in Statuses : j > k => at < created + Threshold[j]
<1> USE WorkOrderAssumption DEF Statuses, Draft
<1> DEFINE Reached == {k \in Statuses : k = Draft \/ at >= created + Threshold[k]}
<1>1. Len(Threshold) \in Nat /\ \A k \in Statuses : Threshold[k] \in Nat
  OBVIOUS
<1>2. Reached \subseteq 1 .. Len(Threshold) /\ Draft \in Reached
  BY <1>1
<1>3. PICK k \in Reached : \A j \in Reached : j <= k
  BY <1>1, <1>2, GreatestExists, Zenon
<1>4. ASSUME NEW j \in Statuses, j > k PROVE at < created + Threshold[j]
  <2>1. j \notin Reached
    BY <1>2, <1>3, <1>4
  <2> QED  BY <1>1, <2>1
<1>5. \E i \in Statuses :
        /\ i = Draft \/ at >= created + Threshold[i]
        /\ \A j \in Statuses : j > i => at < created + Threshold[j]
  BY <1>3, <1>4
<1> HIDE DEF Statuses, Draft
<1> QED  BY <1>5 DEF StatusForElapsed

\* The status an order is given grows with the time it is computed for.
LEMMA StatusForElapsedNotBehind ==
  ASSUME NEW created \in Nat, NEW at \in Nat, NEW k \in Statuses,
         k = Draft \/ at >= created + Threshold[k]
  PROVE  k <= StatusForElapsed(created, at)
<1> DEFINE e == StatusForElapsed(created, at)
<1>1. Len(Threshold) \in Nat /\ \A j \in Statuses : Threshold[j] \in Nat
  BY WorkOrderAssumption DEF Statuses
<1>2. e \in Statuses /\ (k > e => at < created + Threshold[k])
  BY StatusForElapsedReached
<1> HIDE DEF e
<1>3. ~(k > e)
  BY <1>1, <1>2 DEF Statuses, Draft
<1> QED  BY <1>1, <1>2, <1>3 DEF Statuses, e

\* The orders of a year are finitely many, and no more than all orders.
LEMMA OrdersOfFinite ==
  ASSUME orders \in Seq(Order), NEW year
  PROVE  /\ IsFiniteSet(OrdersOf(year))
         /\ Cardinality(OrdersOf(year)) \in 0 .. Len(orders)
<1>1. OrdersOf(year) \in SUBSET (1 .. Len(orders)) /\ Len(orders) \in Nat
  BY DEF OrdersOf
<1>2. IsFiniteSet(1 .. Len(orders)) /\ Cardinality(1 .. Len(orders)) = Len(orders)
  <2>1. 1 \in Int /\ Len(orders) \in Int
    BY <1>1
  <2>2. /\ IsFiniteSet(1 .. Len(orders))
        /\ Cardinality(1 .. Len(orders)) =
             IF 1 > Len(orders) THEN 0 ELSE Len(orders) - 1 + 1
    BY <2>1, FS_Interval, Zenon
  <2> QED  BY <1>1, <2>2
<1>3. IsFiniteSet(OrdersOf(year)) /\ Cardinality(OrdersOf(year)) <= Len(orders)
  BY <1>1, <1>2, FS_Subset
<1> QED  BY <1>1, <1>3, FS_CardinalityType

LEMMA OrderAt ==
  ASSUME orders \in Seq(Order), NEW i \in DOMAIN orders
  PROVE  /\ orders[i] \in Order
         /\ orders[i].seq \in 1 .. MaxOrders + 1
         /\ orders[i].created_at \in Time /\ orders[i].created_at \in Nat
         /\ orders[i].status \in Statuses
<1>1. i \in 1 .. Len(orders)
  OBVIOUS
<1>2. orders[i] \in Order
  BY <1>1
<1> QED  BY <1>2, WorkOrderAssumption DEF Order, Time

-----------------------------------------------------------------------------
(* Type correctness.                                                        *)

\* Reading or rewriting every order keeps their number.
LEMMA MapOrders ==
  ASSUME orders \in Seq(Order), NEW T, NEW f \in [DOMAIN orders -> T]
  PROVE  f \in Seq(T) /\ Len(f) = Len(orders) /\ DOMAIN f = DOMAIN orders
<1>1. Len(orders) \in Nat /\ DOMAIN orders = 1 .. Len(orders)
  OBVIOUS
<1>2. f \in [1 .. Len(orders) -> T]
  BY <1>1
<1>3. f \in Seq(T)
  BY <1>1, <1>2
<1>4. DOMAIN f = 1 .. Len(f) /\ Len(f) \in Nat
  BY <1>3
<1> QED  BY <1>1, <1>2, <1>3, <1>4

\* A counted number is never the 0 of a request that has not counted.
Counted == \A c \in Creators : post[c].pc = "insert" => post[c].seq # 0

TypeInv == TypeOK /\ Counted

LEMMA InitTypeInv == Init => TypeInv
<1> SUFFICES ASSUME Init PROVE TypeInv
  OBVIOUS
<1> USE WorkOrderAssumption DEF Init
<1>1. now \in Time
  BY DEF Time
<1>2. orders \in Seq(Order) /\ Len(orders) = 0
  OBVIOUS
<1>3. post \in [Creators -> Post] /\ Counted
  BY DEF Post, NoPost, Time, Counted
<1>4. get \in [Listers -> Get]
  BY DEF Get, NoGet, Time
<1>5. \A l \in Listers : rows[l] \in Seq(Statuses) /\ Len(rows[l]) = 0
  OBVIOUS
<1>6. rows \in [Listers -> Seq(Statuses)]
  BY <1>5
<1>7. raced \in BOOLEAN
  BY Zenon
<1> QED  BY <1>1, <1>2, <1>3, <1>4, <1>5, <1>6, <1>7 DEF TypeInv, TypeOK

LEMMA NextTypeInv == TypeInv /\ [Next]_vars => TypeInv'
<1> SUFFICES ASSUME TypeInv, [Next]_vars
             PROVE  TypeInv'
  OBVIOUS
<1> USE WorkOrderAssumption DEF TypeInv, Counted, TypeOK, Time, Post, Get
<1>1. CASE Tick
  BY <1>1 DEF Tick
<1>2. ASSUME NEW c \in Creators, PostStep(c) PROVE TypeInv'
  <2>1. CASE PostStart(c)
    BY <2>1 DEF PostStart
  <2>2. CASE PostCount(c)
    <3>1. NextSeq(Year(post[c].at)) \in 1 .. MaxOrders + 1
      BY OrdersOfFinite DEF NextSeq
    <3> QED  BY <2>2, <3>1 DEF PostCount
  <2>3. CASE PostInsert(c)
    <3>1. NewOrder(post[c]) \in Order
      <4>1. post[c] \in Post /\ post[c].seq # 0
        BY <2>3 DEF PostInsert
      <4>2. post[c].seq \in 1 .. MaxOrders + 1 /\ post[c].at \in Time /\ Draft \in Statuses
        BY <4>1 DEF Draft, Statuses
      <4> HIDE DEF TypeOK, Counted, Time
      <4> QED  BY <4>2 DEF NewOrder, Order
    <3>2. orders \in Seq(Order) /\ Len(orders) < MaxOrders /\ MaxOrders \in Nat
      BY <2>3 DEF PostInsert
    <3>3. orders' \in Seq(Order) /\ Len(orders') = Len(orders) + 1 /\ Len(orders') <= MaxOrders
      <4> HIDE DEF TypeOK, Counted
      <4> QED  BY <2>3, <3>1, <3>2 DEF PostInsert
    <3>4. /\ post' \in [Creators -> Post]
          /\ \A d \in Creators : post'[d].pc = "insert" => post'[d].seq # 0
      BY <2>3 DEF PostInsert, NoPost
    <3>5. \A l \in Listers : Len(rows[l]) \in Nat /\ Len(rows[l]) <= Len(orders)
      OBVIOUS
    <3> QED  BY <2>3, <3>2, <3>3, <3>4, <3>5 DEF PostInsert
  <2>4. CASE PostFail(c)
    BY <2>4 DEF PostFail, NoPost
  <2> QED  BY <1>2, <2>1, <2>2, <2>3, <2>4 DEF PostStep
<1>3. ASSUME NEW l \in Listers, GetStep(l) PROVE TypeInv'
  <2>1. CASE GetStart(l)
    BY <2>1 DEF GetStart
  <2>2. CASE GetSelect(l)
    <3> DEFINE f == [i \in DOMAIN orders |-> orders[i].status]
    <3>1. f \in [DOMAIN orders -> Statuses]
      <4>1. \A i \in DOMAIN orders : orders[i].status \in Statuses
        BY OrderAt
      <4> QED  BY <4>1
    <3>2. f \in Seq(Statuses) /\ Len(f) = Len(orders)
      BY <3>1, MapOrders
    <3> HIDE DEF f
    <3>3. rows' = [rows EXCEPT ![l] = f]
      BY <2>2 DEF GetSelect, f
    <3>4. rows' \in [Listers -> Seq(Statuses)]
      BY <3>2, <3>3
    <3>5. \A o \in Listers : Len(rows'[o]) <= Len(orders)
      BY <3>2, <3>3
    <3>6. get' \in [Listers -> Get]
      BY <2>2 DEF GetSelect
    <3> QED  BY <2>2, <3>4, <3>5, <3>6 DEF GetSelect
  <2>3. CASE GetWrite(l)
    <3>1. ASSUME NEW i \in DOMAIN orders PROVE NewStatus(l, i) \in Statuses
      <4>1. orders[i].created_at \in Nat /\ get[l].at \in Nat
        BY OrderAt
      <4> QED  BY <4>1, StatusForElapsedReached DEF NewStatus
    <3>2. orders' \in [DOMAIN orders -> Order]
      <4>1. ASSUME NEW i \in DOMAIN orders PROVE orders'[i] \in Order
        BY <2>3, <3>1, OrderAt DEF GetWrite, Order
      <4> QED  BY <2>3, <4>1 DEF GetWrite
    <3>3. orders' \in Seq(Order) /\ Len(orders') = Len(orders)
      BY <3>2, MapOrders
    <3> QED  BY <2>3, <3>3 DEF GetWrite, NoGet
  <2> QED  BY <1>3, <2>1, <2>2, <2>3 DEF GetStep
<1>4. CASE UNCHANGED vars
  BY <1>4 DEF vars
<1> QED  BY <1>1, <1>2, <1>3, <1>4 DEF Next

\* Every variable of the work orders keeps its type; in particular a request
\* never uses a number beyond the orders there are plus one.
THEOREM TypeCorrect == Spec => []TypeOK
<1>1. TypeInv => TypeOK
  BY DEF TypeInv
<1> QED  BY <1>1, InitTypeInv, NextTypeInv, PTL DEF Spec

-----------------------------------------------------------------------------
(* Numbers.                                                                 *)

\* The orders of a year carry the numbers 1, 2, ... up to their count, and
\* what a POST has counted is at most one more than their count now: orders
\* are only ever added.
NumbersOf(year) == {orders[j].seq : j \in OrdersOf(year)}

Numbered ==
  /\ \A t \in Time : NumbersOf(Year(t)) = 1 .. Cardinality(OrdersOf(Year(t)))
  /\ \A c \in Creators :
       post[c].pc = "insert" =>
         post[c].seq \in 1 .. Cardinality(OrdersOf(Year(post[c].at))) + 1

\* A number that is not taken is the next one.
LEMMA FreeIsNext ==
  ASSUME TypeOK, Numbered, NEW c \in Creators,
         post[c].pc = "insert", ~Taken(Year(post[c].at), post[c].seq)
  PROVE  post[c].seq = Cardinality(OrdersOf(Year(post[c].at))) + 1
<1> DEFINE year == Year(post[c].at)
           n == Cardinality(OrdersOf(year))
<1>1. post[c].at \in Time
  BY DEF TypeOK, Post
<1>2. n \in Nat /\ post[c].seq \in 1 .. n + 1
  BY OrdersOfFinite DEF Numbered, TypeOK
<1>3. NumbersOf(year) = 1 .. n
  BY <1>1 DEF Numbered
<1>4. post[c].seq \notin 1 .. n
  BY <1>3 DEF Taken, NumbersOf
<1> QED  BY <1>2, <1>4

LEMMA InitNumbered == Init => Numbered
<1> SUFFICES ASSUME Init PROVE Numbered
  OBVIOUS
<1>1. \A t \in Time : OrdersOf(Year(t)) = {}
  BY DEF Init, OrdersOf
<1>2. Cardinality({}) = 0
  BY FS_EmptySet
<1>3. \A t \in Time : NumbersOf(Year(t)) = {}
  BY <1>1 DEF NumbersOf
<1>4. \A c \in Creators : post[c].pc # "insert"
  BY DEF Init, NoPost
<1>5. 1 .. 0 = {}
  OBVIOUS
<1> QED  BY <1>1, <1>2, <1>3, <1>4, <1>5, Zenon DEF Numbered

\* A step that keeps the orders' numbers and years keeps the count of a year.
LEMMA SameYears ==
  ASSUME DOMAIN orders' = DOMAIN orders,
         \A i \in DOMAIN orders : /\ orders'[i].seq = orders[i].seq
                                  /\ orders'[i].created_at = orders[i].created_at,
         NEW year
  PROVE  /\ OrdersOf(year)' = OrdersOf(year)
         /\ NumbersOf(year)' = NumbersOf(year)
BY DEF OrdersOf, NumbersOf

LEMMA NextNumbered == TypeInv /\ Numbered /\ [Next]_vars => Numbered'
<1> SUFFICES ASSUME TypeInv, Numbered, [Next]_vars
             PROVE  Numbered'
  OBVIOUS
<1> USE DEF TypeInv
<1>1. ASSUME UNCHANGED <<orders, post>> PROVE Numbered'
  BY <1>1 DEF Numbered, NumbersOf, OrdersOf
<1>2. ASSUME NEW c \in Creators, PostStep(c) PROVE Numbered'
  <2>1. post \in [Creators -> Post] /\ \A d \in Creators : post[d].at \in Time
    BY DEF TypeOK, Post
  \* A request that counts or gives up leaves the orders alone.
  <2>r. ASSUME orders' = orders,
               \A d \in Creators : post'[d].pc = "insert" => post'[d] = post[d]
        PROVE  Numbered'
    <3>1. \A year : OrdersOf(year)' = OrdersOf(year) /\ NumbersOf(year)' = NumbersOf(year)
      BY <2>r DEF OrdersOf, NumbersOf
    <3>2. ASSUME NEW d \in Creators, post'[d].pc = "insert"
          PROVE  post'[d].seq \in 1 .. Cardinality(OrdersOf(Year(post'[d].at))) + 1
      BY <2>r, <3>2 DEF Numbered
    <3> QED  BY <3>1, <3>2 DEF Numbered
  <2>2. CASE PostStart(c)
    <3>1. \A d \in Creators : post'[d] = IF d = c THEN [pc |-> "count", at |-> now, seq |-> 0]
                                                  ELSE post[d]
      BY <2>1, <2>2 DEF PostStart
    <3>2. \A d \in Creators : post'[d].pc = "insert" => post'[d] = post[d]
      BY <3>1
    <3> QED  BY <2>2, <2>r, <3>2 DEF PostStart
  <2>3. CASE PostCount(c)
    <3>1. NextSeq(Year(post[c].at)) \in 1 .. Cardinality(OrdersOf(Year(post[c].at))) + 1
      BY OrdersOfFinite DEF NextSeq, TypeOK
    <3>2. \A year : OrdersOf(year)' = OrdersOf(year)
      BY <2>3 DEF PostCount, OrdersOf
    <3> QED  BY <2>1, <2>3, <3>1, <3>2 DEF PostCount, Numbered, NumbersOf
  <2>4. CASE PostInsert(c)
    <3> PICK year : year = Year(post[c].at)
      OBVIOUS
    <3> DEFINE n == Cardinality(OrdersOf(year))
               new == Len(orders) + 1
    <3>1. post[c].seq = n + 1 /\ n \in Nat
      BY <2>4, FreeIsNext, OrdersOfFinite DEF PostInsert, TypeOK
    <3>2. /\ new \in Nat /\ DOMAIN orders = 1 .. new - 1 /\ DOMAIN orders' = 1 .. new
          /\ \A i \in DOMAIN orders : orders'[i] = orders[i]
          /\ orders'[new] = NewOrder(post[c])
      BY <2>4 DEF PostInsert, TypeOK
    <3>3. NewOrder(post[c]).seq = n + 1 /\ Year(NewOrder(post[c]).created_at) = year
      BY <3>1 DEF NewOrder
    <3>4. /\ OrdersOf(year)' = OrdersOf(year) \cup {new}
          /\ new \notin OrdersOf(year)
          /\ \A y : y # year => OrdersOf(y)' = OrdersOf(y)
      <4> HIDE DEF new, n
      <4>1. DOMAIN orders' = DOMAIN orders \cup {new} /\ new \notin DOMAIN orders
        <5>1. new \in Nat \ {0}
          BY DEF new, TypeOK
        <5>2. 1 .. new = (1 .. new - 1) \cup {new} /\ new \notin 1 .. new - 1
          BY <5>1
        <5> QED  BY <3>2, <5>2
      <4>2. orders'[new].created_at = NewOrder(post[c]).created_at
        BY <3>2
      <4> QED  BY <3>2, <3>3, <4>1, <4>2, Zenon DEF OrdersOf
    <3>5. Cardinality(OrdersOf(year)') = n + 1
      BY <3>4, OrdersOfFinite, FS_AddElement DEF TypeOK
    <3>6. NumbersOf(year)' = NumbersOf(year) \cup {n + 1}
      <4> HIDE DEF new, n
      <4>1. \A j \in OrdersOf(year) : j \in DOMAIN orders
        BY DEF OrdersOf
      <4> QED  BY <3>2, <3>3, <3>4, <4>1 DEF NumbersOf
    <3>7. ASSUME NEW t \in Time
          PROVE  NumbersOf(Year(t))' = 1 .. Cardinality(OrdersOf(Year(t))')
      <4>1. CASE Year(t) = year
        <5>1. NumbersOf(year) = 1 .. n
          BY <4>1 DEF Numbered
        <5>2. NumbersOf(year)' = 1 .. n + 1
          BY <3>1, <3>6, <5>1
        <5> QED  BY <3>5, <4>1, <5>2
      <4>2. CASE Year(t) # year
        <5>1. OrdersOf(Year(t))' = OrdersOf(Year(t))
          BY <3>4, <4>2
        <5>2. NumbersOf(Year(t))' = NumbersOf(Year(t))
          BY <3>2, <5>1 DEF NumbersOf, OrdersOf
        <5> QED  BY <5>1, <5>2 DEF Numbered
      <4> QED  BY <4>1, <4>2
    <3>8. ASSUME NEW d \in Creators, post'[d].pc = "insert"
          PROVE  (post[d].seq \in 1 .. Cardinality(OrdersOf(Year(post[d].at))) + 1)'
      <4>1. post'[d] = post[d]
        BY <2>1, <2>4, <3>8 DEF PostInsert, NoPost
      <4> PICK y : y = Year(post[d].at)
        OBVIOUS
      <4>2. post[d].seq \in 1 .. Cardinality(OrdersOf(y)) + 1
        BY <3>8, <4>1 DEF Numbered
      <4>3. OrdersOf(Year(post[d].at))' = OrdersOf(y)'
        BY <4>1 DEF OrdersOf, Year
      <4>4. CASE y = year
        BY <3>1, <3>5, <4>1, <4>2, <4>3, <4>4
      <4>5. CASE y # year
        BY <3>4, <4>1, <4>2, <4>3, <4>5
      <4> QED  BY <4>4, <4>5
    <3> QED  BY <3>7, <3>8 DEF Numbered
  <2>5. CASE PostFail(c)
    <3>1. \A d \in Creators : post'[d] = IF d = c THEN NoPost ELSE post[d]
      BY <2>1, <2>5 DEF PostFail
    <3>2. \A d \in Creators : post'[d].pc = "insert" => post'[d] = post[d]
      BY <3>1 DEF NoPost
    <3> QED  BY <2>5, <2>r, <3>2 DEF PostFail
  <2> QED  BY <1>2, <2>2, <2>3, <2>4, <2>5 DEF PostStep
<1>3. ASSUME NEW l \in Listers, GetWrite(l) PROVE Numbered'
  <2>1. DOMAIN orders' = DOMAIN orders
    BY <1>3 DEF GetWrite
  <2>2. \A i \in DOMAIN orders : /\ orders'[i].seq = orders[i].seq
                                 /\ orders'[i].created_at = orders[i].created_at
    BY <1>3, OrderAt DEF GetWrite, TypeOK, Order
  <2>3. post' = post
    BY <1>3 DEF GetWrite
  <2> QED  BY <2>1, <2>2, <2>3, SameYears DEF Numbered
<1> QED
  BY <1>1, <1>2, <1>3 DEF Next, Tick, GetStep, GetStart, GetSelect, vars

\* However POST /work-orders requests race, the committed numbers of a year
\* are 1, 2, 3, ... without a gap or a repetition: a stale count is either the
\* next number or one that display_number's UNIQUE refuses.
THEOREM NumbersAreContiguous == Spec => []NumbersContiguous
<1>1. TypeInv /\ Numbered => NumbersContiguous
  BY OrderAt DEF TypeInv, TypeOK, Numbered, NumbersOf, NumbersContiguous
<1> QED
  BY <1>1, InitTypeInv, NextTypeInv, InitNumbered, NextNumbered, PTL DEF Spec

-----------------------------------------------------------------------------
(* Statuses.                                                                *)

\* The clock a GET has read is not ahead of the clock.
ClocksRead == \A l \in Listers : get[l].at <= now

\* As long as no race has put a status back, every order is at most as far as
\* each GET on its way is going to put it.
NoneBehind ==
  ~raced => \A l \in Listers : get[l].pc # "idle" =>
    \A i \in DOMAIN orders :
      orders[i].status <= StatusForElapsed(orders[i].created_at, get[l].at)

StatusInv == ClocksRead /\ StatusNeverAhead /\ NoneBehind

LEMMA InitStatusInv == Init => StatusInv
<1> SUFFICES ASSUME Init PROVE StatusInv
  OBVIOUS
<1>1. ClocksRead
  BY DEF Init, NoGet, ClocksRead
<1>2. StatusNeverAhead /\ NoneBehind
  BY DEF Init, NoGet, StatusNeverAhead, NoneBehind
<1> QED  BY <1>1, <1>2 DEF StatusInv

\* What a GET that writes does to an order.
LEMMA WriteStep ==
  ASSUME TypeOK, NEW l \in Listers, GetWrite(l), NEW i \in DOMAIN orders
  PROVE  /\ i \in DOMAIN orders'
         /\ orders'[i].created_at = orders[i].created_at
         /\ \/ ~IsDirty(l, i) /\ orders'[i].status = orders[i].status
            \/ IsDirty(l, i) /\ orders'[i].status = NewStatus(l, i)
<1>1. orders[i] \in Order
  BY OrderAt DEF TypeOK
<1>2. DOMAIN orders' = DOMAIN orders
  BY DEF GetWrite
<1>3. orders'[i] = IF IsDirty(l, i) THEN [orders[i] EXCEPT !.status = NewStatus(l, i)]
                                    ELSE orders[i]
  BY DEF GetWrite
<1> QED  BY <1>1, <1>2, <1>3 DEF Order

\* No order is put further than the time a GET has read calls for.
LEMMA NewStatusReached ==
  ASSUME TypeOK, ClocksRead, NEW l \in Listers, NEW i \in DOMAIN orders
  PROVE  /\ NewStatus(l, i) \in Statuses
         /\ NewStatus(l, i) # Draft =>
              orders[i].created_at + Threshold[NewStatus(l, i)] <= now
<1>1. orders[i].created_at \in Nat /\ get[l].at \in Nat /\ now \in Nat /\ get[l].at <= now
  BY OrderAt, WorkOrderAssumption DEF TypeOK, Get, Time, ClocksRead
<1>2. /\ NewStatus(l, i) \in Statuses
      /\ NewStatus(l, i) = Draft
           \/ get[l].at >= orders[i].created_at + Threshold[NewStatus(l, i)]
  BY <1>1, StatusForElapsedReached DEF NewStatus
<1>3. Threshold[NewStatus(l, i)] \in Nat
  BY <1>2, WorkOrderAssumption DEF Statuses
<1> QED  BY <1>1, <1>2, <1>3

\* No order is behind a GET that starts now.
LEMMA NotBehindNow ==
  ASSUME TypeOK, StatusNeverAhead, NEW i \in DOMAIN orders
  PROVE  orders[i].status <= StatusForElapsed(orders[i].created_at, now)
<1>1. /\ orders[i].created_at \in Nat /\ now \in Nat
      /\ orders[i].status \in Statuses
      /\ Threshold[orders[i].status] \in Nat
  BY OrderAt, WorkOrderAssumption DEF TypeOK, Time, Statuses
<1>2. orders[i].status = Draft \/ now >= orders[i].created_at + Threshold[orders[i].status]
  BY <1>1 DEF StatusNeverAhead
<1> QED  BY <1>1, <1>2, StatusForElapsedNotBehind

LEMMA NextStatusInv == TypeInv /\ StatusInv /\ [Next]_vars => StatusInv'
<1> SUFFICES ASSUME TypeOK, ClocksRead, StatusNeverAhead, NoneBehind, [Next]_vars
             PROVE  StatusInv'
  BY DEF TypeInv, StatusInv
<1>t. /\ now \in Nat /\ get \in [Listers -> Get]
      /\ \A l \in Listers : get[l].at \in Nat
      /\ \A k \in Statuses : Threshold[k] \in Nat
      /\ \A i \in DOMAIN orders : orders[i].created_at \in Nat /\ orders[i].status \in Statuses
  BY OrderAt, WorkOrderAssumption DEF TypeOK, Get, Time, Statuses
<1>1. CASE Tick
  <2>1. ClocksRead'
    BY <1>t, <1>1 DEF Tick, ClocksRead
  <2>2. StatusNeverAhead'
    BY <1>t, <1>1 DEF Tick, StatusNeverAhead
  <2>3. NoneBehind'
    BY <1>1 DEF Tick, NoneBehind
  <2> QED  BY <2>1, <2>2, <2>3 DEF StatusInv
<1>2. ASSUME NEW c \in Creators, PostInsert(c) PROVE StatusInv'
  <2> DEFINE new == Len(orders) + 1
  <2>1. /\ \A i \in DOMAIN orders' : i \in DOMAIN orders \/ i = new
        /\ \A i \in DOMAIN orders : orders'[i] = orders[i]
        /\ orders'[new] = NewOrder(post[c])
        /\ UNCHANGED <<now, get, rows, raced>>
    BY <1>2 DEF PostInsert, TypeOK
  <2>2. orders'[new].status = Draft /\ orders'[new].created_at \in Nat
    BY <2>1, WorkOrderAssumption DEF NewOrder, TypeOK, Post, Time
  <2> HIDE DEF new
  <2>3. ClocksRead'
    BY <2>1 DEF ClocksRead
  <2>4. StatusNeverAhead'
    BY <2>1, <2>2 DEF StatusNeverAhead
  <2>5. \A l \in Listers :
          orders'[new].status <= StatusForElapsed(orders'[new].created_at, get[l].at)
    <3>1. Draft \in Statuses
      BY WorkOrderAssumption DEF Statuses, Draft
    <3> QED  BY <1>t, <2>2, <3>1, StatusForElapsedNotBehind
  <2>6. NoneBehind'
    BY <2>1, <2>5 DEF NoneBehind
  <2> QED  BY <2>3, <2>4, <2>6 DEF StatusInv
<1>3. ASSUME NEW c \in Creators, PostStart(c) \/ PostCount(c) \/ PostFail(c)
      PROVE  StatusInv'
  BY <1>3 DEF PostStart, PostCount, PostFail, StatusInv, ClocksRead, StatusNeverAhead, NoneBehind
<1>4. ASSUME NEW l \in Listers, GetStart(l) PROVE StatusInv'
  <2>1. /\ UNCHANGED <<now, orders, post, rows, raced>>
        /\ \A o \in Listers : get'[o] = IF o = l THEN [pc |-> "select", at |-> now] ELSE get[o]
    BY <1>4, <1>t DEF GetStart
  <2>2. ClocksRead'
    BY <2>1, <1>t DEF ClocksRead
  <2>3. StatusNeverAhead'
    BY <2>1 DEF StatusNeverAhead
  <2>4. NoneBehind'
    BY <2>1, NotBehindNow DEF NoneBehind
  <2> QED  BY <2>2, <2>3, <2>4 DEF StatusInv
<1>5. ASSUME NEW l \in Listers, GetSelect(l) PROVE StatusInv'
  <2>1. /\ UNCHANGED <<now, orders, post, raced>>
        /\ \A o \in Listers : get'[o].at = get[o].at /\ (get'[o].pc # "idle" => get[o].pc # "idle")
    BY <1>5, <1>t DEF GetSelect, Get
  <2> QED  BY <2>1 DEF StatusInv, ClocksRead, StatusNeverAhead, NoneBehind
<1>6. ASSUME NEW l \in Listers, GetWrite(l) PROVE StatusInv'
  <2>1. /\ UNCHANGED <<now, post>> /\ DOMAIN orders' = DOMAIN orders
        /\ raced' = (raced \/ (Races(l) /\ \E i \in DOMAIN orders : IsDirty(l, i)))
        /\ \A o \in Listers : get'[o] = IF o = l THEN NoGet ELSE get[o]
    BY <1>6, <1>t DEF GetWrite
  <2>2. ClocksRead'
    BY <2>1, <1>t DEF ClocksRead, NoGet
  <2>3. StatusNeverAhead'
    <3> SUFFICES ASSUME NEW i \in DOMAIN orders, orders'[i].status # Draft
                 PROVE  orders'[i].created_at + Threshold[orders'[i].status] <= now
      BY <2>1 DEF StatusNeverAhead
    <3> QED  BY <1>6, WriteStep, NewStatusReached DEF StatusNeverAhead
  <2>4. NoneBehind'
    <3> SUFFICES ASSUME ~raced', NEW o \in Listers, get'[o].pc # "idle",
                        NEW i \in DOMAIN orders
                 PROVE  orders'[i].status <=
                          StatusForElapsed(orders'[i].created_at, get'[o].at)
      BY <2>1 DEF NoneBehind
    <3>1. o # l /\ get'[o] = get[o] /\ ~raced
      <4>1. o # l /\ get'[o] = get[o]
        BY <2>1 DEF NoGet
      <4>2. ~raced
        BY <2>1
      <4> QED  BY <4>1, <4>2
    <3>2. ~IsDirty(l, i)
      BY <2>1, <3>1 DEF Races
    <3>3. orders'[i].status = orders[i].status /\ orders'[i].created_at = orders[i].created_at
      BY <1>6, <3>2, WriteStep
    <3> QED  BY <3>1, <3>3 DEF NoneBehind
  <2> QED  BY <2>2, <2>3, <2>4 DEF StatusInv
<1>7. CASE UNCHANGED vars
  BY <1>7 DEF vars, StatusInv, ClocksRead, StatusNeverAhead, NoneBehind
<1> QED  BY <1>1, <1>2, <1>3, <1>4, <1>5, <1>6, <1>7 DEF Next, PostStep, GetStep

\* GET /work-orders never gives an order a status its age does not call for,
\* whatever the clock, the thresholds and the requests on their way.
THEOREM StatusIsNeverAhead == Spec => []StatusNeverAhead
<1>1. StatusInv => StatusNeverAhead
  BY DEF StatusInv
<1> QED
  BY <1>1, InitTypeInv, NextTypeInv, InitStatusInv, NextStatusInv, PTL DEF Spec

\* Until a GET changes an order while another GET is on its way, no step of any
\* request moves the status of an order back (sync_work_order_statuses).
THEOREM StatusOnlyAdvances == Spec => StatusAdvances
<1> DEFINE Advances == ~raced' => \A i \in DOMAIN orders : orders[i].status <= orders'[i].status
<1>1. TypeInv /\ StatusInv /\ [Next]_vars => [Advances]_vars
  <2> SUFFICES ASSUME TypeOK, StatusInv, Next, ~raced', NEW i \in DOMAIN orders
               PROVE  orders[i].status <= orders'[i].status
    BY DEF TypeInv
  <2>1. orders[i].status \in Nat
    BY OrderAt, WorkOrderAssumption DEF TypeOK, Statuses
  <2>2. CASE UNCHANGED orders
    BY <2>1, <2>2
  <2>3. ASSUME NEW c \in Creators, PostInsert(c) PROVE orders'[i] = orders[i]
    BY <2>3 DEF PostInsert, TypeOK
  <2>4. ASSUME NEW l \in Listers, GetWrite(l) PROVE orders[i].status <= orders'[i].status
    <3>1. get[l].pc # "idle" /\ ~raced
      BY <2>4 DEF GetWrite
    <3>2. orders[i].status <= NewStatus(l, i)
      BY <3>1 DEF StatusInv, NoneBehind, NewStatus
    <3> QED  BY <2>1, <2>4, <3>2, WriteStep
  <2> QED
    BY <2>1, <2>2, <2>3, <2>4 DEF Next, Tick, PostStep, PostStart, PostCount, PostFail,
                                  GetStep, GetStart, GetSelect
<1> QED
  BY <1>1, InitTypeInv, NextTypeInv, InitStatusInv, NextStatusInv, PTL
     DEF Spec, StatusAdvances

=============================================================================
