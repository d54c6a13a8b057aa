----------------------------- MODULE ListsProofs ----------------------------
(***************************************************************************)
(* Lists and cards for every number of rows, page size, caller and mix of  *)
(* arrivals and changes: a card opens for whom the list shows the row, and *)
(* a walk through the pages returns every row that stays exactly once.     *)
(***************************************************************************)
EXTENDS Reads, FiniteSetTheorems, TLAPS

-----------------------------------------------------------------------------
(* The rows of a table.                                                     *)

Row == [id : Slots, place : Slots \cup {NoPlace}, status : {"open", "closed"}, heap : Slots, rank : Int]

RowsInv ==
  /\ rows \subseteq Row
  /\ \A r, s \in rows : r.id = s.id \/ r.heap = s.heap => r = s
  /\ kind = "facilities" => \A r \in rows : r.place = r.id
  /\ rows # {} => kind \in Kinds

LEMMA SlotsAre == MaxRows \in Nat /\ Slots = 1 .. 2 * MaxRows + 1 /\ Slots \subseteq Nat /\ NoPlace \notin Slots
  BY ListsAssumption DEF Slots, NoPlace

\* What a row may look like.
LEMMA RowsWithTyped ==
  ASSUME NEW id \in Slots, NEW heap \in Slots, NEW r \in RowsWith(id, heap)
  PROVE  /\ r \in Row /\ r.id = id /\ r.heap = heap
         /\ kind = "facilities" => r.place = id
<1>1. PlacesOf(id) \subseteq Slots \cup {NoPlace} /\ (kind = "facilities" => PlacesOf(id) = {id})
  BY ListsAssumption DEF PlacesOf
<1>2. PICK ranks : ranks = IF kind = "risks" THEN Ranks ELSE {0}  OBVIOUS
<1>3. ranks \subseteq Int  BY <1>2, ListsAssumption
<1>4. r \in [id : {id}, place : PlacesOf(id), status : {"open"}, heap : {heap}, rank : ranks]
  BY <1>2, Zenon DEF RowsWith
<1>5. /\ r.id = id /\ r.place \in PlacesOf(id) /\ r.status = "open" /\ r.heap = heap /\ r.rank \in Int
      /\ r = [id |-> r.id, place |-> r.place, status |-> r.status, heap |-> r.heap, rank |-> r.rank]
  BY <1>3, <1>4
<1>6. r.place \in Slots \cup {NoPlace}  BY <1>1, <1>5, Zenon
<1>7. r \in Row  BY <1>5, <1>6 DEF Row
<1>8. QED  BY <1>1, <1>5, <1>7

LEMMA RowsInit == ReadsInit => RowsInv
<1> SUFFICES ASSUME ReadsInit PROVE RowsInv
  OBVIOUS
<1>1. CASE rows = {}  BY <1>1 DEF RowsInv
<1>2. CASE ListsInit
  <2> DEFINE ids == {2 * i : i \in 1 .. MaxRows}
  <2>1. PICK g \in [ids -> UNION {RowsWith(i, i) : i \in ids}] :
          rows = Range(g) /\ \A i \in ids : g[i].id = i
    BY <1>2 DEF ListsInit
  <2>2. ids \subseteq Slots  BY SlotsAre
  <2>3. ASSUME NEW i \in ids
        PROVE  g[i] \in Row /\ g[i].id = i /\ g[i].heap = i /\ (kind = "facilities" => g[i].place = i)
    <3>1. g[i] \in UNION {RowsWith(j, j) : j \in ids} /\ g[i].id = i
      <4> HIDE DEF ids
      <4>1. QED  BY <2>1
    <3>2. PICK j \in ids : g[i] \in RowsWith(j, j)  BY <3>1
    <3>3. j \in Slots  BY <2>2
    <3>4. QED  BY <3>1, <3>2, <3>3, RowsWithTyped
  <2>4. \A r \in rows : \E i \in ids : r = g[i]
    <3> HIDE DEF ids
    <3>1. QED  BY <2>1 DEF Range
  <2>5. kind \in Kinds  BY <1>2 DEF ListsInit
  <2> HIDE DEF ids
  <2>6. QED  BY <2>3, <2>4, <2>5 DEF RowsInv
<1>3. QED  BY <1>1, <1>2 DEF ReadsInit

LEMMA RowsStep ==
  ASSUME RowsInv, [ReadsNext]_reads
  PROVE  RowsInv'
<1>1. CASE UNCHANGED <<rows, kind>>  BY <1>1 DEF RowsInv
<1>2. CASE Arrive /\ kind \in Kinds
  <2>1. PICK id \in Free(IdsOf(rows)), heap \in Free({r.heap : r \in rows}) :
          \E r \in RowsWith(id, heap) : rows' = rows \cup {r}
    BY <1>2 DEF Arrive
  <2>2. PICK r \in RowsWith(id, heap) : rows' = rows \cup {r}  BY <2>1
  <2>3. id \in Slots /\ heap \in Slots /\ \A s \in rows : s.id # id /\ s.heap # heap
    BY DEF Free, IdsOf
  <2>4. /\ r \in Row /\ r.id = id /\ r.heap = heap
        /\ kind = "facilities" => r.place = id
    BY <2>3, RowsWithTyped
  <2>5. kind' = kind  BY <1>2 DEF Arrive
  <2>6. QED  BY <1>2, <2>2, <2>3, <2>4, <2>5 DEF RowsInv
<1>3. CASE Change
  <2>1. PICK r \in rows, heap \in Free({q.heap : q \in rows}) :
          rows' = (rows \ {r}) \cup {[r EXCEPT !.status = "closed", !.heap = heap]}
    BY <1>3 DEF Change
  <2>2. PICK new : new = [r EXCEPT !.status = "closed", !.heap = heap]  OBVIOUS
  <2>3. heap \in Slots /\ \A s \in rows : s.heap # heap  BY DEF Free
  <2>4. r \in Row  BY DEF RowsInv
  <2>5. new \in Row /\ new.id = r.id /\ new.heap = heap  BY <2>2, <2>3, <2>4 DEF Row
  <2>6. kind' = kind /\ kind \in Changing /\ kind # "facilities" /\ kind \in Kinds
    BY <1>3 DEF Change, Changing, RowsInv
  <2>7. \A q \in rows' : q \in rows \ {r} \/ q = new  BY <2>1, <2>2
  <2>8. rows' \subseteq Row  BY <2>5, <2>7 DEF RowsInv
  <2>9. ASSUME NEW p \in rows', NEW q \in rows', p.id = q.id \/ p.heap = q.heap
        PROVE  p = q
    <3>1. CASE p \in rows \ {r} /\ q \in rows \ {r}  BY <2>9, <3>1 DEF RowsInv
    <3>2. CASE p = new /\ q \in rows \ {r}
      <4>1. q.id # r.id /\ q.heap # heap  BY <2>3, <3>2 DEF RowsInv
      <4>2. QED  BY <2>5, <2>9, <3>2, <4>1
    <3>3. CASE q = new /\ p \in rows \ {r}
      <4>1. p.id # r.id /\ p.heap # heap  BY <2>3, <3>3 DEF RowsInv
      <4>2. QED  BY <2>5, <2>9, <3>3, <4>1
    <3>4. QED  BY <2>7, <3>1, <3>2, <3>3
  <2>10. QED  BY <2>6, <2>8, <2>9 DEF RowsInv
<1>4. QED  BY <1>1, <1>2, <1>3 DEF ReadsNext, ListsNext, Ask, Follow, Record, reads, lists

LEMMA RowsInvHolds == ReadsSpec => []RowsInv
BY RowsInit, RowsStep, PTL DEF ReadsSpec

-----------------------------------------------------------------------------
(* The order of a list.                                                     *)

\* Rows have different ids and lie at different places of the heap, so each
\* order of a list is a strict total one.
LEMMA BeforeIsOrder ==
  ASSUME RowsInv, NEW r \in rows, NEW s \in rows
  PROVE  /\ ~(Before(r, s) /\ Before(s, r))
         /\ r # s => Before(r, s) \/ Before(s, r)
         /\ \A t \in rows : Before(r, s) /\ Before(s, t) => Before(r, t)
<1>1. \A q \in rows : q.id \in Int /\ q.heap \in Int /\ q.rank \in Int
  BY SlotsAre DEF RowsInv, Row
<1>2. r # s => r.id # s.id /\ r.heap # s.heap  BY DEF RowsInv
<1>3. CASE kind \in {"facilities", "sensors"}
  <2>1. \A p, q : Before(p, q) <=> p.id < q.id  BY <1>3 DEF Before, ById
  <2>2. QED  BY <1>1, <1>2, <2>1
<1>4. CASE kind = "risks"
  <2>1. \A p, q : Before(p, q) <=> p.rank < q.rank \/ (p.rank = q.rank /\ p.heap < q.heap)
    BY <1>4 DEF Before, ByPriority
  <2>2. QED  BY <1>1, <1>2, <2>1
<1>5. CASE kind \notin {"facilities", "sensors", "risks"}
  <2>1. \A p, q : Before(p, q) <=> p.id > q.id  BY <1>5 DEF Before, NewestFirst
  <2>2. QED  BY <1>1, <1>2, <2>1
<1>6. QED  BY <1>3, <1>4, <1>5

LEMMA RowsFinite == ASSUME RowsInv PROVE IsFiniteSet(rows)
<1> DEFINE f == [r \in rows |-> r.id]
<1>1. f \in Injection(rows, Slots)
  <2>1. \A r \in rows : f[r] = r.id /\ r.id \in Slots  BY DEF RowsInv, Row
  <2>2. f \in [rows -> Slots]  BY <2>1
  <2>3. \A r, s \in rows : f[r] = f[s] => r = s  BY <2>1 DEF RowsInv
  <2> HIDE DEF f
  <2>4. QED  BY <2>2, <2>3 DEF Injection, IsInjective
<1>2. IsFiniteSet(Slots)
  <2>1. 1 \in Int /\ 2 * MaxRows + 1 \in Int  BY SlotsAre
  <2>2. QED  BY <2>1, FS_Interval, SlotsAre
<1>3. QED
  <2> HIDE DEF f
  <2>1. QED  BY <1>1, <1>2, FS_Injection

\* Sorted rows: all of S, each once, in the order of the list.
Sorts(list, S) ==
  /\ list \in Seq(S) /\ Len(list) = Cardinality(S)
  /\ \A r \in S : \E i \in 1 .. Len(list) : list[i] = r
  /\ \A i, j \in 1 .. Len(list) : i < j => Before(list[i], list[j])

LEMMA InOrderSorts ==
  ASSUME RowsInv, NEW S \in SUBSET rows
  PROVE  Sorts(InOrder(S), S)
<1> DEFINE n == Cardinality(S)
           Prior(r) == {s \in S : Before(s, r)}
           place(r) == 1 + Cardinality(Prior(r))
           f == [r \in S |-> place(r)]
<1>1. IsFiniteSet(S) /\ n \in Nat  BY RowsFinite, FS_Subset, FS_CardinalityType
<1>2. ASSUME NEW r \in S
      PROVE  Cardinality(Prior(r)) \in Nat /\ IsFiniteSet(Prior(r)) /\ place(r) \in 1 .. n
  <2>1. Prior(r) \in SUBSET (S \ {r})  BY BeforeIsOrder
  <2>2. IsFiniteSet(S \ {r}) /\ Cardinality(S \ {r}) = n - 1  BY <1>1, FS_RemoveElement
  <2>3. IsFiniteSet(Prior(r)) /\ Cardinality(Prior(r)) <= n - 1 /\ Cardinality(Prior(r)) \in Nat
    <3> HIDE DEF Prior, n
    <3>1. QED  BY <2>1, <2>2, FS_Subset, FS_CardinalityType
  <2>4. QED  BY <1>1, <2>3
<1>3. ASSUME NEW r \in S, NEW s \in S, Before(r, s)
      PROVE  place(r) < place(s)
  <2>1. r \notin Prior(r) /\ Prior(r) \cup {r} \in SUBSET Prior(s)  BY <1>3, BeforeIsOrder
  <2>2. Cardinality(Prior(r) \cup {r}) = Cardinality(Prior(r)) + 1
    BY <1>2, <2>1, FS_AddElement
  <2>3. Cardinality(Prior(r) \cup {r}) <= Cardinality(Prior(s))
    <3>1. IsFiniteSet(Prior(s))  BY <1>2
    <3> HIDE DEF Prior
    <3>2. QED  BY <2>1, <3>1, FS_Subset
  <2>4. QED  BY <1>2, <2>2, <2>3
<1>4. ASSUME NEW r \in S, NEW s \in S, place(r) = place(s) PROVE r = s
  <2>1. place(r) \in Int /\ place(s) \in Int  BY <1>2
  <2>2. ~Before(r, s) /\ ~Before(s, r)
    <3>1. Before(r, s) => place(r) < place(s)  BY <1>3
    <3>2. Before(s, r) => place(s) < place(r)  BY <1>3
    <3> HIDE DEF place
    <3>3. QED  BY <1>4, <2>1, <3>1, <3>2
  <2>3. QED  BY <2>2, BeforeIsOrder
<1>5. \A i \in 1 .. n : \E r \in S : place(r) = i
  <2>1. IsFiniteSet(1 .. n) /\ Cardinality(1 .. n) = n
    <3>1. 1 \in Int /\ n \in Int  BY <1>1
    <3> HIDE DEF n
    <3>2. IsFiniteSet(1 .. n) /\ Cardinality(1 .. n) = IF 1 > n THEN 0 ELSE n - 1 + 1
      BY <3>1, FS_Interval, Zenon
    <3>3. QED  BY <1>1, <3>2
  <2>2. f \in Injection(S, 1 .. n)
    <3>1. f \in [S -> 1 .. n] /\ \A r \in S : f[r] = place(r)  BY <1>2
    <3>2. \A r, s \in S : f[r] = f[s] => r = s
      <4> HIDE DEF place, f
      <4>1. QED  BY <1>4, <3>1
    <3> HIDE DEF f, n
    <3>3. QED  BY <3>1, <3>2 DEF Injection, IsInjective
  <2>3. f \in Surjection(S, 1 .. n)
    <3>1. Cardinality(S) = Cardinality(1 .. n)  BY <2>1
    <3> HIDE DEF f, n
    <3>2. QED  BY <2>1, <2>2, <3>1, FS_Injection
  <2>4. QED  BY <2>3 DEF Surjection
<1>6. InOrder(S) = [i \in 1 .. n |-> CHOOSE r \in S : place(r) = i]  BY DEF InOrder
<1>7. ASSUME NEW i \in 1 .. n PROVE InOrder(S)[i] \in S /\ place(InOrder(S)[i]) = i
  <2> HIDE DEF place, n
  <2>1. QED  BY <1>5, <1>6
<1>8. DOMAIN InOrder(S) = 1 .. n /\ InOrder(S) \in Seq(S) /\ Len(InOrder(S)) = n
  <2> HIDE DEF place, n
  <2>1. InOrder(S) \in [1 .. n -> S]  BY <1>6, <1>7
  <2>2. QED  BY <1>1, <2>1
<1>9. ASSUME NEW r \in S PROVE \E i \in 1 .. n : InOrder(S)[i] = r
  <2>1. place(r) \in 1 .. n  BY <1>2
  <2>2. PICK s \in S : s = InOrder(S)[place(r)] /\ place(s) = place(r)  BY <1>7, <2>1
  <2>3. s = r  BY <1>4, <2>2
  <2>4. QED  BY <2>1, <2>2, <2>3
<1>10. ASSUME NEW i \in 1 .. n, NEW j \in 1 .. n, i < j
       PROVE  Before(InOrder(S)[i], InOrder(S)[j])
  <2>1. PICK r \in S : r = InOrder(S)[i] /\ place(r) = i  BY <1>7
  <2>2. PICK s \in S : s = InOrder(S)[j] /\ place(s) = j  BY <1>7
  <2>3. r # s /\ ~Before(s, r)  BY <1>3, <1>10, <2>1, <2>2
  <2>4. QED  BY <2>1, <2>2, <2>3, BeforeIsOrder
<1>11. QED  BY <1>8, <1>9, <1>10 DEF Sorts

LEMMA MatchingSorts ==
  ASSUME RowsInv, NEW scope, NEW status
  PROVE  /\ Sorts(Matching(scope, status), Found(scope, status))
         /\ Range(Matching(scope, status)) = Found(scope, status)
<1>1. Found(scope, status) \in SUBSET rows  BY DEF Found
<1>2. Sorts(Matching(scope, status), Found(scope, status))
  BY <1>1, InOrderSorts DEF Matching
<1>3. ASSUME NEW S, NEW list, Sorts(list, S) PROVE Range(list) = S
  <2>1. list \in Seq(S) /\ DOMAIN list = 1 .. Len(list)  BY <1>3 DEF Sorts
  <2>2. \A i \in 1 .. Len(list) : list[i] \in S  BY <2>1
  <2>3. QED  BY <1>3, <2>1, <2>2 DEF Sorts, Range
<1>4. QED  BY <1>2, <1>3

-----------------------------------------------------------------------------
(* Cards.                                                                   *)

\* No user is assigned what has no facility.
LEMMA ScopeIds ==
  ASSUME NEW caller \in Callers
  PROVE  NoPlace \notin ResolveScope(caller).ids
BY ListsAssumption, SlotsAre DEF ResolveScope

LEMMA FindsRow ==
  ASSUME RowsInv, kind \in Scoped, NEW caller \in Callers, NEW scope, scope = ResolveScope(caller),
         NEW r \in rows
  PROVE  r.id \in IdsOf(Found(scope, "any")) <=> scope.all \/ r.place \in scope.ids
<1>1. r \in Found(scope, "any") <=> scope.all \/ r.place \in scope.ids
  BY DEF Found, Visible
<1>2. \A s \in Found(scope, "any") : s.id = r.id => s = r
  BY DEF Found, RowsInv
<1>3. QED  BY <1>1, <1>2 DEF IdsOf

\* The card of a facility, sensor or risk opens for exactly the callers whose
\* list shows it: it is refused with 403 to the others, and not found only if
\* there is no such row.
THEOREM CardsAlwaysMatchLists == ReadsSpec => []CardsMatchLists
<1>1. RowsInv => CardsMatchLists
  <2> SUFFICES ASSUME RowsInv, kind \in {"facilities", "sensors", "risks"},
                      NEW caller \in Callers, NEW id \in Slots
               PROVE  Card(id, caller) =
                        IF id \in IdsOf(Found(ResolveScope(caller), "any")) THEN 200
                        ELSE IF id \in IdsOf(rows) THEN 403 ELSE 404
    BY MatchingSorts DEF CardsMatchLists
  <2> DEFINE listed == IdsOf(Found(ResolveScope(caller), "any"))
  <2>1. PICK scope : scope = ResolveScope(caller)  OBVIOUS
  <2>2. NoPlace \notin scope.ids /\ kind \in Scoped  BY <2>1, ScopeIds DEF Scoped
  <2>3. listed \subseteq IdsOf(rows)  BY DEF IdsOf, Found
  <2>4. CASE id \notin IdsOf(rows)
    <3>1. {r \in rows : r.id = id} = {}  BY <2>4 DEF IdsOf
    <3>2. Card(id, caller) = 404
      BY <2>4, <3>1 DEF Card, GetFacility, GetFacilityDetail, GetSensor, GetSensorDetail, GetRisk, GetRiskDetail
    <3>3. QED  BY <2>3, <2>4, <3>2
  <2>5. CASE id \in IdsOf(rows)
    <3>1. PICK r \in rows : r.id = id  BY <2>5 DEF IdsOf
    <3>2. {s.place : s \in {q \in rows : q.id = id}} = {r.place}
      <4>1. {q \in rows : q.id = id} = {r}  BY <3>1 DEF RowsInv
      <4>2. QED  BY <4>1
    <3>3. id \in listed <=> scope.all \/ r.place \in scope.ids
      BY <2>1, <2>2, <3>1, FindsRow
    <3>4. Card(id, caller) = IF scope.all \/ r.place \in scope.ids THEN 200 ELSE 403
      <4>1. CASE kind = "facilities"
        <5>1. r.place = id  BY <3>1, <4>1 DEF RowsInv
        <5>2. Card(id, caller) = IF ~scope.all /\ id \notin scope.ids THEN 403 ELSE 200
          BY <2>1, <2>5, <4>1 DEF Card, GetFacility, GetFacilityDetail
        <5>3. QED  BY <5>1, <5>2
      <4>2. CASE kind = "sensors"
        <5>1. Card(id, caller) =
                IF ~scope.all /\ (NoPlace \in {r.place} \/ ~({r.place} \subseteq scope.ids))
                THEN 403 ELSE 200
          BY <2>1, <3>2, <4>2 DEF Card, GetSensor, GetSensorDetail
        <5>2. QED  BY <2>2, <5>1
      <4>3. CASE kind = "risks"
        <5>1. Card(id, caller) = IF ~scope.all /\ ~({r.place} \subseteq scope.ids) THEN 403 ELSE 200
          BY <2>1, <3>2, <4>3 DEF Card, GetRisk, GetRiskDetail
        <5>2. QED  BY <5>1
      <4>4. QED  BY <4>1, <4>2, <4>3
    <3>5. QED  BY <2>5, <3>3, <3>4
  <2>6. QED  BY <2>4, <2>5
<1>2. QED  BY <1>1, RowsInvHolds, PTL

-----------------------------------------------------------------------------
(* Pages.                                                                   *)

\* page holds the rows of list behind the first from, up to limit of them.
Takes(page, list, from, limit) ==
  /\ Len(page) \in Nat /\ Len(page) <= Len(list) - from
  /\ limit < Len(list) - from => Len(page) = limit
  /\ limit >= Len(list) - from => Len(page) = Len(list) - from
  /\ \A i \in 1 .. Len(page) : from + i \in 1 .. Len(list) /\ page[i] = list[from + i]

LEMMA TakesFrom ==
  ASSUME NEW S, NEW list \in Seq(S), NEW from \in 0 .. Len(list), NEW limit \in Nat,
         NEW page, page = Upto(SubSeq(list, from + 1, Len(list)), limit)
  PROVE  page \in Seq(S) /\ Takes(page, list, from, limit)
<1>1. PICK n \in Nat : n = Len(list)  OBVIOUS
<1>2. PICK rest : rest = SubSeq(list, from + 1, n)  OBVIOUS
<1>3. rest \in Seq(S) /\ Len(rest) = n - from /\ \A i \in 1 .. n - from : rest[i] = list[from + i]
  BY <1>1, <1>2
<1>4. PICK m : m = IF limit < n - from THEN limit ELSE n - from
  OBVIOUS
<1> m \in Nat /\ m <= n - from  BY <1>1, <1>4
<1>5. page = SubSeq(rest, 1, m)  BY <1>1, <1>2, <1>3, <1>4 DEF Upto
<1>6. page \in Seq(S) /\ Len(page) = m /\ \A i \in 1 .. m : page[i] = rest[i]
  <2>1. \A i \in 1 .. m : i \in 1 .. Len(rest) /\ rest[i] \in S  BY <1>1, <1>3
  <2>2. QED  BY <1>1, <1>5, <2>1
<1>7. QED  BY <1>1, <1>3, <1>4, <1>6 DEF Takes

\* A page after the rows that were read: the first of the rest, in order.  There
\* is a cursor if it does not show all of the rest, and then it is its last row.
IsPage(page, rest, next) ==
  /\ page \in Seq(rest)
  /\ \A i, j \in 1 .. Len(page) : i < j => Before(page[i], page[j])
  /\ next = NoCursor => \A r \in rest : \E i \in 1 .. Len(page) : page[i] = r
  /\ next # NoCursor =>
       /\ Len(page) > 0 /\ next = page[Len(page)].id
       /\ \A r \in rest : (\E i \in 1 .. Len(page) : page[i] = r) \/ Before(page[Len(page)], r)

\* The rows of found behind the row of the cursor.
Behind(found, cursor) ==
  {r \in found : cursor = NoCursor \/ \E c \in found : c.id = cursor /\ Before(c, r)}

Shows(answer, rest) ==
  \E page : IsPage(page, rest, answer.next) /\ answer.ids = [i \in DOMAIN page |-> page[i].id]

\* Of sorted rows, the first ones behind from are a page of the rest.
InFront(list, n, from, rest) ==
  /\ \A i, j \in 1 .. n : i < j => Before(list[i], list[j])
  /\ \A r \in rest : \E i \in 1 .. n : i > from /\ list[i] = r
  /\ \A i \in 1 .. n : i > from => list[i] \in rest

LEMMA FirstAreAPage ==
  ASSUME NEW rest, NEW n \in Nat, NEW from \in 0 .. n, NEW list, InFront(list, n, from, rest),
         Len(list) = n, NEW page \in Seq(rest), NEW limit \in Nat \ {0}, Takes(page, list, from, limit),
         NEW next,
         next = NoCursor => from + limit >= n,
         next # NoCursor => from + limit < n /\ next = list[from + limit].id
  PROVE  IsPage(page, rest, next)
<1> DEFINE m == Len(page)
<1>0. /\ m \in Nat /\ m <= n - from /\ \A i \in 1 .. m : page[i] = list[from + i]
      /\ next = NoCursor => m = n - from
      /\ next # NoCursor => m > 0 /\ next = list[from + m].id
  BY DEF Takes
<1> HIDE DEF m
<1> USE DEF InFront
<1>1. \A i, j \in 1 .. m : i < j => Before(page[i], page[j])
  <2> SUFFICES ASSUME NEW i \in 1 .. m, NEW j \in 1 .. m, i < j
               PROVE  Before(page[i], page[j])
    OBVIOUS
  <2>1. from + i \in 1 .. n /\ from + j \in 1 .. n /\ from + i < from + j
    <3>1. m \in Nat /\ m <= n - from  BY <1>0
    <3>2. QED  BY <3>1
  <2>2. QED  BY <1>0, <2>1
<1>2. ASSUME NEW r \in rest, ~\E i \in 1 .. m : page[i] = r
      PROVE  \E i \in 1 .. n : i > from + m /\ list[i] = r
  <2>1. PICK i \in 1 .. n : i > from /\ list[i] = r  OBVIOUS
  <2>2. i > from + m
    <3>1. SUFFICES ASSUME i <= from + m PROVE FALSE  BY <1>0
    <3>2. i - from \in 1 .. m /\ from + (i - from) = i  BY <1>0, <2>1, <3>1
    <3>3. page[i - from] = r  BY <1>0, <2>1, <3>2
    <3>4. QED  BY <1>2, <3>2, <3>3
  <2>3. QED  BY <2>1, <2>2
<1>3. ASSUME next = NoCursor, NEW r \in rest
      PROVE  \E i \in 1 .. m : page[i] = r
  <2>1. m = n - from  BY <1>0, <1>3
  <2>2. ~\E i \in 1 .. n : i > from + m  BY <2>1
  <2>3. QED  BY <1>2, <2>2
<1>4. ASSUME next # NoCursor
      PROVE  /\ m > 0 /\ next = page[m].id
             /\ \A r \in rest : (\E i \in 1 .. m : page[i] = r) \/ Before(page[m], r)
  <2>1. m > 0 /\ page[m] = list[from + m] /\ from + m \in 1 .. n  BY <1>0, <1>4
  <2>2. ASSUME NEW r \in rest, ~\E i \in 1 .. m : page[i] = r
        PROVE  Before(page[m], r)
    <3>1. PICK i \in 1 .. n : i > from + m /\ list[i] = r  BY <1>2, <2>2
    <3>2. QED  BY <2>1, <3>1
  <2>3. QED  BY <1>0, <1>4, <2>1, <2>2
<1>5. QED  BY <1>1, <1>3, <1>4 DEF IsPage, m

\* A page cut out of the whole list.
LEMMA SliceShows ==
  ASSUME RowsInv, NEW found \in SUBSET rows, NEW list, Sorts(list, found),
         NEW limit \in Nat \ {0}, NEW cursor,
         cursor = NoCursor \/ \E c \in found : c.id = cursor
  PROVE  Shows(Slice(list, cursor, limit), Behind(found, cursor))
<1>1. PICK n \in Nat : n = Len(list)  BY DEF Sorts
<1>2. /\ list \in Seq(found) /\ DOMAIN list = 1 .. n /\ \A i \in 1 .. n : list[i] \in found
      /\ \A r \in found : \E i \in 1 .. n : list[i] = r
      /\ \A i, j \in 1 .. n : i < j => Before(list[i], list[j])
  BY <1>1 DEF Sorts
<1> DEFINE from == IF cursor = NoCursor THEN 0
                   ELSE IF cursor \in IdsOf(Range(list))
                   THEN CHOOSE i \in DOMAIN list : list[i].id = cursor
                   ELSE Len(list)
<1>3. cursor = NoCursor => from = 0  OBVIOUS
<1>4. cursor # NoCursor => from \in 1 .. n /\ list[from].id = cursor
  <2> SUFFICES ASSUME cursor # NoCursor PROVE from \in 1 .. n /\ list[from].id = cursor
    OBVIOUS
  <2>1. PICK i \in 1 .. n : list[i].id = cursor  BY <1>2
  <2>2. cursor \in IdsOf(Range(list))  BY <1>2, <2>1 DEF IdsOf, Range
  <2>3. from = CHOOSE j \in DOMAIN list : list[j].id = cursor  BY <2>2
  <2>4. QED  BY <1>2, <2>1, <2>3
<1>5. from \in 0 .. n
  <2> HIDE DEF from
  <2>1. QED  BY <1>1, <1>3, <1>4
<1> HIDE DEF from
<1>6. \A i \in 1 .. n : list[i] \in Behind(found, cursor) <=> i > from
  <2> TAKE i \in 1 .. n
  <2>1. CASE cursor = NoCursor  BY <1>2, <1>3, <2>1 DEF Behind
  <2>2. CASE cursor # NoCursor
    <3>1. \A c \in found : c.id = cursor => c = list[from]
      BY <1>2, <1>4, <2>2 DEF RowsInv
    <3>2. list[i] \in Behind(found, cursor) <=> Before(list[from], list[i])
      BY <1>2, <1>4, <2>2, <3>1 DEF Behind
    <3>3. from \in 1 .. n /\ list[from] \in rows /\ list[i] \in rows  BY <1>2, <1>4, <2>2
    <3>4. CASE i > from  BY <1>2, <3>2, <3>3, <3>4
    <3>5. CASE i = from  BY <3>2, <3>3, <3>5, BeforeIsOrder
    <3>6. CASE i < from  BY <1>2, <3>2, <3>3, <3>6, BeforeIsOrder
    <3>7. QED  BY <3>3, <3>4, <3>5, <3>6
  <2>3. QED  BY <2>1, <2>2
<1>7. PICK page : page = Upto(SubSeq(list, from + 1, Len(list)), limit)  OBVIOUS
<1>8. page \in Seq(found) /\ Takes(page, list, from, limit)
  <2>1. list \in Seq(found) /\ from \in 0 .. Len(list) /\ limit \in Nat  BY <1>1, <1>2, <1>5
  <2>2. QED  BY <1>7, <2>1, TakesFrom, Zenon
<1>9. page \in Seq(Behind(found, cursor))
  <2>1. \A i \in 1 .. Len(page) : page[i] \in Behind(found, cursor)
    <3> TAKE i \in 1 .. Len(page)
    <3>1. from + i \in 1 .. n /\ from + i > from /\ page[i] = list[from + i]
      BY <1>1, <1>5, <1>8 DEF Takes
    <3>2. QED  BY <1>6, <3>1
  <2>2. QED  BY <1>8, <2>1
<1>10. PICK next : next = IF Len(page) = limit /\ from + limit < Len(list) THEN Last(page).id
                          ELSE NoCursor
  OBVIOUS
<1>11. /\ Slice(list, cursor, limit).next = next
       /\ Slice(list, cursor, limit).ids = [i \in DOMAIN page |-> page[i].id]
  <2>1. Slice(list, cursor, limit) = Page(page, next)
    BY <1>7, <1>10 DEF Slice, from
  <2>2. QED  BY <2>1 DEF Page
<1>12. /\ next = NoCursor => from + limit >= n
       /\ next # NoCursor => from + limit < n /\ next = list[from + limit].id
  <2>1. CASE from + limit < n
    <3>1. Len(page) = limit  BY <1>1, <1>5, <1>8, <2>1 DEF Takes
    <3>2. next = Last(page).id  BY <1>1, <1>10, <2>1, <3>1
    <3>3. Last(page) = list[from + limit] /\ from + limit \in 1 .. n
      BY <1>1, <1>5, <1>8, <2>1, <3>1 DEF Last, Takes
    <3>4. list[from + limit].id \in Slots  BY <1>2, <3>3 DEF RowsInv, Row
    <3>5. next # NoCursor  BY <3>2, <3>3, <3>4, SlotsAre DEF NoCursor, NoPlace
    <3>6. QED  BY <2>1, <3>2, <3>3, <3>5
  <2>2. CASE ~(from + limit < n)
    BY <1>1, <1>5, <1>10, <2>2
  <2>3. QED  BY <2>1, <2>2
<1>13. InFront(list, n, from, Behind(found, cursor))
  BY <1>2, <1>6 DEF InFront, Behind
<1>14. IsPage(page, Behind(found, cursor), next)
  BY <1>1, <1>5, <1>8, <1>9, <1>12, <1>13, FirstAreAPage
<1>15. QED  BY <1>11, <1>14 DEF Shows

\* A page read from the cursor on.
LEMMA KeysetShows ==
  ASSUME RowsInv, kind \in {"events", "audit"}, NEW found \in SUBSET rows,
         NEW limit \in Nat \ {0}, NEW cursor,
         cursor = NoCursor \/ \E c \in found : c.id = cursor
  PROVE  Shows(Keyset(found, cursor, limit), Behind(found, cursor))
<1>1. PICK rest : rest = {r \in found : cursor # NoCursor => r.id < cursor}  OBVIOUS
<1>2. rest = Behind(found, cursor)
  <2>1. \A p, q : Before(p, q) <=> p.id > q.id  BY DEF Before, NewestFirst
  <2>2. \A r \in found : r.id \in Int  BY SlotsAre DEF RowsInv, Row
  <2>3. ASSUME NEW r \in found
        PROVE  (cursor # NoCursor => r.id < cursor)
                 <=> cursor = NoCursor \/ \E c \in found : c.id = cursor /\ Before(c, r)
    BY <2>1, <2>2
  <2>4. QED  BY <1>1, <2>3 DEF Behind
<1>3. PICK list : list = InOrder(rest)  OBVIOUS
<1>4. PICK n : n = Len(list)  OBVIOUS
<1>5. /\ n \in Nat /\ list \in Seq(rest) /\ \A i \in 1 .. n : list[i] \in rest
      /\ \A r \in rest : \E i \in 1 .. n : list[i] = r
      /\ \A i, j \in 1 .. n : i < j => Before(list[i], list[j])
  <2>1. rest \in SUBSET rows  BY <1>1
  <2>2. Sorts(list, rest)  BY <1>3, <2>1, InOrderSorts
  <2>3. QED  BY <1>4, <2>2 DEF Sorts
<1>6. PICK fetched : fetched = Upto(list, limit + 1)  OBVIOUS
<1>7. PICK page : page = Upto(fetched, limit)  OBVIOUS
<1>8. ASSUME NEW s \in Seq(rest), NEW k \in Nat
      PROVE  /\ Upto(s, k) \in Seq(rest)
             /\ k < Len(s) => Len(Upto(s, k)) = k
             /\ k >= Len(s) => Len(Upto(s, k)) = Len(s)
             /\ \A i \in 1 .. Len(Upto(s, k)) : i \in 1 .. Len(s) /\ Upto(s, k)[i] = s[i]
  <2>1. PICK l : l = IF k < Len(s) THEN k ELSE Len(s)  OBVIOUS
  <2>2. l \in Nat /\ l <= Len(s)  BY <2>1
  <2>3. \A i \in 1 .. l : i \in 1 .. Len(s) /\ s[i] \in rest  BY <2>2
  <2>4. Upto(s, k) = SubSeq(s, 1, l)  BY <2>1 DEF Upto
  <2>5. QED  BY <2>1, <2>2, <2>3, <2>4
<1>9. /\ fetched \in Seq(rest)
      /\ limit + 1 < n => Len(fetched) = limit + 1
      /\ limit + 1 >= n => Len(fetched) = n
      /\ \A i \in 1 .. Len(fetched) : fetched[i] = list[i]
  BY <1>4, <1>5, <1>6, <1>8
<1>10. /\ page \in Seq(rest)
       /\ limit < Len(fetched) => Len(page) = limit
       /\ limit >= Len(fetched) => Len(page) = Len(fetched)
       /\ \A i \in 1 .. Len(page) : i \in 1 .. Len(fetched) /\ page[i] = fetched[i]
  BY <1>7, <1>8, <1>9
<1>11. Takes(page, list, 0, limit)
  <2>1. Len(page) \in Nat /\ Len(fetched) \in Nat  BY <1>9, <1>10
  <2>2. /\ Len(page) <= n /\ (limit < n => Len(page) = limit) /\ (limit >= n => Len(page) = n)
    BY <1>5, <1>9, <1>10, <2>1
  <2>3. \A i \in 1 .. Len(page) : i \in 1 .. n /\ 0 + i = i /\ page[i] = list[i]
    BY <1>5, <1>9, <1>10, <2>1, <2>2
  <2>4. QED  BY <1>4, <1>5, <2>1, <2>2, <2>3 DEF Takes
<1>12. PICK next : next = NextCursor(fetched, limit)  OBVIOUS
<1>13. /\ Keyset(found, cursor, limit).next = next
       /\ Keyset(found, cursor, limit).ids = [i \in DOMAIN page |-> page[i].id]
  BY <1>1, <1>3, <1>6, <1>7, <1>12 DEF Keyset, Page
<1>14. /\ next = NoCursor => 0 + limit >= n
       /\ next # NoCursor => 0 + limit < n /\ next = list[0 + limit].id
  <2>1. CASE limit < n
    <3>1. Len(fetched) > limit /\ limit \in 1 .. Len(fetched) /\ limit \in 1 .. n
      BY <1>5, <1>9, <2>1
    <3>2. next = list[limit].id  BY <1>9, <1>12, <3>1 DEF NextCursor
    <3>3. list[limit].id \in Slots  BY <1>1, <1>5, <3>1 DEF RowsInv, Row
    <3>4. next # NoCursor  BY <3>2, <3>3, SlotsAre DEF NoCursor, NoPlace
    <3>5. 0 + limit = limit  OBVIOUS
    <3>6. QED  BY <2>1, <3>2, <3>4, <3>5
  <2>2. CASE ~(limit < n)
    BY <1>5, <1>9, <1>12, <2>2 DEF NextCursor
  <2>3. QED  BY <2>1, <2>2
<1>15. InFront(list, n, 0, rest)
  BY <1>5 DEF InFront
<1>16. IsPage(page, rest, next)
  <2>1. 0 \in 0 .. n  BY <1>5
  <2>2. QED  BY <1>4, <1>5, <1>10, <1>11, <1>14, <1>15, <2>1, FirstAreAPage
<1>17. QED  BY <1>2, <1>13, <1>16 DEF Shows

\* What a query is about.
Asked(q) == Found(ResolveScope(q.caller), q.status)

\* Every list answers with a page of what lies behind the cursor.
LEMMA AnswerShows ==
  ASSUME RowsInv, kind \in Kinds, NEW q, q.limit \in Nat \ {0},
         q.status = "any" \/ kind \in Changing,
         q.cursor = NoCursor \/ \E c \in Asked(q) : c.id = q.cursor
  PROVE  Shows(Answer(q), Behind(Asked(q), q.cursor))
<1>1. Asked(q) \in SUBSET rows  BY DEF Asked, Found
<1>2. PICK scope : scope = ResolveScope(q.caller)  OBVIOUS
<1>3. Sorts(Matching(scope, q.status), Asked(q))  BY <1>2, MatchingSorts DEF Asked
<1>4. CASE kind \notin {"events", "audit"}
  <2>1. kind \in {"facilities", "sensors", "risks", "orders"}
    BY <1>4, ListsAssumption DEF Scoped
  <2>2. Answer(q) = Slice(Matching(scope, q.status), q.cursor, q.limit)
    BY <1>2, <2>1 DEF Answer, Changing, GetFacilities, ListFacilities, GetSensors, ListSensors,
         GetRisks, ListRisks, GetWorkOrders, ListWorkOrders
  <2>3. QED  BY <1>1, <1>3, <2>2, SliceShows
<1>5. CASE kind = "events"
  <2>1. q.status = "any"  BY <1>5 DEF Changing
  <2>2. Answer(q) = Keyset(Asked(q), q.cursor, q.limit)
    BY <1>5, <2>1 DEF Answer, GetEvents, ListEvents, Asked
  <2>3. QED  BY <1>1, <1>5, <2>2, KeysetShows
<1>6. CASE kind = "audit"
  <2>1. q.status = "any" /\ Found(Everything, "any") = Asked(q)
    BY <1>6 DEF Changing, Found, Asked, Scoped
  <2>2. Answer(q) = Keyset(Asked(q), q.cursor, q.limit)
    BY <1>6, <2>1 DEF Answer, GetAuditJournal, ListAuditEntries
  <2>3. QED  BY <1>1, <1>6, <2>2, KeysetShows
<1>7. QED  BY <1>4, <1>5, <1>6

-----------------------------------------------------------------------------
(* Walks.                                                                   *)

Once(seen, id) == \E i \in 1 .. Len(seen) : \A j \in 1 .. Len(seen) : seen[j] = id <=> j = i
Never(seen, id) == \A i \in 1 .. Len(seen) : seen[i] # id

\* more is what was seen and then the ids of one more page.
Joins(more, seen, ids) ==
  /\ Len(seen) \in Nat /\ Len(ids) \in Nat /\ Len(more) = Len(seen) + Len(ids)
  /\ \A i \in 1 .. Len(seen) : more[i] = seen[i]
  /\ \A k \in 1 .. Len(ids) : more[Len(seen) + k] = ids[k]

LEMMA ConcatJoins ==
  ASSUME NEW T, NEW seen \in Seq(T), NEW ids \in Seq(T), NEW more, more = seen \o ids
  PROVE  more \in Seq(T) /\ Joins(more, seen, ids)
<1>1. more \in Seq(T) /\ Len(more) = Len(seen) + Len(ids)  OBVIOUS
<1>2. \A i \in 1 .. Len(seen) : more[i] = seen[i]  OBVIOUS
<1>3. \A k \in 1 .. Len(ids) : more[Len(seen) + k] = ids[k]  OBVIOUS
<1>4. QED  BY <1>1, <1>2, <1>3 DEF Joins

\* An id of more is one that was seen or one of the page.
OneOf(more, seen, ids, j) ==
  \/ j \in 1 .. Len(seen) /\ more[j] = seen[j]
  \/ \E k \in 1 .. Len(ids) : j = Len(seen) + k /\ more[j] = ids[k]

LEMMA OneOfBoth ==
  ASSUME NEW more, NEW seen, NEW ids, Joins(more, seen, ids), NEW j \in 1 .. Len(more)
  PROVE  OneOf(more, seen, ids, j)
<1> USE DEF OneOf
<1>1. PICK n, m : n = Len(seen) /\ m = Len(ids)  OBVIOUS
<1>2. n \in Nat /\ m \in Nat /\ j \in 1 .. n + m  BY <1>1 DEF Joins
<1>3. CASE j <= n  BY <1>1, <1>2, <1>3 DEF Joins
<1>4. CASE j > n
  <2>1. PICK k : k = j - n  OBVIOUS
  <2>2. k \in 1 .. m /\ j = n + k  BY <1>2, <1>4, <2>1
  <2>3. QED  BY <1>1, <2>2 DEF Joins
<1>5. QED  BY <1>2, <1>3, <1>4

LEMMA NeverJoins ==
  ASSUME NEW more, NEW seen, NEW ids, Joins(more, seen, ids), NEW id, Never(seen, id), Never(ids, id)
  PROVE  Never(more, id)
BY OneOfBoth DEF Never, OneOf

LEMMA OnceBefore ==
  ASSUME NEW more, NEW seen, NEW ids, Joins(more, seen, ids), NEW id, Once(seen, id), Never(ids, id)
  PROVE  Once(more, id)
<1>1. PICK i \in 1 .. Len(seen) : \A j \in 1 .. Len(seen) : seen[j] = id <=> j = i  BY DEF Once
<1>2. i \in 1 .. Len(more) /\ more[i] = id  BY <1>1 DEF Joins
<1>3. ASSUME NEW j \in 1 .. Len(more), more[j] = id
      PROVE  j = i
  BY <1>1, <1>3, OneOfBoth DEF Never, OneOf
<1>4. QED  BY <1>2, <1>3 DEF Once

LEMMA OnceNow ==
  ASSUME NEW more, NEW seen, NEW ids, Joins(more, seen, ids), NEW id, Never(seen, id), Once(ids, id)
  PROVE  Once(more, id)
<1>1. PICK k \in 1 .. Len(ids) : \A j \in 1 .. Len(ids) : ids[j] = id <=> j = k  BY DEF Once
<1>2. PICK i : i = Len(seen) + k  OBVIOUS
<1>3. i \in 1 .. Len(more) /\ more[i] = id  BY <1>1, <1>2 DEF Joins
<1>4. ASSUME NEW j \in 1 .. Len(more), more[j] = id
      PROVE  j = i
  <2>1. \/ j \in 1 .. Len(seen) /\ more[j] = seen[j]
        \/ \E l \in 1 .. Len(ids) : j = Len(seen) + l /\ more[j] = ids[l]
    BY OneOfBoth DEF OneOf
  <2>2. PICK l \in 1 .. Len(ids) : j = Len(seen) + l /\ ids[l] = id  BY <1>4, <2>1 DEF Never
  <2>3. l = k  BY <1>1, <2>2
  <2>4. QED  BY <1>2, <2>2, <2>3
<1>5. QED  BY <1>3, <1>4 DEF Once

\* Two rows of S come in the order of the list wherever both were seen.
InTurn(seen, S) ==
  \A i, j \in 1 .. Len(seen) : i < j =>
    \A r, s \in S : r.id = seen[i] /\ s.id = seen[j] => ~Before(s, r)

\* The rows of S were seen, each once and in order, up to those of rest.
SeenUpTo(seen, S, rest) ==
  /\ seen \in Seq(Slots)
  /\ InTurn(seen, S)
  /\ \A r \in S : (r \in rest => Never(seen, r.id)) /\ (r \notin rest => Once(seen, r.id))

\* The walk goes on behind the row of next, or ends.
GoesTo(seen, S, found, next) ==
  /\ next = NoCursor => SeenUpTo(seen, S, {})
  /\ next # NoCursor => /\ \E c \in found : c.id = next
                        /\ SeenUpTo(seen, S, Behind(found, next))

\* One more page: what was seen goes on to the rows behind its last one.
LEMMA PageExtends ==
  ASSUME RowsInv, NEW found \in SUBSET rows, NEW S \in SUBSET found,
         NEW cursor, NEW rest, rest = Behind(found, cursor),
         NEW seen, SeenUpTo(seen, S, rest),
         NEW page, NEW next, IsPage(page, rest, next),
         NEW ids, ids = [i \in DOMAIN page |-> page[i].id]
  PROVE  GoesTo(seen \o ids, S, found, next)
<1>1. /\ page \in Seq(rest) /\ rest \in SUBSET found /\ DOMAIN page = 1 .. Len(page)
      /\ Len(page) \in Nat /\ \A i \in 1 .. Len(page) : page[i] \in rest
  BY DEF IsPage, Behind
<1>2. PICK m \in Nat : m = Len(page)  BY <1>1
<1>3. ids \in Seq(Slots) /\ Len(ids) = m /\ \A i \in 1 .. m : ids[i] = page[i].id
  <2>1. \A i \in 1 .. m : page[i].id \in Slots  BY <1>1, <1>2 DEF RowsInv, Row
  <2>2. QED  BY <1>1, <1>2, <2>1
<1>4. PICK more : more = seen \o ids  OBVIOUS
<1>5. more \in Seq(Slots) /\ Joins(more, seen, ids)
  BY <1>3, <1>4, ConcatJoins DEF SeenUpTo
<1>6. \A r, s \in found : r.id = s.id => r = s  BY DEF RowsInv
<1>7. \A i, j \in 1 .. m : i < j => Before(page[i], page[j]) /\ page[i] # page[j]
  BY <1>1, <1>2, BeforeIsOrder DEF IsPage
<1>8. ASSUME NEW k \in 1 .. m, NEW l \in 1 .. m, page[k] = page[l]
      PROVE  k = l
  BY <1>7, <1>8
<1>9. ASSUME NEW i \in 1 .. m
      PROVE  page[i] \in rest /\ page[i] \in found /\ ids[i] = page[i].id
  BY <1>1, <1>2, <1>3
\* Rows of the page come once now; the others stay as they were.
<1>10. ASSUME NEW r \in S, NEW k \in 1 .. m, page[k] = r
       PROVE  Once(more, r.id)
  <2>1. Never(seen, r.id)  BY <1>9, <1>10 DEF SeenUpTo
  <2>2. ASSUME NEW j \in 1 .. m PROVE ids[j] = r.id <=> j = k
    BY <1>6, <1>8, <1>9, <1>10
  <2>3. Once(ids, r.id)  BY <1>3, <2>2 DEF Once
  <2>4. QED  BY <1>5, <2>1, <2>3, OnceNow
<1>11. ASSUME NEW r \in S, \A k \in 1 .. m : page[k] # r
       PROVE  /\ Once(seen, r.id) => Once(more, r.id)
              /\ Never(seen, r.id) => Never(more, r.id)
  <2>1. Never(ids, r.id)  BY <1>3, <1>6, <1>9, <1>11 DEF Never
  <2>2. QED  BY <1>5, <2>1, OnceBefore, NeverJoins
<1>12. ASSUME NEW r \in S, r \notin rest, NEW s \in rest
       PROVE  ~Before(s, r) /\ s # r
  <2>1. PICK c \in found : c.id = cursor /\ Before(c, s) /\ cursor # NoCursor
    BY <1>12 DEF Behind
  <2>2. ~Before(c, r)  BY <1>12, <2>1 DEF Behind
  <2>3. c \in rows /\ r \in rows /\ s \in rows  BY <1>1
  <2>4. QED  BY <1>12, <2>1, <2>2, <2>3, BeforeIsOrder
<1>13. InTurn(more, S)
  <2> SUFFICES ASSUME NEW i \in 1 .. Len(more), NEW j \in 1 .. Len(more), i < j,
                      NEW r \in S, NEW s \in S, r.id = more[i], s.id = more[j]
               PROVE  ~Before(s, r)
    BY DEF InTurn
  <2>1. PICK n : n = Len(seen)  OBVIOUS
  <2>2. n \in Nat  BY <1>5, <2>1 DEF Joins
  <2>3. ASSUME NEW p \in 1 .. Len(more)
        PROVE  \/ p \in 1 .. n /\ more[p] = seen[p]
               \/ \E k \in 1 .. m : p = n + k /\ more[p] = ids[k]
    <3>1. OneOf(more, seen, ids, p)  BY <1>5, OneOfBoth
    <3>2. QED  BY <1>3, <2>1, <3>1 DEF OneOf
  <2>4. CASE i \in 1 .. n /\ more[i] = seen[i] /\ j \in 1 .. n /\ more[j] = seen[j]
    BY <2>1, <2>4 DEF SeenUpTo, InTurn
  <2>5. ASSUME NEW k \in 1 .. m, j = n + k, more[j] = ids[k]
        PROVE  ~Before(s, r)
    <3>1. s = page[k] /\ s \in rest  BY <1>6, <1>9, <2>5
    <3>2. CASE i \in 1 .. n /\ more[i] = seen[i]
      <4>1. ~Never(seen, r.id)  BY <2>1, <3>2 DEF Never
      <4>2. r \notin rest  BY <4>1 DEF SeenUpTo
      <4>3. QED  BY <1>12, <3>1, <4>2
    <3>3. ASSUME NEW l \in 1 .. m, i = n + l, more[i] = ids[l]
          PROVE  ~Before(s, r)
      <4>1. r = page[l]  BY <1>6, <1>9, <3>3
      <4>2. l < k  BY <2>2, <2>5, <3>3
      <4>3. Before(r, s)  BY <1>7, <3>1, <4>1, <4>2
      <4>4. QED  BY <4>3, BeforeIsOrder
    <3>4. QED  BY <2>3, <3>2, <3>3
  <2>6. ASSUME j \in 1 .. n, NEW k \in 1 .. m, i = n + k
        PROVE  FALSE
    BY <2>2, <2>6
  <2>7. QED  BY <2>3, <2>4, <2>5, <2>6
<1>14. ASSUME next = NoCursor PROVE SeenUpTo(more, S, {})
  <2>1. ASSUME NEW r \in S PROVE Once(more, r.id)
    <3>1. CASE \E k \in 1 .. m : page[k] = r  BY <1>10, <3>1
    <3>2. CASE ~\E k \in 1 .. m : page[k] = r
      <4>1. r \notin rest  BY <1>2, <1>14, <3>2 DEF IsPage
      <4>2. Once(seen, r.id)  BY <4>1 DEF SeenUpTo
      <4>3. QED  BY <1>11, <3>2, <4>2
    <3>3. QED  BY <3>1, <3>2
  <2>2. QED  BY <1>5, <1>13, <2>1 DEF SeenUpTo
<1>15. ASSUME next # NoCursor
       PROVE  /\ \E c \in found : c.id = next
              /\ SeenUpTo(more, S, Behind(found, next))
  <2>1. PICK c : c = page[m] /\ m > 0 /\ c.id = next  BY <1>2, <1>15 DEF IsPage
  <2>2. m \in 1 .. m /\ c \in rest /\ c \in found  BY <1>9, <2>1
  <2>3. ASSUME NEW r \in found
        PROVE  r \in Behind(found, next) <=> Before(c, r)
    BY <1>6, <1>15, <2>1, <2>2, <2>3 DEF Behind
  <2>4. ASSUME NEW r \in S, NEW k \in 1 .. m, page[k] = r
        PROVE  ~Before(c, r)
    <3>1. k = m \/ Before(r, c)  BY <1>7, <2>1, <2>2, <2>4
    <3>2. r \in rows /\ c \in rows  BY <2>2
    <3>3. QED  BY <2>1, <2>4, <3>1, <3>2, BeforeIsOrder
  <2>5. ASSUME NEW r \in S
        PROVE  /\ r \in Behind(found, next) => Never(more, r.id)
               /\ r \notin Behind(found, next) => Once(more, r.id)
    <3>1. CASE \E k \in 1 .. m : page[k] = r
      BY <1>10, <2>3, <2>4, <3>1
    <3>2. CASE ~\E k \in 1 .. m : page[k] = r
      <4>1. CASE r \in rest
        <5>1. Before(c, r)  BY <1>2, <1>15, <2>1, <3>2, <4>1 DEF IsPage
        <5>2. Never(seen, r.id)  BY <4>1 DEF SeenUpTo
        <5>3. QED  BY <1>11, <2>3, <3>2, <5>1, <5>2
      <4>2. CASE r \notin rest
        <5>1. ~Before(c, r)
          <6>1. ~Before(c, r) /\ c # r  BY <1>12, <2>2, <4>2
          <6>2. QED  BY <6>1
        <5>2. Once(seen, r.id)  BY <4>2 DEF SeenUpTo
        <5>3. QED  BY <1>11, <2>3, <3>2, <5>1, <5>2
      <4>3. QED  BY <4>1, <4>2
    <3>3. QED  BY <3>1, <3>2
  <2>6. QED  BY <1>5, <1>13, <2>1, <2>2, <2>5 DEF SeenUpTo
<1>16. QED  BY <1>4, <1>14, <1>15 DEF GoesTo

\* The rows that stay: they matched when the walk began and nobody changed them.
Still == {r \in rows : r.id \in start \ moved}

WalkTyped ==
  /\ start \subseteq IdsOf(rows)
  /\ walk.stage # "idle" => /\ kind \in Kinds
                            /\ DOMAIN walk.query = {"caller", "status", "limit", "cursor"}
                            /\ walk.query.limit \in Nat \ {0}
                            /\ walk.query.status = "any" \/ kind \in Changing

\* How far a walk has come.
WalkInv ==
  /\ WalkTyped
  /\ walk.stage # "idle" /\ ~lost => Still \subseteq Asked(walk.query)
  /\ walk.stage = "open" /\ ~lost =>
       /\ \E c \in Asked(walk.query) : c.id = walk.query.cursor
       /\ walk.query.cursor # NoCursor
       /\ SeenUpTo(walk.seen, Still, Behind(Asked(walk.query), walk.query.cursor))
  /\ walk.stage = "done" /\ ~lost => SeenUpTo(walk.seen, Still, {})

LEMMA WalkInit == ReadsInit => WalkInv
<1> SUFFICES ASSUME ReadsInit PROVE WalkInv
  OBVIOUS
<1>1. walk = [stage |-> "idle"] /\ start = {}  BY DEF ReadsInit, ListsInit
<1>2. walk.stage = "idle"  BY <1>1
<1>3. QED  BY <1>1, <1>2 DEF WalkInv, WalkTyped

\* An answer takes the walk one page further.
LEMMA AnswerExtends ==
  ASSUME RowsInv, kind \in Kinds, NEW q, q.limit \in Nat \ {0},
         q.status = "any" \/ kind \in Changing,
         q.cursor = NoCursor \/ \E c \in Asked(q) : c.id = q.cursor,
         NEW S \in SUBSET Asked(q), NEW seen, SeenUpTo(seen, S, Behind(Asked(q), q.cursor)),
         NEW page, page = Answer(q)
  PROVE  page.ids \in Seq(Slots) /\ GoesTo(seen \o page.ids, S, Asked(q), page.next)
<1>1. Shows(page, Behind(Asked(q), q.cursor))  BY AnswerShows
<1>2. PICK shown : /\ IsPage(shown, Behind(Asked(q), q.cursor), page.next)
                   /\ page.ids = [i \in DOMAIN shown |-> shown[i].id]
  BY <1>1 DEF Shows
<1>3. PICK ids, next : ids = page.ids /\ next = page.next  OBVIOUS
<1>4. Asked(q) \in SUBSET rows  BY DEF Asked, Found
<1>5. PICK found, rest : found = Asked(q) /\ rest = Behind(found, q.cursor)  OBVIOUS
<1>6. GoesTo(seen \o ids, S, found, next)
  <2>1. found \in SUBSET rows /\ S \in SUBSET found /\ rest = Behind(found, q.cursor)
    BY <1>4, <1>5
  <2>2. SeenUpTo(seen, S, rest)  BY <1>5
  <2>3. IsPage(shown, rest, next)  BY <1>2, <1>3, <1>5
  <2>4. ids = [i \in DOMAIN shown |-> shown[i].id]  BY <1>2, <1>3
  <2>5. QED  BY <2>1, <2>2, <2>3, <2>4, PageExtends
<1>7. ids \in Seq(Slots)
  <2>1. shown \in Seq(rest) /\ DOMAIN shown = 1 .. Len(shown) /\ Len(shown) \in Nat
    BY <1>2, <1>5 DEF IsPage
  <2>2. \A i \in 1 .. Len(shown) : shown[i] \in rows  BY <1>4, <1>5, <2>1 DEF Behind
  <2>3. \A i \in 1 .. Len(shown) : shown[i].id \in Slots  BY <2>2 DEF RowsInv, Row
  <2>4. QED  BY <1>2, <1>3, <2>1, <2>3
<1>8. QED  BY <1>3, <1>5, <1>6, <1>7

\* After an answer.
LEMMA Answered ==
  ASSUME WalkInv, kind' = kind, kind \in Kinds, rows' = rows, moved' = moved, lost' = lost,
         start' \subseteq IdsOf(rows),
         NEW q, DOMAIN q = {"caller", "status", "limit", "cursor"}, q.limit \in Nat \ {0},
         q.status = "any" \/ kind \in Changing,
         NEW next, NEW seen, walk' = [stage |-> IF next = NoCursor THEN "done" ELSE "open",
                                      query |-> [q EXCEPT !.cursor = next], seen |-> seen],
         ~lost => Still' \subseteq Asked(q) /\ GoesTo(seen, Still', Asked(q), next)
  PROVE  WalkInv'
<1>1. /\ walk'.stage = IF next = NoCursor THEN "done" ELSE "open"
      /\ walk'.query = [q EXCEPT !.cursor = next] /\ walk'.seen = seen
  OBVIOUS
<1>2. /\ walk'.query.caller = q.caller /\ walk'.query.status = q.status /\ walk'.query.limit = q.limit
      /\ walk'.query.cursor = next /\ DOMAIN walk'.query = {"caller", "status", "limit", "cursor"}
  BY <1>1
<1>3. Asked(walk.query)' = Asked(q)  BY <1>2 DEF Asked, Found, Visible
<1>4. \A p, r : Before(p, r)' <=> Before(p, r)
  BY DEF Before, ById, ByPriority, NewestFirst
<1>5. WalkTyped'  BY <1>1, <1>2 DEF WalkTyped, IdsOf
<1>6. ASSUME NEW rest, SeenUpTo(seen, Still', rest)
      PROVE  /\ walk'.seen \in Seq(Slots) /\ InTurn(walk.seen, Still)'
             /\ \A r \in Still' : /\ r \in rest => Never(walk'.seen, r.id)
                                  /\ r \notin rest => Once(walk'.seen, r.id)
  BY <1>1, <1>4, <1>6 DEF SeenUpTo, InTurn
<1>7. ASSUME ~lost, next = NoCursor
      PROVE  SeenUpTo(walk.seen, Still, {})'
  <2>1. SeenUpTo(seen, Still', {})  BY <1>7 DEF GoesTo
  <2>2. QED  BY <1>6, <2>1 DEF SeenUpTo
<1>8. ASSUME ~lost, next # NoCursor
      PROVE  /\ \E c \in Asked(q) : c.id = next
             /\ SeenUpTo(walk.seen, Still, Behind(Asked(walk.query), walk.query.cursor))'
  <2>1. PICK rest : rest = Behind(Asked(q), next)  OBVIOUS
  <2>2. Behind(Asked(walk.query), walk.query.cursor)' = rest
    BY <1>2, <1>3, <1>4, <2>1 DEF Behind
  <2>3. SeenUpTo(seen, Still', rest) /\ \E c \in Asked(q) : c.id = next  BY <1>8, <2>1 DEF GoesTo
  <2>4. QED  BY <1>6, <2>2, <2>3 DEF SeenUpTo
<1>9. QED  BY <1>1, <1>2, <1>3, <1>5, <1>7, <1>8 DEF WalkInv

\* After rows arrived or changed and the row of the cursor did not.
LEMMA Elsewhere ==
  ASSUME RowsInv, WalkInv, kind' = kind, kind \in Kinds, walk' = walk, start' = start,
         walk.stage = "open", start \subseteq IdsOf(rows'), Still' \subseteq Still, lost => lost',
         ~lost' => /\ \A r \in rows : r.id = walk.query.cursor => r \in rows'
                   /\ \A r \in rows' : r.id = walk.query.cursor => r \in rows
  PROVE  WalkInv'
<1>1. PICK q : q = walk.query  OBVIOUS
<1>2. WalkTyped'  BY DEF WalkInv, WalkTyped, IdsOf
<1>3. \A p, r : Before(p, r)' <=> Before(p, r)
  BY DEF Before, ById, ByPriority, NewestFirst
<1>4. ASSUME ~lost'
      PROVE  /\ Still' \subseteq Asked(walk.query)'
             /\ \E c \in Asked(walk.query)' : c.id = q.cursor
             /\ SeenUpTo(walk.seen, Still, Behind(Asked(walk.query), walk.query.cursor))'
  <2>1. /\ Still \subseteq Asked(q) /\ q.cursor # NoCursor
        /\ SeenUpTo(walk.seen, Still, Behind(Asked(q), q.cursor))
    BY <1>1, <1>4 DEF WalkInv
  <2>2. PICK c \in Asked(q) : c.id = q.cursor  BY <1>1, <1>4 DEF WalkInv
  <2>3. \A r \in rows : r \in rows' => (r \in Asked(q) <=> r \in Asked(walk.query)')
    BY <1>1 DEF Asked, Found, Visible
  <2>4. Asked(q) \subseteq rows /\ Asked(walk.query)' \subseteq rows' /\ Still' \subseteq rows'
    BY DEF Asked, Found, Still
  <2>5. Still' \subseteq Asked(walk.query)'  BY <2>1, <2>3, <2>4
  <2>6. c \in Asked(walk.query)'  BY <1>1, <1>4, <2>2, <2>3, <2>4
  <2>7. \A d \in Asked(q) \cup Asked(walk.query)' : d.id = q.cursor => d = c
    BY <1>1, <1>4, <2>2, <2>4 DEF RowsInv
  <2>8. ASSUME NEW r \in Still'
        PROVE  r \in Behind(Asked(walk.query), walk.query.cursor)' <=> r \in Behind(Asked(q), q.cursor)
    <3>1. r \in Asked(q) /\ r \in Asked(walk.query)'  BY <2>1, <2>5
    <3>2. r \in Behind(Asked(q), q.cursor) <=> Before(c, r)
      BY <2>1, <2>2, <2>7, <3>1 DEF Behind
    <3>3. r \in Behind(Asked(walk.query), walk.query.cursor)' <=> Before(c, r)
      BY <1>1, <1>3, <2>1, <2>2, <2>6, <2>7, <3>1 DEF Behind
    <3>4. QED  BY <3>2, <3>3
  <2>9. InTurn(walk.seen, Still)'  BY <1>3, <2>1 DEF SeenUpTo, InTurn
  <2>10. PICK rest, left : rest = Behind(Asked(q), q.cursor)
                           /\ left = Behind(Asked(walk.query), walk.query.cursor)'
    OBVIOUS
  <2>11. \A r \in Still' : /\ r \in left => Never(walk.seen, r.id)
                           /\ r \notin left => Once(walk.seen, r.id)
    BY <2>1, <2>8, <2>10 DEF SeenUpTo
  <2>12. SeenUpTo(walk.seen, Still, Behind(Asked(walk.query), walk.query.cursor))'
    BY <2>1, <2>9, <2>10, <2>11 DEF SeenUpTo
  <2>13. QED  BY <2>2, <2>5, <2>6, <2>12
<1>5. walk'.stage = "open" /\ walk'.query.cursor = q.cursor /\ (lost \/ q.cursor # NoCursor)
  BY <1>1 DEF WalkInv
<1>6. QED  BY <1>2, <1>4, <1>5 DEF WalkInv

LEMMA WalkStep ==
  ASSUME RowsInv, WalkInv, [ReadsNext]_reads
  PROVE  WalkInv'
<1>1. kind' = kind
  BY DEF ReadsNext, ListsNext, Ask, Follow, Arrive, Change, Record, reads, lists
<1>2. CASE UNCHANGED lists
  BY <1>2 DEF lists, WalkInv, WalkTyped, Still, Asked, Found, Visible, IdsOf, Behind, SeenUpTo, InTurn,
     Before, ById, ByPriority, NewestFirst
<1>3. CASE Ask /\ kind \in Kinds
  <2>1. PICK caller \in Callers, limit \in Limits,
             status \in IF kind \in Changing THEN {"any", "open"} ELSE {"any"} :
          \E q, page :
            /\ q = [caller |-> caller, status |-> status, limit |-> limit, cursor |-> NoCursor]
            /\ page = Answer(q)
            /\ walk' = [stage |-> IF page.next = NoCursor THEN "done" ELSE "open",
                        query |-> [q EXCEPT !.cursor = page.next], seen |-> page.ids]
            /\ start' = IdsOf(Range(Matching(ResolveScope(caller), status)))
    BY <1>3 DEF Ask
  <2>2. PICK q, page :
          /\ q = [caller |-> caller, status |-> status, limit |-> limit, cursor |-> NoCursor]
          /\ page = Answer(q)
          /\ walk' = [stage |-> IF page.next = NoCursor THEN "done" ELSE "open",
                      query |-> [q EXCEPT !.cursor = page.next], seen |-> page.ids]
          /\ start' = IdsOf(Range(Matching(ResolveScope(caller), status)))
    BY <2>1
  <2>3. /\ q.caller = caller /\ q.status = status /\ q.limit = limit /\ q.cursor = NoCursor
        /\ status = "any" \/ kind \in Changing
        /\ limit \in Nat \ {0} /\ DOMAIN q = {"caller", "status", "limit", "cursor"}
    BY <2>2, ListsAssumption
  <2>4. rows' = rows /\ moved' = moved /\ lost' = lost  BY <1>3 DEF Ask
  <2>5. start' = IdsOf(Asked(q))  BY <2>2, <2>3, MatchingSorts DEF Asked
  <2>6. PICK S : S = {r \in rows : r.id \in start' \ moved}  OBVIOUS
  <2>7. S \subseteq Asked(q)
    <3>1. Asked(q) \in SUBSET rows  BY DEF Asked, Found
    <3>2. \A r \in S : r \in rows /\ \E s \in Asked(q) : s.id = r.id  BY <2>5, <2>6 DEF IdsOf
    <3>3. QED  BY <3>1, <3>2 DEF RowsInv
  <2>8. SeenUpTo(<<>>, S, Behind(Asked(q), NoCursor))
    <3>1. S \subseteq Behind(Asked(q), NoCursor)  BY <2>7 DEF Behind
    <3>2. QED  BY <3>1 DEF SeenUpTo, InTurn, Never
  <2>9. page.ids \in Seq(Slots) /\ GoesTo(<<>> \o page.ids, S, Asked(q), page.next)
    BY <1>3, <2>2, <2>3, <2>7, <2>8, AnswerExtends
  <2>10. Still' = S /\ walk' = [stage |-> IF page.next = NoCursor THEN "done" ELSE "open",
                               query |-> [q EXCEPT !.cursor = page.next], seen |-> <<>> \o page.ids]
    <3>1. <<>> \o page.ids = page.ids
      <4>1. PICK ids \in Seq(Slots) : ids = page.ids  BY <2>9
      <4>2. <<>> \o ids = ids  OBVIOUS
      <4>3. QED  BY <4>1, <4>2
    <3>2. QED  BY <2>2, <2>4, <2>6, <3>1 DEF Still
  <2>11. start' \subseteq IdsOf(rows)  BY <2>5 DEF IdsOf, Asked, Found
  <2>12. QED  BY <1>1, <1>3, <2>3, <2>4, <2>7, <2>9, <2>10, <2>11, Answered
<1>4. CASE Follow /\ kind \in Kinds
  <2>1. PICK q, page : q = walk.query /\ page = Answer(q)  OBVIOUS
  <2>2. walk' = [stage |-> IF page.next = NoCursor THEN "done" ELSE "open",
                 query |-> [q EXCEPT !.cursor = page.next], seen |-> walk.seen \o page.ids]
    BY <1>4, <2>1 DEF Follow
  <2>3. walk.stage = "open" /\ rows' = rows /\ start' = start /\ moved' = moved /\ lost' = lost
    BY <1>4 DEF Follow
  <2>4. /\ DOMAIN q = {"caller", "status", "limit", "cursor"} /\ q.limit \in Nat \ {0}
        /\ q.status = "any" \/ kind \in Changing
        /\ start' \subseteq IdsOf(rows)
    BY <2>1, <2>3 DEF WalkInv, WalkTyped
  <2>5. Still' = Still  BY <2>3 DEF Still
  <2>6. ASSUME ~lost
        PROVE  Still \subseteq Asked(q) /\ GoesTo(walk.seen \o page.ids, Still, Asked(q), page.next)
    <3>1. /\ Still \in SUBSET Asked(q) /\ \E c \in Asked(q) : c.id = q.cursor
          /\ SeenUpTo(walk.seen, Still, Behind(Asked(q), q.cursor))
      BY <2>1, <2>3, <2>6 DEF WalkInv
    <3>2. QED  BY <1>4, <2>1, <2>4, <3>1, AnswerExtends
  <2>7. QED  BY <1>1, <1>4, <2>2, <2>3, <2>4, <2>5, <2>6, Answered
<1>5. CASE Arrive /\ kind \in Kinds
  <2>1. /\ walk.stage = "open" /\ walk' = walk /\ start' = start /\ moved' = moved /\ lost' = lost
    BY <1>5 DEF Arrive
  <2>2. PICK id \in Free(IdsOf(rows)), heap \in Free({r.heap : r \in rows}) :
          \E r \in RowsWith(id, heap) : rows' = rows \cup {r}
    BY <1>5 DEF Arrive
  <2>3. PICK r \in RowsWith(id, heap) : rows' = rows \cup {r}  BY <2>2
  <2>4. id \in Slots /\ heap \in Slots /\ id \notin IdsOf(rows)  BY DEF Free
  <2>5. r.id = id  BY <2>4, RowsWithTyped
  <2>6. start \subseteq IdsOf(rows)  BY DEF WalkInv, WalkTyped
  <2>7. start \subseteq IdsOf(rows')  BY <2>3, <2>6 DEF IdsOf
  <2>8. Still' \subseteq Still  BY <2>1, <2>3, <2>4, <2>5, <2>6 DEF Still
  <2>9. ASSUME ~lost PROVE r.id # walk.query.cursor
    <3>1. PICK c \in Asked(walk.query) : c.id = walk.query.cursor  BY <2>1, <2>9 DEF WalkInv
    <3>2. c.id \in IdsOf(rows)  BY DEF Asked, Found, IdsOf
    <3>3. QED  BY <2>4, <2>5, <3>1, <3>2
  <2>10. QED  BY <1>1, <1>5, <2>1, <2>3, <2>7, <2>8, <2>9, Elsewhere
<1>6. CASE Change /\ kind \in Kinds
  <2>1. walk.stage = "open" /\ walk' = walk /\ start' = start  BY <1>6 DEF Change
  <2>2. PICK r \in rows, heap \in Free({q.heap : q \in rows}) :
          /\ rows' = (rows \ {r}) \cup {[r EXCEPT !.status = "closed", !.heap = heap]}
          /\ moved' = moved \cup {r.id}
          /\ lost' = (lost \/ r.id = walk.query.cursor)
    BY <1>6 DEF Change
  <2>3. PICK new : new = [r EXCEPT !.status = "closed", !.heap = heap]  OBVIOUS
  <2>4. new.id = r.id  BY <2>3 DEF RowsInv, Row
  <2>5. start \subseteq IdsOf(rows)  BY DEF WalkInv, WalkTyped
  <2>6. IdsOf(rows) \subseteq IdsOf(rows')
    <3>1. \A s \in rows : \E t \in rows' : t.id = s.id  BY <2>2, <2>3, <2>4
    <3>2. QED  BY <3>1 DEF IdsOf
  <2>7. Still' \subseteq Still  BY <2>1, <2>2, <2>3, <2>4 DEF Still
  <2>8. ~lost' => r.id # walk.query.cursor /\ ~lost  BY <2>2
  <2>9. /\ \A s \in rows : s.id = walk.query.cursor /\ ~lost' => s \in rows'
        /\ \A s \in rows' : s.id = walk.query.cursor /\ ~lost' => s \in rows
    BY <2>2, <2>3, <2>4, <2>8
  <2>10. QED  BY <1>1, <1>6, <2>1, <2>5, <2>6, <2>7, <2>8, <2>9, Elsewhere
<1>7. QED  BY <1>2, <1>3, <1>4, <1>5, <1>6 DEF ReadsNext, ListsNext, Record, reads

\* A walk to the end returns every row that stays exactly once and in order,
\* however long the table, whatever the pages' size and however much arrives and
\* changes meanwhile, as long as the row of the cursor does not change.
THEOREM WalksAreComplete == ReadsSpec => []WalkComplete
<1>1. WalkInv => WalkComplete
  <2> SUFFICES ASSUME WalkInv, walk.stage = "done", ~lost
               PROVE  /\ \A r \in Still : Returns(r.id) = 1
                      /\ \A i, j \in DOMAIN walk.seen : i < j =>
                           ~\E r, s \in Still : r.id = walk.seen[i] /\ s.id = walk.seen[j] /\ Before(s, r)
    BY DEF WalkComplete, Still
  <2>1. SeenUpTo(walk.seen, Still, {})  BY DEF WalkInv
  <2>2. DOMAIN walk.seen = 1 .. Len(walk.seen)  BY <2>1 DEF SeenUpTo
  <2>3. ASSUME NEW r \in Still PROVE Returns(r.id) = 1
    <3>1. PICK i \in 1 .. Len(walk.seen) : \A j \in 1 .. Len(walk.seen) : walk.seen[j] = r.id <=> j = i
      BY <2>1 DEF SeenUpTo, Once
    <3>2. {j \in DOMAIN walk.seen : walk.seen[j] = r.id} = {i}  BY <2>2, <3>1
    <3>3. QED  BY <3>2, FS_Singleton DEF Returns
  <2>4. QED  BY <2>1, <2>2, <2>3 DEF SeenUpTo, InTurn
<1>2. ReadsSpec => []WalkInv  BY WalkInit, WalkStep, RowsInvHolds, PTL DEF ReadsSpec
<1>3. QED  BY <1>1, <1>2, PTL
=============================================================================
