---------------------------- MODULE TradeApiProofs -----------------------------
(***************************************************************************)
(* What the API plugin promises of new_order and of get_order_status, for  *)
(* any number of calls, failures and late posts.                           *)
(***************************************************************************)
EXTENDS TradeApiSpec, FunctionTheorems, FiniteSetTheorems, SequenceTheorems, TLAPS

Closed == {"filled", "partial-canceled", "canceled"}

Posts == [cid : Nat, side : Sides, seg : Int, number : Nat, price : Nat]

Book == [cid : Nat, side : Sides, seg : Int, number : Nat, price : Nat,
         deals : Nat, paid : Nat, state : Working \cup Closed]

(* order o is the one that req asks for                                    *)
IsOf(o, req) ==
  /\ o.cid = req.cid /\ o.side = req.side /\ o.seg = req.seg
  /\ o.number = req.number /\ o.price = req.price

(* The state of order o fits its deals, and so does the price it paid.      *)
Consistent(o) ==
  /\ o.deals <= o.number
  /\ o.deals = 0 <=> o.paid = 0
  /\ o.state \in {"filled", "partial-canceled"} => o.deals > 0
  /\ o.state = "canceled" => o.deals = 0

OnTicks(o) == o.number % NumTick = 0 /\ o.price % PriceTick = 0

(* The post of a call in progress is new to the exchange and to the        *)
(* network; after silence, whoever has its client id is that post.         *)
CallInv ==
  /\ call.step = "post" =>
       /\ OnTicks(call.req)
       /\ \A i \in DOMAIN orders : orders[i].cid # call.req.cid
       /\ \A req \in inflight : req.cid # call.req.cid
  /\ call.step = "ask" =>
       /\ \A i \in DOMAIN orders :
            orders[i].cid = call.req.cid => IsOf(orders[i], call.req)
       /\ \A req \in inflight : req.cid = call.req.cid => req = call.req
  /\ call.step = "done" =>
       call.id \in DOMAIN orders /\ IsOf(orders[call.id], call.req)

(* The book, and the posts on their way.                                   *)
BookInv ==
  /\ orders \in Seq(Book)
  /\ \A i \in DOMAIN orders :
       OnTicks(orders[i]) /\ Consistent(orders[i])
  /\ IsFiniteSet(inflight) /\ inflight \subseteq Posts
  /\ \A req \in inflight : OnTicks(req)
  /\ OneOrderPerCall
  /\ \A req, r \in inflight : req.cid = r.cid => req = r

Calls == [step : {"idle", "post", "ask", "done", "throw"}, req : Posts, id : Nat]

AInv == BookInv /\ call \in Calls /\ CallInv

-----------------------------------------------------------------------------
(* generate_order_id.                                                      *)

LEMMA FreshCidIsFresh ==
  ASSUME orders \in Seq(Book), IsFiniteSet(inflight)
  PROVE  /\ FreshCid \in Nat
         /\ \A i \in DOMAIN orders : orders[i].cid # FreshCid
         /\ \A req \in inflight : req.cid # FreshCid
<1> DEFINE n == Len(orders)
           m == Cardinality(inflight)
           A == {orders[i].cid : i \in DOMAIN orders}
           B == {req.cid : req \in inflight}
           ids == 1 .. n + m + 1
<1>1. n \in Nat /\ DOMAIN orders = 1 .. n
  OBVIOUS
<1>2. m \in Nat
  BY FS_CardinalityType
<1>3. IsFiniteSet(1 .. n) /\ Cardinality(1 .. n) = n
  BY <1>1, FS_Interval
<1>4. IsFiniteSet(A) /\ Cardinality(A) <= n
  <2> DEFINE f == [i \in 1 .. n |-> orders[i].cid]
  <2>1. f \in Surjection(1 .. n, A)
    BY <1>1 DEF Surjection
  <2> HIDE DEF f, A
  <2> QED
    BY <1>3, <2>1, FS_Surjection
<1>5. IsFiniteSet(B) /\ Cardinality(B) <= m
  <2> DEFINE f == [req \in inflight |-> req.cid]
  <2>1. f \in Surjection(inflight, B)
    BY DEF Surjection
  <2> HIDE DEF f, B
  <2> QED
    BY <2>1, FS_Surjection
<1>6. IsFiniteSet(A \cup B) /\ Cardinality(A \cup B) <= n + m
  <2> HIDE DEF A, B
  <2>1. Cardinality(A) \in Nat /\ Cardinality(B) \in Nat
    BY <1>4, <1>5, FS_CardinalityType
  <2>2. IsFiniteSet(A \cap B)
    BY <1>4, FS_Subset
  <2>3. Cardinality(A \cap B) \in Nat
    BY <2>2, FS_CardinalityType
  <2>4. /\ IsFiniteSet(A \cup B)
        /\ Cardinality(A \cup B) = Cardinality(A) + Cardinality(B) - Cardinality(A \cap B)
    BY <1>4, <1>5, FS_Union
  <2> QED
    BY <1>1, <1>2, <1>4, <1>5, <2>1, <2>3, <2>4
<1>7. Cardinality(ids) = n + m + 1
  BY <1>1, <1>2, FS_Interval
<1>8. \E c \in ids : c \notin A \cup B
  <2> SUFFICES ASSUME ids \subseteq A \cup B PROVE FALSE
    OBVIOUS
  <2> HIDE DEF A, B, ids
  <2>1. Cardinality(ids) <= Cardinality(A \cup B)
    BY <1>6, FS_Subset
  <2>2. Cardinality(A \cup B) \in Nat
    BY <1>6, FS_CardinalityType
  <2> QED
    BY <1>1, <1>2, <1>6, <1>7, <2>1, <2>2
<1>9. FreshCid = CHOOSE c \in ids : c \notin A \cup B
  BY DEF FreshCid
<1>10. FreshCid \in ids /\ FreshCid \notin A \cup B
  BY <1>8, <1>9
<1> QED
  BY <1>1, <1>2, <1>10

-----------------------------------------------------------------------------
(* "%.4f".                                                                 *)

LEMMA MultipleOfTick ==
  ASSUME NEW k \in Int, NEW t \in Nat \ {0}
  PROVE  (k * t) % t = 0
<1> DEFINE x == k * t
           q == x \div t
           r == x % t
<1>1. x \in Int /\ q \in Int /\ r \in 0 .. (t - 1) /\ x = t * q + r
  OBVIOUS
<1>2. r = t * (k - q)
  BY <1>1
<1> HIDE DEF x, q, r
<1>3. CASE k - q >= 1
  <2>1. t * (k - q) >= t
    BY <1>1, <1>3
  <2> QED
    BY <1>1, <1>2, <2>1
<1>4. CASE k - q <= -1
  <2>1. t * (k - q) < 0
    BY <1>1, <1>4
  <2> QED
    BY <1>1, <1>2, <2>1
<1>5. CASE k - q = 0
  BY <1>1, <1>2, <1>5 DEF r, x
<1> QED
  BY <1>1, <1>3, <1>4, <1>5

LEMMA Fmt4OnTick ==
  ASSUME NEW a \in Nat, NEW b \in Nat \ {0}, NEW tick \in Nat \ {0},
         NEW y \in Fmt4(a, b, tick)
  PROVE  y \in Nat /\ y % tick = 0
<1> DEFINE k == a \div (b * tick)
<1>1. b * tick \in Nat \ {0}
  OBVIOUS
<1>2. k \in Nat
  <2> HIDE DEF k
  <2> DEFINE d == b * tick
  <2>1. d \in Nat \ {0} /\ k = a \div d
    BY <1>1 DEF k
  <2> HIDE DEF d
  <2> QED
    BY <2>1
<1>3. y = k * tick \/ y = k * tick + tick
  BY DEF Fmt4
<1> HIDE DEF k
<1>4. k * tick \in Nat /\ (k + 1) * tick \in Nat /\ k * tick + tick = (k + 1) * tick
  BY <1>2
<1>5. (k * tick) % tick = 0 /\ ((k + 1) * tick) % tick = 0
  BY <1>2, MultipleOfTick
<1> QED
  BY <1>3, <1>4, <1>5

-----------------------------------------------------------------------------
(* The book of the exchange: an order is accepted, or one that is working  *)
(* moves.                                                                  *)

NewEntry(req) ==
  [cid |-> req.cid, side |-> req.side, seg |-> req.seg,
   number |-> req.number, price |-> req.price,
   deals |-> 0, paid |-> 0, state |-> "submitted"]

LEMMA Accepted ==
  ASSUME AInv, NEW req \in Posts, OnTicks(req), Accept(req)
  PROVE  /\ orders' \in Seq(Book) /\ Len(orders') = Len(orders) + 1
         /\ DOMAIN orders' = DOMAIN orders \cup {Len(orders) + 1}
         /\ Len(orders) + 1 \notin DOMAIN orders
         /\ \A i \in DOMAIN orders : orders'[i] = orders[i]
         /\ LET o == orders'[Len(orders) + 1] IN
            o = NewEntry(req) /\ IsOf(o, req) /\ OnTicks(o) /\ Consistent(o)
<1> DEFINE r == NewEntry(req)
<1>1. r \in Book /\ IsOf(r, req) /\ OnTicks(r) /\ Consistent(r)
  BY DEF NewEntry, Posts, Book, Working, IsOf, OnTicks, Consistent
<1>2. orders' = Append(orders, r)
  BY DEF Accept, NewEntry
<1>3. orders \in Seq(Book)
  BY DEF AInv, BookInv
<1> HIDE DEF r
<1>4. /\ orders' \in Seq(Book) /\ Len(orders') = Len(orders) + 1
      /\ \A i \in 1 .. Len(orders) : orders'[i] = orders[i]
      /\ orders'[Len(orders) + 1] = r
  BY <1>1, <1>2, <1>3, AppendProperties
<1>5. /\ Len(orders) \in Nat /\ DOMAIN orders = 1 .. Len(orders)
      /\ DOMAIN orders' = 1 .. (Len(orders) + 1)
  BY <1>3, <1>4
<1>6. orders'[Len(orders) + 1] = NewEntry(req)
  BY <1>4 DEF r
<1> QED
  BY <1>1, <1>4, <1>5, <1>6

Moves ==
  \E i \in DOMAIN orders : \E r \in Book :
    /\ orders' = [orders EXCEPT ![i] = r]
    /\ orders[i].state \in Working
    /\ r.cid = orders[i].cid /\ r.side = orders[i].side /\ r.seg = orders[i].seg
    /\ r.number = orders[i].number /\ r.price = orders[i].price
    /\ orders[i].deals <= r.deals /\ Consistent(r)

LEMMA FillMoves ==
  ASSUME AInv, NEW i \in DOMAIN orders, NEW gain \in Gains,
         NEW n \in 1 .. orders[i].number, Fill(i, n, gain)
  PROVE  Moves
<1> DEFINE o == orders[i]
           r == [o EXCEPT !.deals = o.deals + n,
                          !.paid = DealPrice(o, gain),
                          !.state = IF o.deals + n = o.number
                                    THEN "filled" ELSE o.state]
<1>1. o \in Book /\ gain \in Nat
  BY GainsAssumption DEF AInv, BookInv
<1>2. orders' = [orders EXCEPT ![i] = r]
  BY DEF Fill, AInv
<1>3. o.state \in Working /\ n \in 1 .. (o.number - o.deals)
  BY DEF Fill, IsWorking
<1>4. DealPrice(o, gain) \in Nat /\ DealPrice(o, gain) > 0
  <2>1. DealPrice(o, gain) \in Int
    BY <1>1 DEF DealPrice, Book
  <2> QED
    BY <2>1 DEF Fill
<1>5. /\ o.deals + n \in Nat /\ o.deals + n <= o.number
      /\ o.deals <= o.deals + n /\ o.deals + n > 0
  BY <1>1, <1>3 DEF Book
<1>6. /\ r.cid = o.cid /\ r.side = o.side /\ r.seg = o.seg
      /\ r.number = o.number /\ r.price = o.price
      /\ r.deals = o.deals + n /\ r.paid = DealPrice(o, gain)
      /\ r.state \in Working \cup {"filled"}
  BY <1>1, <1>3 DEF Book
<1>7. r \in Book
  BY <1>1, <1>4, <1>5 DEF Book, Closed
<1> HIDE DEF r
<1>8. Consistent(r)
  BY <1>4, <1>5, <1>6 DEF Consistent, Working
<1> QED
  BY <1>2, <1>3, <1>5, <1>6, <1>7, <1>8 DEF Moves

LEMMA StateMoves ==
  ASSUME AInv, NEW i \in DOMAIN orders, orders[i].state \in Working,
         NEW state \in Working \cup {"partial-canceled", "canceled"},
         state = "partial-canceled" => orders[i].deals > 0,
         state = "canceled" => ~ (orders[i].deals > 0),
         orders' = [orders EXCEPT ![i].state = state]
  PROVE  Moves
<1> DEFINE r == [orders[i] EXCEPT !.state = state]
<1>1. orders' = [orders EXCEPT ![i] = r]
  OBVIOUS
<1>2. orders[i] \in Book /\ Consistent(orders[i])
  BY DEF AInv, BookInv
<1>3. /\ r \in Book /\ orders[i].deals <= r.deals
      /\ r.deals = orders[i].deals /\ r.paid = orders[i].paid /\ r.state = state
      /\ r.cid = orders[i].cid /\ r.side = orders[i].side /\ r.seg = orders[i].seg
      /\ r.number = orders[i].number /\ r.price = orders[i].price
  BY <1>2 DEF Book, Closed
<1> HIDE DEF r
<1>4. Consistent(r)
  BY <1>2, <1>3 DEF Consistent, Working, Book
<1> QED
  BY <1>1, <1>3, <1>4 DEF Moves

(* What stays true of the book when an order moves.                        *)
LEMMA Moved ==
  ASSUME AInv, Moves
  PROVE  /\ orders' \in Seq(Book) /\ DOMAIN orders' = DOMAIN orders
         /\ \A j \in DOMAIN orders :
              /\ orders'[j].cid = orders[j].cid
              /\ orders'[j].number = orders[j].number
              /\ orders[j].deals <= orders'[j].deals
              /\ Consistent(orders'[j])
              /\ \A req : IsOf(orders[j], req) => IsOf(orders'[j], req)
              /\ OnTicks(orders'[j])
              /\ orders[j].state \notin Working => orders'[j] = orders[j]
<1>1. PICK i \in DOMAIN orders : \E r \in Book :
        /\ orders' = [orders EXCEPT ![i] = r]
        /\ orders[i].state \in Working
        /\ r.cid = orders[i].cid /\ r.side = orders[i].side /\ r.seg = orders[i].seg
        /\ r.number = orders[i].number /\ r.price = orders[i].price
        /\ orders[i].deals <= r.deals /\ Consistent(r)
  BY DEF Moves
<1>2. PICK r \in Book :
        /\ orders' = [orders EXCEPT ![i] = r]
        /\ orders[i].state \in Working
        /\ r.cid = orders[i].cid /\ r.side = orders[i].side /\ r.seg = orders[i].seg
        /\ r.number = orders[i].number /\ r.price = orders[i].price
        /\ orders[i].deals <= r.deals /\ Consistent(r)
  BY <1>1
<1>3. orders \in Seq(Book)
  BY DEF AInv, BookInv
<1>4. /\ orders' \in Seq(Book) /\ DOMAIN orders' = DOMAIN orders
      /\ orders'[i] = r /\ \A j \in DOMAIN orders : j # i => orders'[j] = orders[j]
  BY <1>2, <1>3
<1>5. \A j \in DOMAIN orders :
        /\ OnTicks(orders[j]) /\ Consistent(orders[j])
        /\ orders[j].deals <= orders[j].deals
  <2>1. \A j \in DOMAIN orders : OnTicks(orders[j]) /\ Consistent(orders[j])
    BY DEF AInv, BookInv
  <2>2. \A j \in DOMAIN orders : orders[j] \in Book
    BY <1>3
  <2>3. \A j \in DOMAIN orders : orders[j].deals \in Nat
    BY <2>2 DEF Book
  <2> QED
    BY <2>1, <2>3
<1>6. \A req : IsOf(orders[i], req) => IsOf(r, req)
  BY <1>2 DEF IsOf
<1>7. OnTicks(r)
  BY <1>2, <1>5 DEF OnTicks
<1>8. ASSUME NEW j \in DOMAIN orders
      PROVE  /\ orders'[j].cid = orders[j].cid
             /\ orders'[j].number = orders[j].number
             /\ orders[j].deals <= orders'[j].deals
             /\ Consistent(orders'[j])
             /\ \A req : IsOf(orders[j], req) => IsOf(orders'[j], req)
             /\ OnTicks(orders'[j])
             /\ orders[j].state \notin Working => orders'[j] = orders[j]
  <2>1. CASE j = i
    BY <1>2, <1>4, <1>6, <1>7, <2>1
  <2>2. CASE j # i
    <3>1. orders'[j] = orders[j]
      BY <1>4, <2>2
    <3> QED
      BY <1>5, <3>1
  <2> QED
    BY <2>1, <2>2
<1> QED
  BY <1>4, <1>8

-----------------------------------------------------------------------------
LEMMA AInit == ASSUME ApiInit PROVE AInv
<1>1. /\ orders = <<>> /\ DOMAIN orders = {} /\ inflight = {}
      /\ call = Idle
  BY DEF ApiInit
<1>2. IsFiniteSet(inflight)
  BY <1>1, FS_EmptySet
<1>3. call \in Calls /\ call.step = "idle"
  BY <1>1 DEF Idle, NoRequest, Calls, Posts, Sides
<1>4. BookInv
  BY <1>1, <1>2 DEF BookInv, OneOrderPerCall
<1> QED
  BY <1>3, <1>4 DEF AInv, CallInv

(* An order moves, and neither the network nor the call does.              *)
LEMMA MoveSafe ==
  ASSUME AInv, Moves, UNCHANGED <<inflight, call>>
  PROVE  AInv'
<1>1. BookInv /\ call \in Calls /\ CallInv
  BY DEF AInv
<1>2. BookInv'
  BY <1>1, Moved DEF BookInv, OneOrderPerCall
<1>3. CallInv'
  BY <1>1, Moved DEF CallInv
<1> QED
  BY <1>1, <1>2, <1>3 DEF AInv

(* A post whose client id nobody else has reaches the exchange.            *)
LEMMA AcceptBook ==
  ASSUME AInv, NEW req \in Posts, OnTicks(req), Accept(req),
         inflight' \subseteq inflight, IsFiniteSet(inflight'),
         \A i \in DOMAIN orders : orders[i].cid # req.cid,
         \A r \in inflight' : r.cid # req.cid
  PROVE  BookInv'
<1> DEFINE n == Len(orders) + 1
<1>1. /\ orders' \in Seq(Book)
      /\ DOMAIN orders' = DOMAIN orders \cup {n}
      /\ \A i \in DOMAIN orders : orders'[i] = orders[i]
      /\ orders'[n].cid = req.cid /\ OnTicks(orders'[n])
      /\ Consistent(orders'[n])
  BY Accepted DEF IsOf
<1>2. BookInv
  BY DEF AInv
<1> HIDE DEF n
<1>3. \A i, j \in DOMAIN orders' : orders'[i].cid = orders'[j].cid => i = j
  BY <1>1, <1>2 DEF BookInv, OneOrderPerCall
<1>4. \A r \in inflight' : \A i \in DOMAIN orders' : orders'[i].cid # r.cid
  BY <1>1, <1>2 DEF BookInv, OneOrderPerCall
<1> QED
  BY <1>1, <1>2, <1>3, <1>4 DEF BookInv, OneOrderPerCall

-----------------------------------------------------------------------------
(* The steps.                                                              *)

(* A call begins, whatever is asked for.                                   *)
LEMMA BeginCallSafe ==
  ASSUME AInv, NEW s \in Sides, NEW seg \in Int, NEW num \in Nat,
         NEW den \in Nat \ {0}, NEW price \in Nat,
         new_order(s, seg, num, den, price)
  PROVE  /\ AInv'
         /\ call'.step = "post" /\ call'.req.side = s /\ call'.req.seg = seg
         /\ call'.req.number \in Fmt4(num, den, NumTick)
         /\ call'.req.price \in Fmt4(price, 1, PriceTick)
         /\ \A i \in DOMAIN orders : orders[i].cid # call'.req.cid
         /\ UNCHANGED <<orders, inflight>>
<1>3. PICK n \in Fmt4(num, den, NumTick), p \in Fmt4(price, 1, PriceTick) :
        call' = [step |-> "post", id |-> 0,
                 req |-> [cid |-> FreshCid, side |-> s, seg |-> seg,
                          number |-> n, price |-> p]]
  BY DEF new_order
<1>4. n \in Nat /\ n % NumTick = 0
  BY Fmt4OnTick, TickAssumption
<1>5. p \in Nat /\ p % PriceTick = 0
  BY Fmt4OnTick, TickAssumption
<1>6. /\ FreshCid \in Nat
      /\ \A i \in DOMAIN orders : orders[i].cid # FreshCid
      /\ \A req \in inflight : req.cid # FreshCid
  BY FreshCidIsFresh DEF AInv, BookInv
<1>7. UNCHANGED <<orders, inflight>>
  BY DEF new_order
<1>8. call' \in Calls
  BY <1>3, <1>4, <1>5, <1>6 DEF Calls, Posts
<1>9. BookInv /\ BookInv'
  BY <1>7 DEF AInv, BookInv, OneOrderPerCall
<1>10. /\ call'.step = "post" /\ OnTicks(call'.req) /\ call'.req.cid = FreshCid
       /\ call'.req.side = s /\ call'.req.seg = seg
       /\ call'.req.number = n /\ call'.req.price = p
  BY <1>3, <1>4, <1>5 DEF OnTicks
<1>11. CallInv'
  BY <1>6, <1>7, <1>10 DEF CallInv
<1> QED
  BY <1>6, <1>7, <1>8, <1>9, <1>10, <1>11 DEF AInv

LEMMA PlaceOrderSafe ==
  ASSUME AInv, PlaceOrder
  PROVE  AInv'
<1>1. PICK r \in Requests : new_order(r.side, 0, r.num, r.den, r.price)
  BY DEF PlaceOrder
<1>2. /\ r.side \in Sides /\ r.num \in Nat /\ r.den \in Nat \ {0}
      /\ r.price \in Nat
  BY RequestsAssumption
<1> QED
  BY <1>1, <1>2, BeginCallSafe

(* The caller takes the result, or dies: a post that is not answered then  *)
(* is on its way.                                                          *)
LEMMA EndCallSafe ==
  ASSUME AInv, call' = Idle, orders' = orders,
         inflight' = IF call.step = "post" THEN inflight \cup {call.req}
                                           ELSE inflight
  PROVE  AInv'
<1>1. call' \in Calls /\ call'.step = "idle"
  BY DEF Idle, NoRequest, Calls, Posts, Sides
<1>2. BookInv /\ call \in Calls /\ CallInv /\ call.req \in Posts
  BY DEF AInv, Calls
<1>3. BookInv'
  <2>1. CASE call.step = "post"
    <3>1. IsFiniteSet(inflight')
      BY <1>2, <2>1, FS_AddElement DEF BookInv
    <3> QED
      BY <1>2, <2>1, <3>1 DEF BookInv, OneOrderPerCall, CallInv
  <2>2. CASE call.step # "post"
    BY <1>2, <2>2 DEF BookInv, OneOrderPerCall
  <2> QED
    BY <2>1, <2>2
<1> QED
  BY <1>1, <1>3 DEF AInv, CallInv

LEMMA LateSafe ==
  ASSUME AInv, NEW req \in inflight, ArriveLate(req) \/ DropLate(req)
  PROVE  AInv'
<1>1. /\ inflight' = inflight \ {req} /\ call' = call
      /\ BookInv /\ call \in Calls /\ CallInv
      /\ req \in Posts /\ OnTicks(req)
  BY DEF AInv, ArriveLate, DropLate, BookInv
<1>2. IsFiniteSet(inflight')
  BY <1>1, FS_RemoveElement DEF BookInv
<1>3. CASE ArriveLate(req)
  <2>1. Accept(req)
    BY <1>3 DEF ArriveLate
  <2>2. \A i \in DOMAIN orders : orders[i].cid # req.cid
    BY <1>1 DEF BookInv, OneOrderPerCall
  <2>3. \A r \in inflight' : r.cid # req.cid
    BY <1>1 DEF BookInv
  <2>4. BookInv'
    BY <1>1, <1>2, <2>1, <2>2, <2>3, AcceptBook
  <2> DEFINE n == Len(orders) + 1
  <2>5. /\ DOMAIN orders' = DOMAIN orders \cup {n}
        /\ \A i \in DOMAIN orders : orders'[i] = orders[i]
        /\ orders'[n].cid = req.cid /\ IsOf(orders'[n], req)
    BY <1>1, <2>1, Accepted DEF IsOf
  <2> HIDE DEF n
  <2>6. CallInv'
    BY <1>1, <2>5 DEF CallInv
  <2> QED
    BY <1>1, <2>4, <2>6 DEF AInv
<1>4. CASE DropLate(req)
  <2>1. orders' = orders
    BY <1>4 DEF DropLate
  <2> QED
    BY <1>1, <1>2, <2>1 DEF AInv, BookInv, OneOrderPerCall, CallInv
<1> QED
  BY <1>3, <1>4

LEMMA NewOrderSafe ==
  ASSUME AInv, NewOrderStep
  PROVE  AInv'
<1> DEFINE n == Len(orders) + 1
<1>1. BookInv /\ call \in Calls /\ CallInv /\ call.req \in Posts
  BY DEF AInv, Calls
<1>2. call'.req = call.req /\ (call' \in Calls <=> call'.step \in {"done", "throw", "ask"} /\ call'.id \in Nat)
  BY <1>1 DEF NewOrderStep, PostAnswered, PostRefused, PostUnreadable,
     PostUnanswered, AskFound, AskNotFound, AskUnanswered, Return, Throw, Calls
<1>3. CASE call.step = "post" /\ Accept(call.req) /\ inflight' = inflight
  <2>1. BookInv'
    BY <1>1, <1>3, AcceptBook DEF CallInv, BookInv
  <2>2. /\ DOMAIN orders' = DOMAIN orders \cup {n}
        /\ \A i \in DOMAIN orders : orders'[i] = orders[i]
        /\ orders'[n].cid = call.req.cid /\ IsOf(orders'[n], call.req)
    BY <1>1, <1>3, Accepted DEF IsOf, CallInv
  <2>3. n \in Nat
    BY <1>1 DEF BookInv
  <2>4. /\ call' \in Calls /\ call'.step \in {"done", "throw", "ask"}
        /\ call'.step = "done" => call'.id = n
    BY <1>1, <1>3, <2>3 DEF NewOrderStep, PostAnswered, PostRefused,
       PostUnreadable, PostUnanswered, AskFound, AskNotFound, AskUnanswered,
       Return, Throw, Calls
  <2> HIDE DEF n
  <2>5. CallInv'
    BY <1>1, <1>2, <1>3, <2>2, <2>4 DEF CallInv
  <2> QED
    BY <2>1, <2>4, <2>5 DEF AInv
<1>4. CASE /\ call.step = "post" /\ orders' = orders
           /\ inflight' = inflight \cup {call.req} /\ call'.step \in {"ask", "throw"}
  <2>1. IsFiniteSet(inflight')
    BY <1>1, <1>4, FS_AddElement DEF BookInv
  <2>2. BookInv'
    BY <1>1, <1>4, <2>1 DEF BookInv, OneOrderPerCall, CallInv
  <2>3. call' \in Calls
    BY <1>1, <1>4 DEF NewOrderStep, PostAnswered, PostRefused, PostUnreadable,
       PostUnanswered, AskFound, AskNotFound, AskUnanswered, Return, Throw, Calls
  <2>4. CallInv'
    BY <1>1, <1>2, <1>4 DEF CallInv
  <2> QED
    BY <2>2, <2>3, <2>4 DEF AInv
<1>5. CASE UNCHANGED <<orders, inflight>> /\ call' = [call EXCEPT !.step = "throw"]
  <2>1. call' \in Calls /\ call'.step = "throw"
    BY <1>1, <1>5 DEF Calls
  <2> QED
    BY <1>1, <1>5, <2>1 DEF AInv, BookInv, OneOrderPerCall, CallInv
<1>6. CASE AskFound
  <2>1. PICK i \in DOMAIN orders : orders[i].cid = call.req.cid /\ Return(i)
    BY <1>6 DEF AskFound, Placed
  <2>2. UNCHANGED <<orders, inflight>> /\ call.step = "ask" /\ i \in Nat
    BY <1>1, <1>6 DEF AskFound, BookInv
  <2>3. call' \in Calls /\ call'.step = "done" /\ call'.id = i
    BY <1>1, <2>1, <2>2 DEF Return, Calls
  <2>4. CallInv'
    BY <1>1, <1>2, <2>1, <2>2, <2>3 DEF CallInv
  <2> QED
    BY <1>1, <2>2, <2>3, <2>4 DEF AInv, BookInv, OneOrderPerCall
<1>7. CASE PostAnswered
  BY <1>3, <1>7 DEF PostAnswered
<1>8. CASE PostUnreadable \/ PostUnanswered
  <2>1. /\ call.step = "post" /\ PostLeft
        /\ call'.step \in {"ask", "throw"}
    BY <1>1, <1>8 DEF PostUnreadable, PostUnanswered, Throw, Calls
  <2> QED
    BY <1>3, <1>4, <2>1 DEF PostLeft
<1>9. CASE PostRefused \/ AskNotFound \/ AskUnanswered
  BY <1>5, <1>9 DEF PostRefused, AskNotFound, AskUnanswered, Throw
<1> QED
  BY <1>6, <1>7, <1>8, <1>9 DEF NewOrderStep

LEMMA ApiSafe ==
  ASSUME AInv, [ApiNext]_apivars
  PROVE  AInv'
<1>1. CASE PlaceOrder
  BY <1>1, PlaceOrderSafe
<1>2. CASE CancelOrder
  <2>1. PICK i \in DOMAIN orders : CancelAccepted(i)
    BY <1>2 DEF CancelOrder
  <2>2. Moves
    BY <2>1, StateMoves DEF CancelAccepted, IsWorking, Working
  <2> QED
    BY <2>1, <2>2, MoveSafe DEF CancelAccepted
<1>3. CASE NewOrderStep
  BY <1>3, NewOrderSafe
<1>4. CASE Returned
  <2>1. call' = Idle /\ UNCHANGED <<orders, inflight>>
    BY <1>4 DEF Returned, EndCall
  <2>2. call' \in Calls /\ call'.step = "idle"
    BY <2>1 DEF Idle, NoRequest, Calls, Posts, Sides
  <2> QED
    BY <2>1, <2>2 DEF AInv, BookInv, OneOrderPerCall, CallInv
<1>5. CASE \E i \in DOMAIN orders, gain \in Gains :
             \E n \in 1 .. orders[i].number : Fill(i, n, gain)
  <2>1. Moves /\ UNCHANGED <<inflight, call>>
    BY <1>5, FillMoves DEF Fill
  <2> QED
    BY <2>1, MoveSafe
<1>6. CASE \E i \in DOMAIN orders : FinishCancel(i)
  <2>1. PICK i \in DOMAIN orders : FinishCancel(i)
    BY <1>6
  <2>2. PICK state \in {"partial-canceled", "canceled"} :
          /\ orders' = [orders EXCEPT ![i].state = state]
          /\ state = "partial-canceled" => orders[i].deals > 0
          /\ state = "canceled" => ~ (orders[i].deals > 0)
    BY <2>1 DEF FinishCancel
  <2>3. Moves
    BY <2>1, <2>2, StateMoves DEF FinishCancel, Working
  <2> QED
    BY <2>1, <2>3, MoveSafe DEF FinishCancel
<1>7. CASE \E req \in inflight : ArriveLate(req) \/ DropLate(req)
  BY <1>7, LateSafe
<1>8. CASE UNCHANGED apivars
  BY <1>8 DEF apivars, AInv, BookInv, OneOrderPerCall, CallInv
<1> QED
  BY <1>1, <1>2, <1>3, <1>4, <1>5, <1>6, <1>7, <1>8 DEF ApiNext, ExchangeStep

-----------------------------------------------------------------------------
(* Client ids tell the orders and the posts on their way apart, and the    *)
(* call in progress knows which are its own.                               *)
THEOREM ApiInvariance == ApiSpec => []AInv
<1>1. ApiInit => AInv
  BY AInit
<1>2. AInv /\ [ApiNext]_apivars => AInv'
  BY ApiSafe
<1> QED
  BY <1>1, <1>2, PTL DEF ApiSpec

(* The numbers and prices of all orders are on the exchange's ticks, which *)
(* "%.4f" has seen to, and no order deals more than was asked for.         *)
THEOREM ApiTypeCorrect == ApiSpec => []ApiTypeOK
<1>1. AInv => ApiTypeOK
  <2> SUFFICES ASSUME AInv PROVE ApiTypeOK
    OBVIOUS
  <2>1. \A i \in DOMAIN orders : orders[i] \in Book
    BY DEF AInv, BookInv
  <2>2. \A i \in DOMAIN orders :
          OnTicks(orders[i]) /\ orders[i].deals \in 0 .. orders[i].number
    BY <2>1 DEF AInv, BookInv, Book, Consistent
  <2> QED
    BY <2>1, <2>2 DEF ApiTypeOK, OnTicks, AInv, Calls, Book, Closed
<1> QED
  BY <1>1, ApiInvariance, PTL

(* A call of new_order never places two orders, however many calls there   *)
(* were before it and whatever was lost or late.                           *)
THEOREM OneOrder == ApiSpec => []OneOrderPerCall
<1>1. AInv => OneOrderPerCall
  BY DEF AInv, BookInv
<1> QED
  BY <1>1, ApiInvariance, PTL

(* The id that a call returns is that of its own order.                    *)
THEOREM OwnOrder == ApiSpec => []ReturnsItsOwnOrder
<1>1. AInv => ReturnsItsOwnOrder
  <2> SUFFICES ASSUME AInv, call.step = "done" PROVE ReturnsItsOwnOrder
    BY DEF ReturnsItsOwnOrder
  <2>1. call.id \in DOMAIN orders /\ IsOf(orders[call.id], call.req)
    BY DEF AInv, CallInv
  <2>2. call.req \in Posts
    BY DEF AInv, Calls
  <2> QED
    BY <2>1, <2>2 DEF ReturnsItsOwnOrder, IsOf, Posts
<1> QED
  BY <1>1, ApiInvariance, PTL

(* A step leaves alone what is closed.                                     *)
LEMMA ClosedStays ==
  ASSUME AInv, [ApiNext]_apivars, NEW i \in DOMAIN orders, orders[i].state \in Closed
  PROVE  orders'[i] = orders[i]
<1>1. orders[i].state \notin Working
  BY DEF Closed, Working
<1>2. CASE Moves
  BY <1>1, <1>2, Moved
<1>3. ASSUME NEW req \in Posts, OnTicks(req), Accept(req)
      PROVE  orders'[i] = orders[i]
  BY <1>3, Accepted
<1>4. CASE CancelOrder
  <2>1. PICK j \in DOMAIN orders : CancelAccepted(j)
    BY <1>4 DEF CancelOrder
  <2> QED
    BY <1>2, <2>1, StateMoves DEF CancelAccepted, IsWorking, Working
<1>5. CASE NewOrderStep
  <2>1. orders' = orders \/ (call.step = "post" /\ Accept(call.req))
    BY <1>5 DEF NewOrderStep, PostAnswered, PostRefused, PostUnreadable,
       PostUnanswered, PostLeft, AskFound, AskNotFound, AskUnanswered
  <2> QED
    BY <1>3, <2>1 DEF AInv, CallInv, Calls
<1>6. CASE \E j \in DOMAIN orders, gain \in Gains :
             \E n \in 1 .. orders[j].number : Fill(j, n, gain)
  BY <1>2, <1>6, FillMoves
<1>7. CASE \E j \in DOMAIN orders : FinishCancel(j)
  <2>1. PICK j \in DOMAIN orders : FinishCancel(j)
    BY <1>7
  <2>2. PICK state \in Closed : orders' = [orders EXCEPT ![j].state = state]
    BY <2>1 DEF FinishCancel, Closed
  <2> QED
    BY <1>2, <2>1, <2>2, StateMoves DEF FinishCancel, Working
<1>8. CASE \E req \in inflight : ArriveLate(req) \/ DropLate(req)
  BY <1>3, <1>8 DEF ArriveLate, DropLate, AInv, BookInv
<1>9. CASE PlaceOrder \/ Returned \/ UNCHANGED apivars
  BY <1>9 DEF PlaceOrder, new_order, Returned, EndCall, apivars
<1> QED
  BY <1>4, <1>5, <1>6, <1>7, <1>8, <1>9 DEF ApiNext, ExchangeStep

(* Once get_order_status says of an order that it is closed, it says the   *)
(* same of it for ever, to the amounts.                                    *)
THEOREM ClosedForGood == ApiSpec => ClosingIsFinal
<1>1. ASSUME AInv, [ApiNext]_apivars, NEW i \in DOMAIN orders,
             get_order_status(i).status # order_processing
      PROVE  get_order_status(i)' = get_order_status(i)
  <2>1. orders[i].state \in Closed
    BY <1>1 DEF get_order_status, order_status, order_processing, Closed
  <2>2. orders'[i] = orders[i]
    BY <1>1, <2>1, ClosedStays
  <2> QED
    BY <2>2 DEF get_order_status
<1>2. AInv /\ [ApiNext]_apivars
      => [\A i \in DOMAIN orders :
            get_order_status(i).status # order_processing =>
              get_order_status(i)' = get_order_status(i)]_apivars
  BY <1>1
<1> QED
  BY <1>2, ApiInvariance, PTL DEF ApiSpec, ClosingIsFinal

-----------------------------------------------------------------------------
(* What get_order_status says of a closed order is a legal result: deals   *)
(* unless the order is closed untraded, and a fee below the amount.        *)
LEMMA ClosingResult ==
  ASSUME AInv, NEW i \in DOMAIN orders,
         get_order_status(i).status # order_processing
  PROVE  get_order_status(i) \in OrderResults /\ IsClosing(get_order_status(i))
<1> DEFINE o == orders[i]
           amount == o.deals * o.paid
           fee == (amount * FeePermille) \div 1000
           res == get_order_status(i)
<1>1. o \in Book /\ Consistent(o)
  BY DEF AInv, BookInv
<1>2. /\ o.deals \in Nat /\ o.paid \in Nat
      /\ o.state \in Working \cup Closed
  BY <1>1 DEF Book
<1>3. /\ res = [status |-> order_status(o.state), price |-> o.paid,
                number |-> o.deals, amount |-> amount, fee |-> fee]
      /\ res.status = order_status(o.state)
  BY DEF get_order_status
<1>4. o.state \in Closed
  BY <1>2, <1>3 DEF order_status, order_processing, Closed, Working
<1>5. amount \in Nat /\ amount = o.paid * o.deals
  BY <1>2
<1>6. /\ order_status(o.state) \in 0..3
      /\ order_status(o.state) = order_untrade_closed <=> o.state = "canceled"
  BY <1>4 DEF order_status, order_complet_closed, order_portion_closed,
     order_untrade_closed, order_processing, Closed
<1> HIDE DEF o
<1>7. CASE o.state = "canceled"
  <2>1. o.deals = 0 /\ o.paid = 0 /\ amount = 0
    BY <1>1, <1>2, <1>7 DEF Consistent
  <2>2. fee = 0
    <3> HIDE DEF amount
    <3> QED
      BY <2>1, FeeAssumption
  <2> HIDE DEF amount, fee
  <2>3. /\ res.price = 0 /\ res.number = 0 /\ res.amount = 0 /\ res.fee = 0
        /\ res.status \in 0..3 /\ res.status = order_untrade_closed
    BY <1>3, <1>6, <1>7, <2>1, <2>2
  <2>4. res \in OrderResults
    BY <1>3, <1>6, <2>1, <2>2 DEF OrderResults
  <2> HIDE DEF res
  <2>5. IsClosing(res)
    BY <2>3 DEF IsClosing, order_untrade_closed, order_processing
  <2> QED
    BY <2>4, <2>5 DEF res
<1>8. CASE o.state \in {"filled", "partial-canceled"}
  <2>1. o.deals > 0 /\ o.paid > 0
    BY <1>1, <1>2, <1>8 DEF Consistent
  <2>2. amount > 0
    BY <1>2, <2>1
  <2> HIDE DEF amount
  <2>3. fee \in Nat /\ fee < amount
    BY <1>5, <2>2, FeeAssumption
  <2> HIDE DEF fee
  <2>4. res \in OrderResults
    BY <1>2, <1>3, <1>5, <1>6, <2>3 DEF OrderResults
  <2>5. /\ res.price = o.paid /\ res.number = o.deals
        /\ res.amount = amount /\ res.fee = fee
    BY <1>3
  <2>6. res.status # order_untrade_closed
    BY <1>3, <1>6, <1>8
  <2> HIDE DEF res
  <2>7. IsClosing(res)
    BY <1>2, <1>5, <2>1, <2>3, <2>5, <2>6 DEF IsClosing, res
  <2> QED
    BY <2>4, <2>7 DEF res
<1> QED
  BY <1>4, <1>7, <1>8 DEF Closed

=============================================================================
