-------------------------- MODULE MarketplaceProofs --------------------------
(***************************************************************************)
(* Proofs about Marketplace for every set of clients, every number of      *)
(* workers and every interruption of a thread.                             *)
(***************************************************************************)
EXTENDS MarketplaceProperties, FiniteSetTheorems, TLAPS

USE MarketAssumption
-----------------------------------------------------------------------------
(* Types. *)

Objects == [id : Nat \ {0}, quantity : Int, rating : Int \X Nat, seller_address : Address]

Statements == {"idle", "store", "count", "next", "tell buyer", "take", "tell seller"}
              \cup BeforeSums \cup {"write", "show"}

\* The statements of RateItem up to where the sums are written.
AtRating == BeforeSums \cup {"write"}

\* The sum and the number of some ratings.
Sums == Int \X (Nat \ {0})

\* What the rest of a call relies on.
CallTypeOK(k) ==
    /\ "pc" \in DOMAIN k /\ k.pc \in Statements
    /\ k.pc \in {"store", "take"} => k.object \in 1..Len(objects)
    /\ k.pc = "take" => k.quantity \in Nat
    /\ k.pc \in {"next", "tell buyer"} => {"id", "visited", "wishers"} \subseteq DOMAIN k
    /\ k.pc \in BeforeSums => {"id", "rating"} \subseteq DOMAIN k /\ k.rating \in Rating
    /\ k.pc \in AtRating => k.id \in Nat \ {0}
    /\ k.pc \in {"write", "show"} => {"id", "sums"} \subseteq DOMAIN k /\ k.sums \in Sums

StoreTypeOK ==
    /\ connection \in [Client -> 0..MaxDisturbances] /\ sellers \subseteq Address
    /\ objects \in Seq(Objects) /\ item_id_counter \in Nat \ {0}
    /\ \A id \in DOMAIN items : id \in Nat \ {0} /\ items[id] \in 1..Len(objects)
    /\ DOMAIN wishlists \subseteq Address
    /\ \A id \in DOMAIN item_ratings : item_ratings[id] \in Int \X Nat
    /\ \A id \in DOMAIN item_rated_by : item_rated_by[id] \subseteq Address
    /\ \A id \in DOMAIN given : id \in Nat \ {0} /\ given[id] \in Sums

CallsTypeOK == DOMAIN call = Client /\ \A c \in Client : CallTypeOK(call[c])

MarketTypes == StoreTypeOK /\ CallsTypeOK

\* The raters, or the sums, that a statement of RateItem is about to use are there.
Found ==
    \A b \in Client :
        /\ call[b].pc \in {"check", "add"} => call[b].id \in DOMAIN item_rated_by
        /\ call[b].pc = "read" => call[b].id \in DOMAIN item_ratings

\* Each new connection was a disturbance.
Bounded == /\ disturbances \in 0..MaxDisturbances /\ preempted \in BOOLEAN
           /\ \A c \in Client : connection[c] <= disturbances

LEMMA PeerTyped == ASSUME MarketTypes, NEW c \in Client PROVE peer(c) \in Address
  BY DEF MarketTypes, StoreTypeOK, peer, Address

\* One more rating.
LEMMA AddsUp ==
    ASSUME NEW s \in Int \X Nat, NEW r \in Rating PROVE Counted(s[1], s[2], r) \in Sums
  BY DEF Sums, Counted

\* What a step of the call of c does to the calls.
Moves(c, k) ==
    /\ DOMAIN call' = Client /\ call'[c] = k
    /\ \A d \in Client \ {c} : call'[d] = call[d]

\* Only the call of c changes.
LEMMA OneCallMoves ==
    ASSUME MarketTypes, NEW c \in Client, NEW k, call' = [call EXCEPT ![c] = k]
    PROVE  Moves(c, k)
  BY DEF MarketTypes, CallsTypeOK, Moves

\* The calls keep their types when one moves on and objects are only added.
LEMMA CallsTyped ==
    ASSUME MarketTypes, NEW c \in Client, NEW k, Moves(c, k), CallTypeOK(k)',
           Len(objects) \in Nat, Len(objects') \in Nat, Len(objects') >= Len(objects)
    PROVE  CallsTypeOK'
  <1>1. \A n \in 1..Len(objects) : n \in 1..Len(objects')
    OBVIOUS
  <1>2. ASSUME NEW d \in Client \ {c} PROVE CallTypeOK(call[d])'
    <2>1. call'[d] = call[d] /\ CallTypeOK(call[d])
      BY DEF Moves, MarketTypes, CallsTypeOK
    <2> QED BY <1>1, <2>1 DEF CallTypeOK
  <1>3. CallTypeOK(call[c])'
    BY DEF Moves, CallTypeOK
  <1> QED BY <1>2, <1>3 DEF CallsTypeOK, Moves

\* Steps that leave the shared objects alone, or change one, or add one.
LEMMA ObjectsTyped ==
    ASSUME NEW os \in Seq(Objects)
    PROVE  /\ Len(os) \in Nat
           /\ \A n \in 1..Len(os) : os[n] \in Objects
           /\ \A n \in 1..Len(os), o \in Objects :
                  /\ [os EXCEPT ![n] = o] \in Seq(Objects)
                  /\ Len([os EXCEPT ![n] = o]) = Len(os)
           /\ \A o \in Objects : /\ Append(os, o) \in Seq(Objects)
                                 /\ Len(Append(os, o)) = Len(os) + 1
  OBVIOUS

\* The initial states are typed.
LEMMA InitMarketTypes == Init => MarketTypes
  <1> SUFFICES ASSUME Init PROVE MarketTypes
    OBVIOUS
  <1>1. /\ connection \in [Client -> 0..MaxDisturbances] /\ sellers \subseteq Address
        /\ item_id_counter \in Nat \ {0}
    BY DEF Init
  <1>2. /\ objects \in Seq(Objects) /\ DOMAIN items = {} /\ DOMAIN item_ratings = {}
        /\ DOMAIN wishlists = {} /\ DOMAIN item_rated_by = {} /\ DOMAIN given = {}
    BY DEF Init
  <1>3. CallsTypeOK
    BY DEF Init, CallsTypeOK, CallTypeOK, Idle, Statements, AtRating, BeforeSums
  <1> QED BY <1>1, <1>2, <1>3 DEF MarketTypes, StoreTypeOK

\* A walk through the wishlists keeps the types.
LEMMA WalkTypes ==
    ASSUME MarketTypes, NEW s \in Client, NextWisher(s)
    PROVE  MarketTypes'
  <1>0. UNCHANGED <<connection, sellers, storeVars, wishlists, ratingVars>>
    BY DEF NextWisher
  <1>1. StoreTypeOK'
    BY <1>0 DEF MarketTypes, StoreTypeOK, storeVars, ratingVars
  <1>2. Len(objects) \in Nat /\ objects' = objects
    BY <1>0 DEF MarketTypes, StoreTypeOK, storeVars
  <1>3. ASSUME NEW r, NEW m, call' = [call EXCEPT ![s] = Ended("UpdateItem", r, m)]
        PROVE  CallsTypeOK'
    <2>1. PICK k : k = Ended("UpdateItem", r, m)
      OBVIOUS
    <2>2. Moves(s, k)
      BY <1>3, <2>1, OneCallMoves
    <2>3. CallTypeOK(k)'
      BY <2>1 DEF CallTypeOK, Ended, Statements, AtRating, BeforeSums
    <2> QED BY <1>2, <2>2, <2>3, CallsTyped
  <1>4. ASSUME NEW v, call' = [call EXCEPT ![s].pc = "tell buyer", ![s].visited = v],
               call[s].pc = "next"
        PROVE  CallsTypeOK'
    <2>1. PICK k : k = [call[s] EXCEPT !.pc = "tell buyer", !.visited = v]
      OBVIOUS
    <2>2. call' = [call EXCEPT ![s] = k]
      BY <1>4, <2>1 DEF MarketTypes, CallsTypeOK
    <2>3. Moves(s, k)
      BY <2>2, OneCallMoves
    <2>4. {"pc", "id", "visited", "wishers"} \subseteq DOMAIN call[s]
      BY <1>4 DEF MarketTypes, CallsTypeOK, CallTypeOK
    <2>5. DOMAIN k = DOMAIN call[s] /\ k.pc = "tell buyer"
      BY <2>1, <2>4
    <2>6. CallTypeOK(k)'
      BY <2>4, <2>5 DEF CallTypeOK, Statements, AtRating, BeforeSums
    <2> QED BY <1>2, <2>3, <2>6, CallsTyped
  <1>5. CallsTypeOK'
    BY <1>3, <1>4 DEF NextWisher
  <1> QED BY <1>1, <1>5 DEF MarketTypes

\* So does a call that ends or comes to a statement with no locals.
LEMMA PlainTypes ==
    ASSUME MarketTypes, NEW c \in Client, NEW k, Moves(c, k),
           "pc" \in DOMAIN k, k.pc \in {"idle", "count", "tell seller"}, StoreTypeOK',
           Len(objects') >= Len(objects)
    PROVE  MarketTypes'
  <1>2. CallTypeOK(k)'
    BY DEF CallTypeOK, Statements, AtRating, BeforeSums
  <1>3. Len(objects) \in Nat /\ Len(objects') \in Nat
    <2>1. objects \in Seq(Objects) /\ objects' \in Seq(Objects)
      BY DEF MarketTypes, StoreTypeOK, Objects
    <2> QED BY <2>1, ObjectsTyped
  <1>4. CallsTypeOK'
    BY <1>2, <1>3, CallsTyped
  <1> QED BY <1>4 DEF MarketTypes

\* Selling keeps the types.
LEMMA SellTypes ==
    ASSUME MarketTypes, NEW s \in Client,
           (\E q \in Quantity : SellItem(s, q)) \/ StoreItem(s) \/ CountItem(s)
    PROVE  MarketTypes'
  <1>0. Len(objects) \in Nat
    BY DEF MarketTypes, StoreTypeOK
  <1>1. ASSUME NEW q \in Quantity, SellItem(s, q) PROVE MarketTypes'
    <2>1. PICK o : o = [id |-> item_id_counter, quantity |-> q, rating |-> <<0, 0>>,
                        seller_address |-> peer(s)]
      OBVIOUS
    <2>2. o \in Objects
      BY <2>1, PeerTyped DEF Objects, MarketTypes, StoreTypeOK
    <2>3. objects' = Append(objects, o)
      BY <1>1, <2>1 DEF SellItem
    <2>4. objects' \in Seq(Objects) /\ Len(objects') = Len(objects) + 1
      BY <2>2, <2>3, ObjectsTyped DEF MarketTypes, StoreTypeOK
    <2>5. StoreTypeOK'
      BY <1>0, <1>1, <2>4 DEF SellItem, ratingVars, MarketTypes, StoreTypeOK
    <2>6. PICK k : k = [pc |-> "store", object |-> Len(objects')]
      OBVIOUS
    <2>7. Moves(s, k)
      BY <1>1, <2>6, OneCallMoves DEF SellItem
    <2>8. CallTypeOK(k)'
      BY <1>0, <2>4, <2>6 DEF CallTypeOK, Statements, AtRating, BeforeSums
    <2>9. CallsTypeOK'
      BY <1>0, <2>4, <2>7, <2>8, CallsTyped
    <2> QED BY <2>5, <2>9 DEF MarketTypes
  <1>2. CASE StoreItem(s)
    <2>1. call[s].object \in 1..Len(objects)
      BY <1>2 DEF StoreItem, MarketTypes, CallsTypeOK, CallTypeOK
    <2>2. StoreTypeOK'
      BY <1>2, <2>1 DEF StoreItem, Put, ratingVars, MarketTypes, StoreTypeOK
    <2>3. PICK k : k = [pc |-> "count"]
      OBVIOUS
    <2>4. Moves(s, k) /\ objects' = objects
      BY <1>2, <2>3, OneCallMoves DEF StoreItem
    <2>5. "pc" \in DOMAIN k /\ k.pc = "count"
      BY <2>3
    <2>6. Len(objects') >= Len(objects)
      BY <1>0, <2>4
    <2> QED BY <2>2, <2>4, <2>5, <2>6, PlainTypes
  <1>3. CASE CountItem(s)
    <2>1. StoreTypeOK'
      BY <1>3 DEF CountItem, ratingVars, MarketTypes, StoreTypeOK
    <2>2. Moves(s, Idle) /\ objects' = objects
      BY <1>3, OneCallMoves DEF CountItem
    <2>3. "pc" \in DOMAIN Idle /\ Idle.pc = "idle"
      BY DEF Idle
    <2>4. Len(objects') >= Len(objects)
      BY <1>0, <2>2
    <2> QED BY <2>1, <2>2, <2>3, <2>4, PlainTypes
  <1> QED BY <1>1, <1>2, <1>3

\* Updating an item and telling about it keep the types.
LEMMA UpdateTypes ==
    ASSUME MarketTypes, NEW s \in Client, NEW id \in DOMAIN items, NEW q \in Quantity,
           UpdateItem(s, id, q)
    PROVE  MarketTypes'
  <1>1. PICK n : n = items[id]
    OBVIOUS
  <1>2. n \in 1..Len(objects)
    BY <1>1 DEF MarketTypes, StoreTypeOK
  <1>3. PICK o : o = [objects[n] EXCEPT !.quantity = q, !.seller_address = peer(s)]
    OBVIOUS
  <1>4. objects \in Seq(Objects) /\ Len(objects) \in Nat
    BY DEF MarketTypes, StoreTypeOK
  <1>5. o \in Objects
    <2>1. objects[n] \in Objects
      BY <1>2, <1>4, ObjectsTyped
    <2>2. peer(s) \in Address
      BY PeerTyped
    <2>3. q \in Int
      OBVIOUS
    <2> QED BY <1>3, <2>1, <2>2, <2>3 DEF Objects
  <1>6. objects' = [objects EXCEPT ![n] = o]
    BY <1>1, <1>2, <1>3, <1>4 DEF UpdateItem
  <1>7. objects' \in Seq(Objects) /\ Len(objects') = Len(objects)
    BY <1>2, <1>4, <1>5, <1>6, ObjectsTyped
  <1>8. StoreTypeOK'
    BY <1>7 DEF UpdateItem, ratingVars, MarketTypes, StoreTypeOK
  <1>9. PICK k : k = [pc |-> "next", id |-> id, visited |-> {}, wishers |-> Wishers(id),
                      size |-> Cardinality(DOMAIN wishlists)]
    OBVIOUS
  <1>10. Moves(s, k)
    BY <1>9, OneCallMoves DEF UpdateItem
  <1>11. CallTypeOK(k)'
    BY <1>9 DEF CallTypeOK, Statements, AtRating, BeforeSums
  <1>12. CallsTypeOK'
    BY <1>4, <1>7, <1>10, <1>11, CallsTyped
  <1> QED BY <1>8, <1>12 DEF MarketTypes

\* And so does the return of a notification to a buyer.
LEMMA ToldTypes ==
    ASSUME MarketTypes, NEW s \in Client, BuyerTold(s)
    PROVE  MarketTypes' /\ Moves(s, [call[s] EXCEPT !.pc = "next"])
  <1>1. PICK k : k = [call[s] EXCEPT !.pc = "next"]
    OBVIOUS
  <1>2. call' = [call EXCEPT ![s] = k]
    BY <1>1 DEF BuyerTold, MarketTypes, CallsTypeOK
  <1>3. Moves(s, k)
    BY <1>2, OneCallMoves
  <1>4. {"pc", "id", "visited", "wishers"} \subseteq DOMAIN call[s]
    BY DEF BuyerTold, MarketTypes, CallsTypeOK, CallTypeOK
  <1>5. DOMAIN k = DOMAIN call[s] /\ k.pc = "next"
    BY <1>1, <1>4
  <1>6. CallTypeOK(k)'
    BY <1>4, <1>5 DEF CallTypeOK, Statements, AtRating, BeforeSums
  <1>7. StoreTypeOK' /\ objects' = objects
    BY DEF BuyerTold, storeVars, ratingVars, MarketTypes, StoreTypeOK
  <1>8. Len(objects) \in Nat
    BY ObjectsTyped DEF MarketTypes, StoreTypeOK
  <1>9. CallsTypeOK'
    BY <1>3, <1>6, <1>7, <1>8, CallsTyped
  <1> QED BY <1>1, <1>3, <1>7, <1>9 DEF MarketTypes

\* Buying keeps the types.
LEMMA BuyTypes ==
    ASSUME MarketTypes, NEW b \in Client,
           \/ \E id \in DOMAIN items, q \in Quantity : BuyItem(b, id, q)
           \/ TakeItem(b) \/ SellerTold(b)
    PROVE  MarketTypes'
  <1>0. objects \in Seq(Objects) /\ Len(objects) \in Nat
    BY DEF MarketTypes, StoreTypeOK
  <1>1. ASSUME NEW id \in DOMAIN items, NEW q \in Quantity, BuyItem(b, id, q)
        PROVE  MarketTypes'
    <2>1. PICK k : k = [pc |-> "take", object |-> items[id], quantity |-> q]
      OBVIOUS
    <2>2. Moves(b, k) /\ objects' = objects
      BY <1>1, <2>1, OneCallMoves DEF BuyItem, storeVars
    <2>3. items[id] \in 1..Len(objects)
      BY DEF MarketTypes, StoreTypeOK
    <2>4. CallTypeOK(k)'
      BY <2>1, <2>2, <2>3 DEF CallTypeOK, Statements, AtRating, BeforeSums
    <2>5. StoreTypeOK'
      BY <1>1 DEF BuyItem, storeVars, ratingVars, MarketTypes, StoreTypeOK
    <2>6. CallsTypeOK'
      BY <1>0, <2>2, <2>4, CallsTyped
    <2> QED BY <2>5, <2>6 DEF MarketTypes
  <1>2. CASE TakeItem(b)
    <2>1. PICK n : n = call[b].object
      OBVIOUS
    <2>2. n \in 1..Len(objects) /\ call[b].quantity \in Nat
      BY <1>2, <2>1 DEF TakeItem, MarketTypes, CallsTypeOK, CallTypeOK
    <2>3. PICK o : o = [objects[n] EXCEPT !.quantity = @ - call[b].quantity]
      OBVIOUS
    <2>4. o \in Objects
      <3>1. objects[n] \in Objects
        BY <1>0, <2>2, ObjectsTyped
      <3>2. objects[n].quantity - call[b].quantity \in Int
        BY <2>2, <3>1 DEF Objects
      <3> QED BY <2>3, <3>1, <3>2 DEF Objects
    <2>5. objects' = [objects EXCEPT ![n] = o]
      BY <1>0, <1>2, <2>1, <2>2, <2>3 DEF TakeItem
    <2>6. objects' \in Seq(Objects) /\ Len(objects') = Len(objects)
      BY <1>0, <2>2, <2>4, <2>5, ObjectsTyped
    <2>7. StoreTypeOK'
      BY <1>2, <2>6 DEF TakeItem, ratingVars, MarketTypes, StoreTypeOK
    <2>8. PICK k : k = IF objects[n].seller_address \in sellers THEN [pc |-> "tell seller"]
                       ELSE Ended("BuyItem", "ERROR", {})
      OBVIOUS
    <2>9. Moves(b, k)
      BY <1>2, <2>1, <2>8, OneCallMoves DEF TakeItem
    <2>10. "pc" \in DOMAIN k /\ k.pc \in {"idle", "tell seller"}
      BY <2>8 DEF Ended
    <2>11. Len(objects') >= Len(objects)
      BY <1>0, <2>6
    <2> QED BY <2>7, <2>9, <2>10, <2>11, PlainTypes
  <1>3. CASE SellerTold(b)
    <2>1. Moves(b, Idle) /\ objects' = objects
      BY <1>3, OneCallMoves DEF SellerTold, storeVars
    <2>2. StoreTypeOK'
      BY <1>3 DEF SellerTold, storeVars, ratingVars, MarketTypes, StoreTypeOK
    <2>3. "pc" \in DOMAIN Idle /\ Idle.pc = "idle" /\ Len(objects') >= Len(objects)
      BY <1>0, <2>1 DEF Idle
    <2> QED BY <2>1, <2>2, <2>3, PlainTypes
  <1> QED BY <1>1, <1>2, <1>3

\* RateItem begins.
LEMMA RateTypes ==
    ASSUME MarketTypes, NEW b \in Client, NEW id \in DOMAIN items, NEW r \in Rating,
           RateItem(b, id, r)
    PROVE  MarketTypes'
  <1>1. PICK k : k = [pc |-> "find raters", id |-> id, rating |-> r]
    OBVIOUS
  <1>2. Moves(b, k) /\ objects' = objects
    BY <1>1, OneCallMoves DEF RateItem, storeVars
  <1>3. CallTypeOK(k)'
    <2>1. id \in Nat \ {0}
      BY DEF MarketTypes, StoreTypeOK
    <2> QED BY <1>1, <2>1 DEF CallTypeOK, Statements, AtRating, BeforeSums
  <1>4. StoreTypeOK' /\ Len(objects) \in Nat
    <2>1. UNCHANGED <<connection, sellers, storeVars, wishlists, ratingVars>>
      BY DEF RateItem
    <2> QED BY <2>1 DEF storeVars, ratingVars, MarketTypes, StoreTypeOK
  <1>5. CallsTypeOK'
    BY <1>2, <1>3, <1>4, CallsTyped
  <1> QED BY <1>4, <1>5 DEF MarketTypes

\* It comes to another statement before the sums.
LEMMA GoesOnTypes ==
    ASSUME MarketTypes, NEW b \in Client, call[b].pc \in BeforeSums, NEW to \in BeforeSums,
           call' = [call EXCEPT ![b].pc = to], objects' = objects, StoreTypeOK'
    PROVE  /\ MarketTypes'
           /\ \E k : /\ Moves(b, k) /\ k.pc = to /\ k.id = call[b].id
                     /\ k.rating = call[b].rating
  <1>1. PICK k : k = [call[b] EXCEPT !.pc = to]
    OBVIOUS
  <1>2. call' = [call EXCEPT ![b] = k]
    BY <1>1 DEF MarketTypes, CallsTypeOK
  <1>3. Moves(b, k)
    BY <1>2, OneCallMoves
  <1>4. /\ {"pc", "id", "rating"} \subseteq DOMAIN call[b]
        /\ call[b].rating \in Rating /\ call[b].id \in Nat \ {0}
    BY DEF MarketTypes, CallsTypeOK, CallTypeOK, AtRating
  <1>5. /\ DOMAIN k = DOMAIN call[b] /\ k.pc = to /\ k.id = call[b].id
        /\ k.rating = call[b].rating
    BY <1>1, <1>4
  <1>6. CallTypeOK(k)'
    BY <1>4, <1>5 DEF CallTypeOK, Statements, AtRating, BeforeSums
  <1>7. Len(objects) \in Nat
    BY DEF MarketTypes, StoreTypeOK
  <1>8. CallsTypeOK'
    BY <1>3, <1>6, <1>7, CallsTyped
  <1> QED BY <1>3, <1>5, <1>8 DEF MarketTypes

\* The statements before the sums.
RatesFirst(b) ==
    FindRaters(b) \/ InitRaters(b) \/ AddRater(b) \/ FindRatings(b) \/ InitRatings(b)

\* Those that go on in any case keep the types.
LEMMA FirstTypes ==
    ASSUME MarketTypes, NEW b \in Client, RatesFirst(b)
    PROVE  /\ MarketTypes'
           /\ UNCHANGED <<connection, sellers, storeVars, wishlists>>
           /\ call[b].pc \in BeforeSums
           /\ \E k : /\ Moves(b, k) /\ k.pc \in BeforeSums /\ k.id = call[b].id
                     /\ k.rating = call[b].rating
  <1>1. /\ UNCHANGED <<connection, sellers, storeVars, wishlists>>
        /\ call[b].pc \in BeforeSums
    BY DEF RatesFirst, FindRaters, InitRaters, AddRater, FindRatings, InitRatings, GoesOn,
           BeforeSums
  <1>2. PICK to \in BeforeSums : call' = [call EXCEPT ![b].pc = to]
    BY DEF RatesFirst, FindRaters, InitRaters, AddRater, FindRatings, InitRatings, GoesOn,
           BeforeSums
  <1>3. /\ \A id \in DOMAIN item_ratings' : item_ratings'[id] \in Int \X Nat
        /\ \A id \in DOMAIN item_rated_by' : item_rated_by'[id] \subseteq Address
        /\ \A id \in DOMAIN given' : id \in Nat \ {0} /\ given'[id] \in Sums
    <2>1. CASE FindRaters(b) \/ FindRatings(b)
      BY <2>1 DEF FindRaters, FindRatings, ratingVars, MarketTypes, StoreTypeOK
    <2>2. CASE InitRaters(b)
      BY <2>2 DEF InitRaters, Put, MarketTypes, StoreTypeOK
    <2>3. CASE InitRatings(b)
      <3>1. NoRatings \in Int \X Nat
        BY DEF NoRatings
      <3> QED BY <2>3, <3>1 DEF InitRatings, Put, MarketTypes, StoreTypeOK
    <2>4. CASE AddRater(b)
      <3>1. call[b].id \in Nat \ {0} /\ call[b].rating \in Rating
        BY <1>1 DEF MarketTypes, CallsTypeOK, CallTypeOK, AtRating
      <3>2. PICK sums : sums = Get(given, call[b].id, <<0, 0>>)
        OBVIOUS
      <3>3. sums \in Int \X Nat
        BY <3>2 DEF Get, Sums, MarketTypes, StoreTypeOK
      <3>4. <<sums[1] + call[b].rating, sums[2] + 1>> \in Sums
        BY <3>1, <3>3, AddsUp DEF Counted
      <3>5. given' = Put(given, call[b].id, <<sums[1] + call[b].rating, sums[2] + 1>>)
        BY <2>4, <3>2 DEF AddRater
      <3>6. \A id \in DOMAIN given' : id \in Nat \ {0} /\ given'[id] \in Sums
        BY <3>1, <3>4, <3>5 DEF Put, MarketTypes, StoreTypeOK
      <3>7. \A id \in DOMAIN item_rated_by' : item_rated_by'[id] \subseteq Address
        BY <2>4, PeerTyped DEF AddRater, MarketTypes, StoreTypeOK
      <3> QED BY <2>4, <3>6, <3>7 DEF AddRater, MarketTypes, StoreTypeOK
    <2> QED BY <2>1, <2>2, <2>3, <2>4 DEF RatesFirst
  <1>4. StoreTypeOK' /\ objects' = objects
    BY <1>1, <1>3 DEF storeVars, MarketTypes, StoreTypeOK
  <1>5. /\ MarketTypes'
        /\ \E k : /\ Moves(b, k) /\ k.pc = to /\ k.id = call[b].id
                  /\ k.rating = call[b].rating
    BY <1>1, <1>2, <1>4, GoesOnTypes
  <1> QED BY <1>1, <1>2, <1>5

\* So does the check.
LEMMA CheckTypes ==
    ASSUME MarketTypes, NEW b \in Client, CheckRater(b)
    PROVE  /\ MarketTypes' /\ UNCHANGED <<connection, sellers, storeVars, wishlists, ratingVars>>
           /\ call[b].pc = "check"
           /\ \E k : /\ Moves(b, k)
                     /\ \/ k = Idle /\ HasRated(call[b].id, peer(b))
                        \/ /\ k.pc = "add" /\ k.id = call[b].id /\ k.rating = call[b].rating
                           /\ ~HasRated(call[b].id, peer(b))
  <1>1. /\ UNCHANGED <<connection, sellers, storeVars, wishlists, ratingVars>>
        /\ call[b].pc = "check" /\ call[b].pc \in BeforeSums
    BY DEF CheckRater, BeforeSums
  <1>2. StoreTypeOK' /\ objects' = objects
    BY <1>1 DEF storeVars, ratingVars, MarketTypes, StoreTypeOK
  <1>3. CASE HasRated(call[b].id, peer(b))
    <2>1. Moves(b, Idle)
      BY <1>3, OneCallMoves DEF CheckRater
    <2>2. "pc" \in DOMAIN Idle /\ Idle.pc = "idle"
      BY DEF Idle
    <2>3. Len(objects') >= Len(objects)
      BY <1>2 DEF MarketTypes, StoreTypeOK
    <2> QED BY <1>1, <1>2, <1>3, <2>1, <2>2, <2>3, PlainTypes
  <1>4. CASE ~HasRated(call[b].id, peer(b))
    <2>1. call' = [call EXCEPT ![b].pc = "add"]
      BY <1>4 DEF CheckRater, MarketTypes, CallsTypeOK
    <2>2. "add" \in BeforeSums
      BY DEF BeforeSums
    <2>3. /\ MarketTypes'
          /\ \E k : /\ Moves(b, k) /\ k.pc = "add" /\ k.id = call[b].id
                    /\ k.rating = call[b].rating
      BY <1>1, <1>2, <2>1, <2>2, GoesOnTypes
    <2> QED BY <1>1, <1>4, <2>3
  <1> QED BY <1>3, <1>4

\* And so do the reading of the sums, ...
LEMMA ReadTypes ==
    ASSUME MarketTypes, Found, NEW b \in Client, ReadRatings(b)
    PROVE  /\ MarketTypes' /\ UNCHANGED <<connection, sellers, storeVars, wishlists, ratingVars>>
           /\ call[b].pc = "read" /\ call[b].id \in DOMAIN item_ratings
           /\ call[b].rating \in Rating /\ item_ratings[call[b].id] \in Int \X Nat
           /\ \E k : /\ Moves(b, k) /\ k.pc = "write" /\ k.id = call[b].id
                     /\ k.sums = <<item_ratings[call[b].id][1] + call[b].rating,
                                   item_ratings[call[b].id][2] + 1>>
  <1>1. /\ UNCHANGED <<connection, sellers, storeVars, wishlists, ratingVars>>
        /\ call[b].pc = "read" /\ call[b].id \in DOMAIN item_ratings
    BY DEF ReadRatings, Found
  <1>2. PICK i, r, sums : i = call[b].id /\ r = call[b].rating /\ sums = item_ratings[i]
    OBVIOUS
  <1>3. i \in Nat \ {0} /\ r \in Rating /\ sums \in Int \X Nat
    BY <1>1, <1>2 DEF MarketTypes, CallsTypeOK, CallTypeOK, StoreTypeOK, AtRating, BeforeSums
  <1>4. PICK new : new = Counted(sums[1], sums[2], r)
    OBVIOUS
  <1>5. new \in Sums /\ new = <<sums[1] + r, sums[2] + 1>>
    BY <1>3, <1>4, AddsUp DEF Counted
  <1>6. PICK k : k = [pc |-> "write", id |-> i, sums |-> new]
    OBVIOUS
  <1>7. Moves(b, k)
    BY <1>2, <1>4, <1>6, OneCallMoves DEF ReadRatings
  <1>8. CallTypeOK(k)'
    BY <1>3, <1>5, <1>6 DEF CallTypeOK, Statements, AtRating, BeforeSums
  <1>9. StoreTypeOK' /\ objects' = objects /\ Len(objects) \in Nat
    BY <1>1 DEF storeVars, ratingVars, MarketTypes, StoreTypeOK
  <1>10. CallsTypeOK'
    BY <1>7, <1>8, <1>9, CallsTyped
  <1>11. k.pc = "write" /\ k.id = i /\ k.sums = new
    BY <1>6
  <1> QED BY <1>1, <1>2, <1>3, <1>5, <1>7, <1>9, <1>10, <1>11 DEF MarketTypes

\* ... their writing ...
LEMMA WriteTypes ==
    ASSUME MarketTypes, NEW b \in Client, WriteRatings(b)
    PROVE  /\ MarketTypes'
           /\ UNCHANGED <<connection, sellers, storeVars, wishlists, item_rated_by, given>>
           /\ call[b].pc = "write" /\ call[b].sums \in Sums
           /\ item_ratings' = Put(item_ratings, call[b].id, call[b].sums)
           /\ \E k : Moves(b, k) /\ k.pc = "show"
  <1>1. /\ UNCHANGED <<connection, sellers, storeVars, wishlists, item_rated_by, given>>
        /\ call[b].pc = "write" /\ call' = [call EXCEPT ![b].pc = "show"]
        /\ item_ratings' = Put(item_ratings, call[b].id, call[b].sums)
    BY DEF WriteRatings, GoesOn
  <1>2. {"pc", "id", "sums"} \subseteq DOMAIN call[b] /\ call[b].sums \in Sums
    BY <1>1 DEF MarketTypes, CallsTypeOK, CallTypeOK
  <1>3. PICK k : k = [call[b] EXCEPT !.pc = "show"]
    OBVIOUS
  <1>4. call' = [call EXCEPT ![b] = k]
    BY <1>1, <1>3 DEF MarketTypes, CallsTypeOK
  <1>5. Moves(b, k)
    BY <1>4, OneCallMoves
  <1>6. DOMAIN k = DOMAIN call[b] /\ k.pc = "show" /\ k.sums = call[b].sums
    BY <1>2, <1>3
  <1>7. CallTypeOK(k)'
    BY <1>2, <1>6 DEF CallTypeOK, Statements, AtRating, BeforeSums
  <1>8. StoreTypeOK' /\ objects' = objects /\ Len(objects) \in Nat
    <2>1. \A id \in DOMAIN item_ratings' : item_ratings'[id] \in Int \X Nat
      BY <1>1, <1>2 DEF Put, Sums, MarketTypes, StoreTypeOK
    <2> QED BY <1>1, <2>1 DEF storeVars, MarketTypes, StoreTypeOK
  <1>9. CallsTypeOK'
    BY <1>5, <1>7, <1>8, CallsTyped
  <1> QED BY <1>1, <1>2, <1>5, <1>6, <1>8, <1>9 DEF MarketTypes

\* ... and their showing.
LEMMA ShowTypes ==
    ASSUME MarketTypes, NEW b \in Client, ShowRating(b)
    PROVE  /\ MarketTypes' /\ Moves(b, Idle) /\ call[b].pc = "show"
           /\ UNCHANGED <<connection, sellers, wishlists, ratingVars>>
  <1>0. objects \in Seq(Objects) /\ Len(objects) \in Nat
    BY DEF MarketTypes, StoreTypeOK
  <1>1. call[b].sums \in Int \X Nat
    BY DEF ShowRating, Sums, MarketTypes, CallsTypeOK, CallTypeOK
  <1>2. objects' \in Seq(Objects) /\ Len(objects') = Len(objects)
    <2>1. CASE call[b].id \notin DOMAIN items
      BY <1>0, <2>1 DEF ShowRating
    <2>2. CASE call[b].id \in DOMAIN items
      <3>1. PICK n : n = items[call[b].id]
        OBVIOUS
      <3>2. n \in 1..Len(objects)
        BY <2>2, <3>1 DEF MarketTypes, StoreTypeOK
      <3>3. PICK o : o = [objects[n] EXCEPT !.rating = call[b].sums]
        OBVIOUS
      <3>4. o \in Objects
        <4>1. objects[n] \in Objects
          BY <1>0, <3>2, ObjectsTyped
        <4> QED BY <1>1, <3>3, <4>1 DEF Objects
      <3>5. objects' = [objects EXCEPT ![n] = o]
        BY <1>0, <2>2, <3>1, <3>2, <3>3 DEF ShowRating
      <3> QED BY <1>0, <3>2, <3>4, <3>5, ObjectsTyped
    <2> QED BY <2>1, <2>2
  <1>3. StoreTypeOK'
    BY <1>2 DEF ShowRating, ratingVars, MarketTypes, StoreTypeOK
  <1>4. Moves(b, Idle) /\ UNCHANGED <<connection, sellers, wishlists, ratingVars>>
    BY OneCallMoves DEF ShowRating
  <1>5. "pc" \in DOMAIN Idle /\ Idle.pc = "idle" /\ Len(objects') >= Len(objects)
    BY <1>0, <1>2 DEF Idle
  <1> QED BY <1>3, <1>4, <1>5, PlainTypes DEF ShowRating

\* What is over at once keeps them.
LEMMA ShortTypes ==
    ASSUME MarketTypes, NEW c \in Client, NEW id,
           RegisterSeller(c) \/ DeleteItem(c, id) \/ AddToWishList(c, id)
    PROVE  MarketTypes' /\ Moves(c, Idle)
  <1>1. Moves(c, Idle) /\ objects' = objects
    BY OneCallMoves DEF RegisterSeller, DeleteItem, AddToWishList, storeVars
  <1>2. StoreTypeOK'
    BY PeerTyped DEF RegisterSeller, DeleteItem, AddToWishList, Put, storeVars, ratingVars,
       MarketTypes, StoreTypeOK
  <1>3. "pc" \in DOMAIN Idle /\ Idle.pc = "idle"
    BY DEF Idle
  <1>4. Len(objects') >= Len(objects)
    BY <1>1 DEF MarketTypes, StoreTypeOK
  <1> QED BY <1>1, <1>2, <1>3, <1>4, PlainTypes

\* Every step keeps them.
LEMMA StepMarketTypes == MarketTypes /\ Found /\ Bounded /\ [Next]_vars => MarketTypes'
  <1> SUFFICES ASSUME MarketTypes, Found, Bounded, [Next]_vars PROVE MarketTypes'
    OBVIOUS
  <1>0. Seller \subseteq Client /\ Buyer \subseteq Client
    BY DEF Client
  <1>1. ASSUME NEW c \in Client, Continue(c) PROVE MarketTypes'
    BY <1>1, SellTypes, WalkTypes, ToldTypes, BuyTypes, FirstTypes, CheckTypes, ReadTypes,
       WriteTypes, ShowTypes DEF Continue, Rates, RatesFirst
  <1>2. ASSUME NEW c \in Client, Reconnect(c) PROVE MarketTypes'
    <2>1. connection' \in [Client -> 0..MaxDisturbances]
      BY <1>2 DEF Reconnect, Bounded, MarketTypes, StoreTypeOK
    <2>2. StoreTypeOK'
      BY <1>2, <2>1 DEF Reconnect, storeVars, ratingVars, MarketTypes, StoreTypeOK
    <2> QED BY <1>2, <2>2 DEF Reconnect, storeVars, MarketTypes, CallsTypeOK, CallTypeOK
  <1>3. ASSUME NEW s \in Seller, Sells(s) PROVE MarketTypes'
    BY <1>0, <1>3, SellTypes, ShortTypes, UpdateTypes DEF Sells
  <1>4. ASSUME NEW b \in Buyer, Buys(b) PROVE MarketTypes'
    BY <1>0, <1>4, BuyTypes, ShortTypes, RateTypes DEF Buys
  <1>5. CASE UNCHANGED vars
    BY <1>5 DEF vars, storeVars, ratingVars, MarketTypes, StoreTypeOK, CallsTypeOK,
            CallTypeOK
  <1> QED BY <1>1, <1>2, <1>3, <1>4, <1>5 DEF Next
-----------------------------------------------------------------------------
(* The steps. *)

\* The steps of the calls that are no ratings.
NoRating(c) ==
    \/ RegisterSeller(c) \/ StoreItem(c) \/ CountItem(c) \/ NextWisher(c) \/ BuyerTold(c)
    \/ TakeItem(c) \/ SellerTold(c)
    \/ \E q \in Quantity : SellItem(c, q)
    \/ \E id \in DOMAIN items :
           \/ DeleteItem(c, id) \/ AddToWishList(c, id)
           \/ \E q \in Quantity : UpdateItem(c, id, q) \/ BuyItem(c, id, q)

\* Buying begins with a check of the stock.
Checks(c) == \E id \in DOMAIN items, q \in Quantity : BuyItem(c, id, q)

\* A call that is at no rating, and at a purchase only if it began one.
Calm(c, k) == k.pc \notin AtRating /\ (k.pc = "take" => Checks(c))

\* These steps neither begin nor end a rating.
LEMMA NoRatingMoves ==
    ASSUME MarketTypes, NEW c \in Client, NoRating(c)
    PROVE  /\ UNCHANGED <<connection, ratingVars>>
           /\ call[c].pc \notin AtRating
           /\ \E k : Moves(c, k) /\ Calm(c, k)
  <1>1. ASSUME NEW k, call' = [call EXCEPT ![c] = k], Calm(c, k)
        PROVE  \E j : Moves(c, j) /\ Calm(c, j)
    BY <1>1, OneCallMoves
  <1>2. /\ UNCHANGED <<connection, ratingVars>>
        /\ call[c].pc \notin AtRating
    BY DEF NoRating, RegisterSeller, StoreItem, CountItem, NextWisher, BuyerTold, TakeItem,
           SellerTold, SellItem, DeleteItem, AddToWishList, UpdateItem, BuyItem, MayStart,
           AtRating, BeforeSums
  <1>3. CASE BuyerTold(c)
    <2>1. "pc" \in DOMAIN call[c]
      BY DEF MarketTypes, CallsTypeOK, CallTypeOK
    <2>2. [call[c] EXCEPT !.pc = "next"].pc = "next"
      BY <2>1
    <2> QED BY <1>2, <1>3, <2>2, ToldTypes DEF Calm, AtRating, BeforeSums
  <1>4. CASE NextWisher(c)
    <2>1. ASSUME NEW v, call' = [call EXCEPT ![c].pc = "tell buyer", ![c].visited = v]
          PROVE  \E j : Moves(c, j) /\ Calm(c, j)
      <3>1. PICK k : k = [call[c] EXCEPT !.pc = "tell buyer", !.visited = v]
        OBVIOUS
      <3>2. call' = [call EXCEPT ![c] = k]
        BY <2>1, <3>1 DEF MarketTypes, CallsTypeOK
      <3>3. "pc" \in DOMAIN call[c]
        BY DEF MarketTypes, CallsTypeOK, CallTypeOK
      <3>4. k.pc = "tell buyer"
        BY <3>1, <3>3
      <3> QED BY <1>1, <3>2, <3>4 DEF Calm, AtRating, BeforeSums
    <2>2. ASSUME NEW r, NEW m, call' = [call EXCEPT ![c] = Ended("UpdateItem", r, m)]
          PROVE  \E j : Moves(c, j) /\ Calm(c, j)
      BY <1>1, <2>2 DEF Ended, Calm, AtRating, BeforeSums
    <2>3. \E j : Moves(c, j) /\ Calm(c, j)
      BY <1>4, <2>1, <2>2 DEF NextWisher
    <2> QED BY <1>2, <2>3
  <1>5. CASE \/ RegisterSeller(c) \/ CountItem(c) \/ SellerTold(c)
             \/ \E id \in DOMAIN items : DeleteItem(c, id) \/ AddToWishList(c, id)
    <2>1. Calm(c, Idle) /\ call' = [call EXCEPT ![c] = Idle]
      BY <1>5 DEF Calm, Idle, RegisterSeller, CountItem, SellerTold, DeleteItem,
         AddToWishList, AtRating, BeforeSums
    <2> QED BY <1>1, <1>2, <2>1
  <1>6. CASE StoreItem(c)
    <2>1. Calm(c, [pc |-> "count"])
      BY DEF Calm, AtRating, BeforeSums
    <2> QED BY <1>1, <1>2, <1>6, <2>1 DEF StoreItem
  <1>7. CASE TakeItem(c)
    <2>1. Calm(c, [pc |-> "tell seller"]) /\ \A r : Calm(c, Ended("BuyItem", r, {}))
      BY DEF Ended, Calm, AtRating, BeforeSums
    <2> QED BY <1>1, <1>2, <1>7, <2>1 DEF TakeItem
  <1>8. ASSUME NEW q \in Quantity, SellItem(c, q)
        PROVE  \E j : Moves(c, j) /\ Calm(c, j)
    <2>1. PICK k : k = [pc |-> "store", object |-> Len(objects')]
      OBVIOUS
    <2>2. call' = [call EXCEPT ![c] = k] /\ k.pc = "store"
      BY <1>8, <2>1 DEF SellItem
    <2> QED BY <1>1, <2>2 DEF Calm, AtRating, BeforeSums
  <1>9. ASSUME NEW id \in DOMAIN items, NEW q \in Quantity, UpdateItem(c, id, q)
        PROVE  \E j : Moves(c, j) /\ Calm(c, j)
    <2>1. PICK k : k = [pc |-> "next", id |-> id, visited |-> {}, wishers |-> Wishers(id),
                        size |-> Cardinality(DOMAIN wishlists)]
      OBVIOUS
    <2>2. call' = [call EXCEPT ![c] = k] /\ k.pc = "next"
      BY <1>9, <2>1 DEF UpdateItem
    <2> QED BY <1>1, <2>2 DEF Calm, AtRating, BeforeSums
  <1>10. ASSUME NEW id \in DOMAIN items, NEW q \in Quantity, BuyItem(c, id, q)
         PROVE  \E j : Moves(c, j) /\ Calm(c, j)
    <2>1. PICK k : k = [pc |-> "take", object |-> items[id], quantity |-> q]
      OBVIOUS
    <2>2. call' = [call EXCEPT ![c] = k] /\ k.pc = "take"
      BY <1>10, <2>1 DEF BuyItem
    <2> QED BY <1>1, <1>10, <2>2 DEF Calm, Checks, AtRating, BeforeSums
  <1> QED BY <1>2, <1>3, <1>4, <1>5, <1>6, <1>7, <1>8, <1>9, <1>10 DEF NoRating

\* RateItem begins: nothing else changes.
LEMMA RateMoves ==
    ASSUME MarketTypes, NEW b \in Client, NEW id \in DOMAIN items, NEW r \in Rating,
           RateItem(b, id, r)
    PROVE  /\ UNCHANGED <<connection, sellers, storeVars, wishlists, ratingVars>>
           /\ call[b].pc = "idle"
           /\ Moves(b, call'[b])
           /\ call'[b].pc = "find raters" /\ call'[b].id = id /\ call'[b].rating = r
  <1>1. PICK k : k = [pc |-> "find raters", id |-> id, rating |-> r]
    OBVIOUS
  <1>2. Moves(b, k)
    BY <1>1, OneCallMoves DEF RateItem
  <1>3. k.pc = "find raters" /\ k.id = id /\ k.rating = r
    BY <1>1
  <1> QED BY <1>2, <1>3 DEF RateItem, MayStart, Moves

\* The statements of RateItem but for the last one change only the ratings.
RatesOn(b) == RatesFirst(b) \/ CheckRater(b) \/ ReadRatings(b) \/ WriteRatings(b)

LEMMA RatesMove ==
    ASSUME MarketTypes, NEW b \in Client, RatesOn(b)
    PROVE  /\ UNCHANGED <<connection, sellers, storeVars, wishlists>>
           /\ call[b].pc \in AtRating
           /\ \E k : /\ Moves(b, k)
                     /\ \/ k = Idle \/ k.pc = "show"
                        \/ k.pc \in AtRating /\ k.id = call[b].id
  <1>1. CASE RatesFirst(b)
    BY <1>1, FirstTypes DEF AtRating
  <1>2. CASE CheckRater(b)
    <2>1. "add" \in AtRating /\ "check" \in AtRating
      BY DEF AtRating, BeforeSums
    <2> QED BY <1>2, <2>1, CheckTypes
  <1>3. CASE WriteRatings(b)
    BY <1>3, WriteTypes DEF AtRating
  <1>4. CASE ReadRatings(b)
    <2>1. PICK i, n : i = call[b].id
                      /\ call' = [call EXCEPT ![b] = [pc |-> "write", id |-> i, sums |-> n]]
      BY <1>4 DEF ReadRatings
    <2>2. PICK k : k = [pc |-> "write", id |-> i, sums |-> n]
      OBVIOUS
    <2>3. Moves(b, k) /\ k.pc = "write" /\ k.id = i
      BY <2>1, <2>2, OneCallMoves
    <2>4. k.pc \in AtRating /\ call[b].pc \in AtRating
      BY <1>4, <2>3 DEF ReadRatings, AtRating, BeforeSums
    <2> QED BY <1>4, <2>1, <2>3, <2>4 DEF ReadRatings
  <1> QED BY <1>1, <1>2, <1>3, <1>4 DEF RatesOn

\* The steps of a call.
Step(c) ==
    \/ NoRating(c) \/ RatesOn(c) \/ ShowRating(c)
    \/ c \in Buyer /\ \E id \in DOMAIN items, r \in Rating : RateItem(c, id, r)

\* A step of Next, by who takes it.
LEMMA StepKinds ==
    ASSUME [Next]_vars
    PROVE  (\E c \in Client : Step(c) \/ Reconnect(c)) \/ UNCHANGED vars
  <1>0. Seller \subseteq Client /\ Buyer \subseteq Client
    BY DEF Client
  <1>1. ASSUME NEW c \in Client, Continue(c) PROVE Step(c)
    BY <1>1 DEF Continue, Rates, Step, NoRating, RatesOn, RatesFirst
  <1>2. ASSUME NEW s \in Seller, Sells(s) PROVE Step(s)
    BY <1>2 DEF Sells, Step, NoRating
  <1>3. ASSUME NEW b \in Buyer, Buys(b) PROVE Step(b)
    BY <1>3 DEF Buys, Step, NoRating
  <1> QED BY <1>0, <1>1, <1>2, <1>3 DEF Next

\* A step of a call is one of its thread, over a connection that stays.
LEMMA StepRuns ==
    ASSUME NEW c \in Client, Step(c)
    PROVE  Runs(c) /\ connection' = connection
  <1>1. CASE NoRating(c)
    BY <1>1 DEF NoRating, RegisterSeller, StoreItem, CountItem, NextWisher, BuyerTold,
       TakeItem, SellerTold, SellItem, DeleteItem, AddToWishList, UpdateItem, BuyItem,
       MayStart
  <1>2. CASE ~NoRating(c)
    BY <1>2 DEF Step, RatesOn, RatesFirst, FindRaters, InitRaters, CheckRater, AddRater,
       FindRatings, InitRatings, ReadRatings, WriteRatings, GoesOn, ShowRating, RateItem,
       MayStart
  <1> QED BY <1>1, <1>2

\* A step of a call moves that call only.
LEMMA StepMoves ==
    ASSUME MarketTypes, NEW c \in Client, Step(c)
    PROVE  /\ \A d \in Client \ {c} : call'[d] = call[d]
           /\ call'[c].pc = "take" => Checks(c)
  <1>1. CASE NoRating(c)
    BY <1>1, NoRatingMoves DEF Moves, Calm
  <1>2. CASE ShowRating(c) \/ RatesOn(c)
    <2>1. PICK k : Moves(c, k) /\ (k = Idle \/ k.pc = "show" \/ k.pc \in AtRating)
      BY <1>2, ShowTypes, RatesMove
    <2>2. Idle.pc = "idle" /\ "take" \notin AtRating
      BY DEF Idle, AtRating, BeforeSums
    <2>3. k.pc # "take"
      BY <2>1, <2>2
    <2> QED BY <2>1, <2>3 DEF Moves
  <1>3. ASSUME NEW id \in DOMAIN items, NEW r \in Rating, RateItem(c, id, r)
        PROVE  (\A d \in Client \ {c} : call'[d] = call[d]) /\ call'[c].pc # "take"
    <2>1. Moves(c, call'[c]) /\ call'[c].pc = "find raters"
      BY <1>3, RateMoves
    <2> QED BY <2>1 DEF Moves
  <1> QED BY <1>1, <1>2, <1>3 DEF Step

\* Interruptions and new connections are as many as MaxDisturbances allows.
LEMMA StepBounded == MarketTypes /\ Bounded /\ [Next]_vars => Bounded'
  <1> SUFFICES ASSUME MarketTypes, Bounded, [Next]_vars PROVE Bounded'
    OBVIOUS
  <1>0. /\ MaxDisturbances \in Nat /\ disturbances \in Nat /\ disturbances <= MaxDisturbances
        /\ \A c \in Client : connection[c] \in Nat /\ connection[c] <= disturbances
    BY DEF Bounded, MarketTypes, StoreTypeOK
  <1>1. ASSUME NEW c \in Client, Step(c) PROVE Bounded'
    <2>1. Runs(c) /\ connection' = connection
      BY <1>1, StepRuns
    <2>2. preempted' \in BOOLEAN /\ (preempted' /\ ~preempted => disturbances < MaxDisturbances)
      BY <2>1 DEF Runs
    <2>3. disturbances' = disturbances \/ (disturbances' = disturbances + 1
                                           /\ disturbances < MaxDisturbances)
      BY <1>0, <2>1, <2>2 DEF Runs
    <2> QED BY <1>0, <2>1, <2>2, <2>3 DEF Bounded
  <1>2. ASSUME NEW c \in Client, Reconnect(c) PROVE Bounded'
    <2>1. /\ disturbances < MaxDisturbances /\ disturbances' = disturbances + 1
          /\ connection' = [connection EXCEPT ![c] = @ + 1] /\ preempted' = preempted
      BY <1>2 DEF Reconnect
    <2>2. \A d \in Client : connection'[d] <= disturbances + 1
      BY <1>0, <2>1 DEF MarketTypes, StoreTypeOK
    <2> QED BY <1>0, <2>1, <2>2 DEF Bounded
  <1>3. CASE UNCHANGED vars
    BY <1>3 DEF vars, Bounded
  <1> QED BY <1>1, <1>2, <1>3, StepKinds

\* The domains of the raters and of the sums only grow.
LEMMA RatedStays ==
    ASSUME MarketTypes, NEW c \in Client, Step(c)
    PROVE  /\ DOMAIN item_rated_by \subseteq DOMAIN item_rated_by'
           /\ DOMAIN item_ratings \subseteq DOMAIN item_ratings'
           /\ DOMAIN given \subseteq DOMAIN given'
  <1>1. CASE ratingVars' = ratingVars
    BY <1>1 DEF ratingVars
  <1>2. CASE InitRaters(c) \/ AddRater(c) \/ InitRatings(c) \/ WriteRatings(c)
    BY <1>2 DEF InitRaters, AddRater, InitRatings, WriteRatings, Put
  <1>3. CASE NoRating(c) \/ ShowRating(c)
    BY <1>1, <1>3, NoRatingMoves, ShowTypes
  <1>4. CASE FindRaters(c) \/ CheckRater(c) \/ FindRatings(c) \/ ReadRatings(c)
             \/ \E id \in DOMAIN items, r \in Rating : RateItem(c, id, r)
    BY <1>1, <1>4 DEF FindRaters, CheckRater, FindRatings, ReadRatings, RateItem
  <1> QED BY <1>2, <1>3, <1>4 DEF Step, RatesOn, RatesFirst

\* A statement finds the raters, or the sums, that the one before it has found or made.
LEMMA StepFound == MarketTypes /\ Found /\ [Next]_vars => Found'
  <1> SUFFICES ASSUME MarketTypes, Found, [Next]_vars PROVE Found'
    OBVIOUS
  <1>1. ASSUME NEW c \in Client, Step(c) PROVE Found'
    <2>1. ASSUME NEW k, Moves(c, k),
                 k.pc \in {"check", "add"} => k.id \in DOMAIN item_rated_by',
                 k.pc = "read" => k.id \in DOMAIN item_ratings'
          PROVE  Found'
      BY <1>1, <2>1, RatedStays DEF Found, Moves
    <2>2. ASSUME NEW k, Moves(c, k), k = Idle \/ k.pc \notin AtRating PROVE Found'
      BY <2>1, <2>2 DEF Idle, AtRating, BeforeSums
    <2>3. CASE NoRating(c)
      BY <2>2, <2>3, NoRatingMoves DEF Calm
    <2>4. CASE ShowRating(c)
      BY <2>2, <2>4, ShowTypes
    <2>5. CASE WriteRatings(c)
      <3>1. "show" \notin AtRating
        BY DEF AtRating, BeforeSums
      <3> QED BY <2>2, <2>5, <3>1, WriteTypes
    <2>6. CASE ReadRatings(c)
      BY <2>1, <2>6, ReadTypes
    <2>7. CASE CheckRater(c)
      <3>1. PICK k : Moves(c, k) /\ (k = Idle \/ (k.pc = "add" /\ k.id = call[c].id))
        BY <2>7, CheckTypes
      <3>2. call[c].id \in DOMAIN item_rated_by' /\ Idle.pc = "idle"
        BY <2>7, CheckTypes DEF Found, ratingVars, Idle
      <3> QED BY <2>1, <3>1, <3>2
    <2>8. CASE RatesFirst(c)
      <3>1. PICK k : Moves(c, k) /\ k.id = call[c].id
        BY <2>8, FirstTypes
      <3>2. k.pc \in {"check", "add"} => k.id \in DOMAIN item_rated_by'
        <4>1. DOMAIN call = Client /\ "pc" \in DOMAIN call[c] /\ k = call'[c]
          BY <3>1 DEF Moves, MarketTypes, CallsTypeOK, CallTypeOK
        <4>2. CASE FindRaters(c)
          BY <3>1, <4>1, <4>2 DEF FindRaters, GoesOn, ratingVars
        <4>3. CASE InitRaters(c)
          BY <3>1, <4>3 DEF InitRaters, Put
        <4>4. CASE AddRater(c) \/ FindRatings(c) \/ InitRatings(c)
          BY <4>1, <4>4 DEF AddRater, FindRatings, InitRatings, GoesOn
        <4> QED BY <2>8, <4>2, <4>3, <4>4 DEF RatesFirst
      <3>3. k.pc = "read" => k.id \in DOMAIN item_ratings'
        BY <2>8, <3>1 DEF RatesFirst, FindRaters, InitRaters, AddRater, FindRatings,
           InitRatings, GoesOn, Moves, Put, MarketTypes, CallsTypeOK, CallTypeOK, ratingVars
      <3> QED BY <2>1, <3>1, <3>2, <3>3
    <2>9. ASSUME NEW id \in DOMAIN items, NEW r \in Rating, RateItem(c, id, r) PROVE Found'
      <3>1. Moves(c, call'[c]) /\ call'[c].pc = "find raters"
        BY <2>9, RateMoves
      <3>2. PICK k : k = call'[c]
        OBVIOUS
      <3> QED BY <2>1, <3>1, <3>2
    <2> QED BY <1>1, <2>3, <2>4, <2>5, <2>6, <2>7, <2>8, <2>9 DEF Step, RatesOn
  <1>2. CASE (\E c \in Client : Reconnect(c)) \/ UNCHANGED vars
    BY <1>2 DEF Reconnect, vars, ratingVars, Found
  <1> QED BY <1>1, <1>2, StepKinds

\* The types hold in every reachable state.
Typed == MarketTypes /\ Found /\ Bounded

LEMMA MarketTyped == Spec => []Typed
  <1>1. Init => Bounded
    <2> SUFFICES ASSUME Init PROVE Bounded
      OBVIOUS
    <2>1. connection = [c \in Client |-> 0] /\ disturbances = 0 /\ preempted = FALSE
      BY DEF Init
    <2>2. disturbances \in 0..MaxDisturbances
      BY <2>1
    <2>3. preempted \in BOOLEAN
      BY <2>1
    <2>4. \A c \in Client : connection[c] <= disturbances
      BY <2>1
    <2> QED BY <2>2, <2>3, <2>4 DEF Bounded
  <1>2. Init => Found
    <2> SUFFICES ASSUME Init PROVE Found
      OBVIOUS
    <2>1. \A c \in Client : call[c].pc = "idle"
      BY DEF Init, Idle
    <2> QED BY <2>1 DEF Found
  <1>3. Init => Typed
    BY <1>1, <1>2, InitMarketTypes DEF Typed
  <1>4. Typed /\ [Next]_vars => Typed'
    BY StepMarketTypes, StepFound, StepBounded DEF Typed
  <1> QED BY <1>3, <1>4, PTL DEF Spec

\* Every state has the types of TypeOK: whatever calls are under way and however threads
\* are interrupted, an item is an object, a wish or a rating is of an address some client
\* had, and what is shown with an item is the mean of one rating at least.
THEOREM MarketTyping == Spec => []TypeOK
  <1>1. Typed => TypeOK
    <2> SUFFICES ASSUME MarketTypes, Bounded PROVE TypeOK
      BY DEF Typed
    <2>1. \A n \in 1..Len(objects) :
              /\ objects[n].quantity \in Int /\ objects[n].id \in Nat \ {0}
              /\ objects[n].seller_address \in Address
      <3>1. \A n \in 1..Len(objects) : objects[n] \in Objects
        BY ObjectsTyped DEF MarketTypes, StoreTypeOK
      <3> QED BY <3>1 DEF Objects
    <2>2. \A c \in Client :
              /\ call[c].pc \in Statements
              /\ call[c].pc \in {"write", "show"} => call[c].sums \in Int \X (Nat \ {0})
      BY DEF MarketTypes, CallsTypeOK, CallTypeOK, Sums
    <2>3. \A id \in DOMAIN given : id \in Nat \ {0} /\ given[id] \in Int \X (Nat \ {0})
      BY DEF MarketTypes, StoreTypeOK, Sums
    <2> QED BY <2>1, <2>2, <2>3 DEF TypeOK, MarketTypes, StoreTypeOK, Bounded, Statements
  <1> QED BY <1>1, MarketTyped, PTL
-----------------------------------------------------------------------------
(* No rating is counted that was not given. *)

\* The sums kept for an item, and those of the ratings it accepted.
Kept(id) == Get(item_ratings, id, <<0, 0>>)
Given(id) == Get(given, id, <<0, 0>>)

\* The calls whose rating was accepted, and is yet to be added to the sums, ...
Owing == {"find ratings", "init ratings", "read"}
Pending(id) == {b \in Client : call[b].pc \in Owing /\ call[b].id = id}

\* ... and those that have it in the sums they are about to write.
Accepted(b) == call[b].pc \in Owing \cup {"write"}
Writing(b, id) == call[b].pc = "write" /\ call[b].id = id

\* The numbers of ratings, kept or about to be, leave room for all that are pending.
CountInv ==
    /\ DOMAIN item_ratings \subseteq DOMAIN given
    /\ \A b \in Client : Accepted(b) => call[b].id \in DOMAIN given
    /\ \A id : /\ IsFiniteSet(Pending(id))
              /\ Kept(id)[2] + Cardinality(Pending(id)) <= Given(id)[2]
    /\ \A b \in Client : \A id :
           Writing(b, id) => call[b].sums[2] + Cardinality(Pending(id)) <= Given(id)[2]

\* A sum of ratings is between the least and the greatest of them, each taken as often
\* as there are ratings.
Mean(sums) ==
    \E low, high \in Rating : sums[1] \in (low * sums[2])..(high * sums[2])
MeanInv ==
    /\ \A id \in DOMAIN item_ratings : Mean(item_ratings[id])
    /\ \A b \in Client : call[b].pc = "write" => Mean(call[b].sums)

\* All these are numbers.
LEMMA CountsTyped ==
    ASSUME MarketTypes, CountInv, NEW id
    PROVE  /\ Kept(id) \in Int \X Nat /\ Given(id) \in Int \X Nat
           /\ IsFiniteSet(Pending(id)) /\ Cardinality(Pending(id)) \in Nat
  <1>1. Kept(id) \in Int \X Nat
    BY DEF Kept, Get, MarketTypes, StoreTypeOK
  <1>2. Given(id) \in Int \X Nat
    BY DEF Given, Get, MarketTypes, StoreTypeOK, Sums
  <1>3. IsFiniteSet(Pending(id)) /\ Cardinality(Pending(id)) \in Nat
    BY FS_CardinalityType DEF CountInv
  <1> QED BY <1>1, <1>2, <1>3

\* A step that accepts no rating and writes no sums but (0, 0) keeps CountInv.
LEMMA CountFrame ==
    ASSUME MarketTypes, CountInv, given' = given, NEW b \in Client, NEW k, Moves(b, k),
           k.pc \in Owing \/ call[b].pc \in Owing =>
               k.pc \in Owing /\ call[b].pc \in Owing /\ k.id = call[b].id,
           k.pc # "write",
           DOMAIN item_ratings' \subseteq DOMAIN given,
           \A id : Kept(id)' = Kept(id) \/ Kept(id)' = <<0, 0>>
    PROVE  CountInv'
  <1>1. \A id : Pending(id)' = Pending(id) /\ Given(id)' = Given(id)
    BY DEF Pending, Moves, Given
  <1>2. \A c \in Client : Accepted(c)' => Accepted(c) /\ call'[c].id = call[c].id
    BY DEF Accepted, Moves
  <1>3. \A c \in Client : \A id :
            Writing(c, id)' => Writing(c, id) /\ call'[c].sums = call[c].sums
    BY DEF Writing, Moves
  <1>4. ASSUME NEW id
        PROVE  /\ IsFiniteSet(Pending(id)')
               /\ Kept(id)'[2] + Cardinality(Pending(id)') <= Given(id)'[2]
    <2>1. PICK p, n, m : p = Cardinality(Pending(id)) /\ n = Kept(id)[2] /\ m = Given(id)[2]
      OBVIOUS
    <2>2. p \in Nat /\ n \in Nat /\ m \in Nat /\ n + p <= m
      BY <2>1, CountsTyped DEF CountInv
    <2>3. 0 + p <= m
      BY <2>2
    <2>4. Kept(id)'[2] = n \/ Kept(id)'[2] = 0
      BY <2>1
    <2>5. Kept(id)'[2] + p <= m
      BY <2>2, <2>3, <2>4
    <2> QED BY <1>1, <2>1, <2>5 DEF CountInv
  <1>5. \A c \in Client : Accepted(c)' => call'[c].id \in DOMAIN given'
    BY <1>2 DEF CountInv
  <1>6. \A c \in Client : \A id :
            Writing(c, id)' =>
                call'[c].sums[2] + Cardinality(Pending(id)') <= Given(id)'[2]
    BY <1>1, <1>3 DEF CountInv
  <1> QED BY <1>4, <1>5, <1>6 DEF CountInv

\* A rating that is accepted is pending.
LEMMA AddCounts ==
    ASSUME MarketTypes, CountInv, NEW b \in Client, AddRater(b)
    PROVE  CountInv'
  <1>1. PICK k : /\ Moves(b, k) /\ k.id = call[b].id
    BY FirstTypes DEF RatesFirst
  <1>2. k.pc = "find ratings" /\ call[b].pc = "add"
    BY <1>1 DEF AddRater, GoesOn, Moves, MarketTypes, CallsTypeOK, CallTypeOK
  <1>3. PICK i : i = call[b].id
    OBVIOUS
  <1>4. /\ item_ratings' = item_ratings /\ DOMAIN given' = DOMAIN given \cup {i}
        /\ \A id : id # i => Given(id)' = Given(id)
    BY <1>3 DEF AddRater, Put, Given, Get
  <1>5. Given(i)'[2] = Given(i)[2] + 1
    BY <1>3 DEF AddRater, Put, Given, Get
  <1>6. /\ Pending(i)' = Pending(i) \cup {b} /\ b \notin Pending(i)
        /\ \A id : id # i => Pending(id)' = Pending(id)
    BY <1>1, <1>2, <1>3 DEF Pending, Moves, Owing
  <1>7. /\ IsFiniteSet(Pending(i)')
        /\ Cardinality(Pending(i)') = Cardinality(Pending(i)) + 1
    BY <1>6, CountsTyped, FS_AddElement
  <1>8. \A id : Kept(id)' = Kept(id)
    BY <1>4 DEF Kept
  <1>9. ASSUME NEW n \in Nat, NEW id, n + Cardinality(Pending(id)) <= Given(id)[2]
        PROVE  n + Cardinality(Pending(id)') <= Given(id)'[2]
    <2>1. CASE id # i
      BY <1>4, <1>6, <1>9, <2>1
    <2>2. CASE id = i
      <3>1. Cardinality(Pending(i)) \in Nat /\ Given(i)[2] \in Nat
        BY CountsTyped
      <3> QED BY <1>5, <1>7, <1>9, <2>2, <3>1
    <2> QED BY <2>1, <2>2
  <1>10. ASSUME NEW id
         PROVE  /\ IsFiniteSet(Pending(id)')
                /\ Kept(id)'[2] + Cardinality(Pending(id)') <= Given(id)'[2]
    <2>1. IsFiniteSet(Pending(id)')
      BY <1>6, <1>7 DEF CountInv
    <2>2. Kept(id)[2] \in Nat /\ Kept(id)[2] + Cardinality(Pending(id)) <= Given(id)[2]
      BY CountsTyped DEF CountInv
    <2> QED BY <1>8, <1>9, <2>1, <2>2
  <1>11. ASSUME NEW c \in Client
         PROVE  /\ Accepted(c)' => call'[c].id \in DOMAIN given'
                /\ \A id : Writing(c, id)' =>
                       call'[c].sums[2] + Cardinality(Pending(id)') <= Given(id)'[2]
    <2>1. CASE c = b
      BY <1>1, <1>2, <1>3, <1>4, <2>1 DEF Moves, Accepted, Writing
    <2>2. CASE c # b
      <3>1. call'[c] = call[c]
        BY <1>1, <2>2 DEF Moves
      <3>2. Accepted(c)' => call'[c].id \in DOMAIN given'
        BY <1>4, <3>1 DEF Accepted, CountInv
      <3>3. ASSUME NEW id, Writing(c, id)'
            PROVE  call'[c].sums[2] + Cardinality(Pending(id)') <= Given(id)'[2]
        <4>1. Writing(c, id)
          BY <3>1, <3>3 DEF Writing
        <4>2. call[c].sums[2] \in Nat
          BY <4>1 DEF Writing, Sums, MarketTypes, CallsTypeOK, CallTypeOK
        <4>3. call[c].sums[2] + Cardinality(Pending(id)) <= Given(id)[2]
          BY <4>1 DEF CountInv
        <4> QED BY <1>9, <3>1, <4>2, <4>3
      <3> QED BY <3>2, <3>3
    <2> QED BY <2>1, <2>2
  <1>12. DOMAIN item_ratings' \subseteq DOMAIN given'
    BY <1>4 DEF CountInv
  <1> QED BY <1>10, <1>11, <1>12 DEF CountInv

\* It is no longer when it is in the sums to be written.
LEMMA ReadCounts ==
    ASSUME MarketTypes, Found, CountInv, NEW b \in Client, ReadRatings(b)
    PROVE  CountInv'
  <1>1. PICK i : i = call[b].id
    OBVIOUS
  <1>2. PICK k : Moves(b, k) /\ k.pc = "write" /\ k.id = i
                 /\ k.sums = <<item_ratings[i][1] + call[b].rating, item_ratings[i][2] + 1>>
    BY <1>1, ReadTypes
  <1>3. /\ call[b].pc = "read" /\ i \in DOMAIN item_ratings
        /\ item_ratings' = item_ratings /\ given' = given
    BY <1>1, ReadTypes DEF ratingVars
  <1>4. /\ Pending(i)' = Pending(i) \ {b} /\ b \in Pending(i)
        /\ \A id : id # i => Pending(id)' = Pending(id)
    BY <1>1, <1>2, <1>3 DEF Pending, Moves, Owing
  <1>5. /\ IsFiniteSet(Pending(i)')
        /\ Cardinality(Pending(i)') = Cardinality(Pending(i)) - 1
    BY <1>4, CountsTyped, FS_RemoveElement
  <1>6. \A id : Kept(id)' = Kept(id) /\ Given(id)' = Given(id)
    BY <1>3 DEF Kept, Given
  <1>7. ASSUME NEW n \in Nat, NEW id, n + Cardinality(Pending(id)) <= Given(id)[2]
        PROVE  n + Cardinality(Pending(id)') <= Given(id)'[2]
    <2>1. CASE id # i
      BY <1>4, <1>6, <1>7, <2>1
    <2>2. CASE id = i
      <3>1. Cardinality(Pending(i)) \in Nat /\ Given(i)[2] \in Nat
        BY CountsTyped
      <3> QED BY <1>5, <1>6, <1>7, <2>2, <3>1
    <2> QED BY <2>1, <2>2
  <1>8. ASSUME NEW id
        PROVE  /\ IsFiniteSet(Pending(id)')
               /\ Kept(id)'[2] + Cardinality(Pending(id)') <= Given(id)'[2]
    <2>1. IsFiniteSet(Pending(id)')
      BY <1>4, <1>5 DEF CountInv
    <2>2. Kept(id)[2] \in Nat /\ Kept(id)[2] + Cardinality(Pending(id)) <= Given(id)[2]
      BY CountsTyped DEF CountInv
    <2> QED BY <1>6, <1>7, <2>1, <2>2
  <1>9. k.sums[2] + Cardinality(Pending(i)') <= Given(i)'[2]
    <2>1. PICK p, n, m : p = Cardinality(Pending(i)) /\ n = Kept(i)[2] /\ m = Given(i)[2]
      OBVIOUS
    <2>2. p \in Nat /\ n \in Nat /\ m \in Nat /\ n + p <= m
      BY <2>1, CountsTyped DEF CountInv
    <2>3. k.sums[2] = n + 1
      BY <1>2, <1>3, <2>1 DEF Kept, Get
    <2>4. (n + 1) + (p - 1) <= m
      BY <2>2
    <2> QED BY <1>5, <1>6, <2>1, <2>3, <2>4
  <1>10. ASSUME NEW c \in Client
         PROVE  /\ Accepted(c)' => call'[c].id \in DOMAIN given'
                /\ \A id : Writing(c, id)' =>
                       call'[c].sums[2] + Cardinality(Pending(id)') <= Given(id)'[2]
    <2>1. CASE c = b
      <3>1. i \in DOMAIN given'
        BY <1>3 DEF CountInv
      <3> QED BY <1>2, <1>9, <2>1, <3>1 DEF Moves, Writing
    <2>2. CASE c # b
      <3>1. call'[c] = call[c]
        BY <1>2, <2>2 DEF Moves
      <3>2. Accepted(c)' => call'[c].id \in DOMAIN given'
        BY <1>3, <3>1 DEF Accepted, CountInv
      <3>3. ASSUME NEW id, Writing(c, id)'
            PROVE  call'[c].sums[2] + Cardinality(Pending(id)') <= Given(id)'[2]
        <4>1. Writing(c, id)
          BY <3>1, <3>3 DEF Writing
        <4>2. call[c].sums[2] \in Nat
          BY <4>1 DEF Writing, Sums, MarketTypes, CallsTypeOK, CallTypeOK
        <4>3. call[c].sums[2] + Cardinality(Pending(id)) <= Given(id)[2]
          BY <4>1 DEF CountInv
        <4> QED BY <1>7, <3>1, <4>2, <4>3
      <3> QED BY <3>2, <3>3
    <2> QED BY <2>1, <2>2
  <1>11. DOMAIN item_ratings' \subseteq DOMAIN given'
    BY <1>3 DEF CountInv
  <1> QED BY <1>8, <1>10, <1>11 DEF CountInv

\* Then they are written.
LEMMA WriteCounts ==
    ASSUME MarketTypes, CountInv, NEW b \in Client, WriteRatings(b)
    PROVE  CountInv'
  <1>1. PICK i, s : i = call[b].id /\ s = call[b].sums
    OBVIOUS
  <1>2. PICK k : Moves(b, k) /\ k.pc = "show"
    BY WriteTypes
  <1>3. /\ call[b].pc = "write" /\ given' = given
        /\ item_ratings' = Put(item_ratings, i, s)
    BY <1>1, WriteTypes
  <1>4. \A id : Pending(id)' = Pending(id) /\ Given(id)' = Given(id)
    BY <1>2, <1>3 DEF Pending, Moves, Owing, Given
  <1>5. /\ s[2] + Cardinality(Pending(i)) <= Given(i)[2]
        /\ i \in DOMAIN given
    BY <1>1, <1>3 DEF CountInv, Writing, Accepted
  <1>6. Kept(i)' = s /\ \A id : id # i => Kept(id)' = Kept(id)
    BY <1>3 DEF Kept, Put, Get
  <1>7. \A id : /\ IsFiniteSet(Pending(id)')
               /\ Kept(id)'[2] + Cardinality(Pending(id)') <= Given(id)'[2]
    BY <1>4, <1>5, <1>6 DEF CountInv
  <1>8. \A c \in Client :
            /\ Accepted(c)' => Accepted(c) /\ call'[c].id = call[c].id
            /\ \A id : Writing(c, id)' => Writing(c, id) /\ call'[c].sums = call[c].sums
    BY <1>2 DEF Accepted, Writing, Moves, Owing
  <1>9. DOMAIN item_ratings' \subseteq DOMAIN given'
    BY <1>3, <1>5 DEF Put, CountInv
  <1>10. \A c \in Client : Accepted(c)' => call'[c].id \in DOMAIN given'
    BY <1>3, <1>8 DEF CountInv
  <1>11. \A c \in Client : \A id :
             Writing(c, id)' =>
                 call'[c].sums[2] + Cardinality(Pending(id)') <= Given(id)'[2]
    BY <1>4, <1>8 DEF CountInv
  <1> QED BY <1>7, <1>9, <1>10, <1>11 DEF CountInv

\* Every step keeps CountInv.
LEMMA StepCounts == MarketTypes /\ Found /\ CountInv /\ [Next]_vars => CountInv'
  <1> SUFFICES ASSUME MarketTypes, Found, CountInv, [Next]_vars PROVE CountInv'
    OBVIOUS
  <1>1. ASSUME NEW c \in Client, Step(c) PROVE CountInv'
    <2>1. ASSUME NEW k, Moves(c, k), k.pc \notin Owing \cup {"write"}, call[c].pc \notin Owing,
                 item_ratings' = item_ratings, given' = given
          PROVE  CountInv'
      <3>1. \A id : Kept(id)' = Kept(id)
        BY <2>1 DEF Kept
      <3>2. DOMAIN item_ratings' \subseteq DOMAIN given
        BY <2>1 DEF CountInv
      <3> QED BY <2>1, <3>1, <3>2, CountFrame
    <2>2. CASE NoRating(c)
      <3>1. PICK k : Moves(c, k) /\ Calm(c, k)
        BY <2>2, NoRatingMoves
      <3>2. k.pc \notin Owing \cup {"write"}
        BY <3>1 DEF Calm, AtRating, BeforeSums, Owing
      <3>3. /\ call[c].pc \notin Owing /\ item_ratings' = item_ratings /\ given' = given
        BY <2>2, NoRatingMoves DEF AtRating, BeforeSums, Owing, ratingVars
      <3> QED BY <2>1, <3>1, <3>2, <3>3
    <2>3. CASE ShowRating(c)
      <3>1. Idle.pc \notin Owing \cup {"write"} /\ "show" \notin Owing
        BY DEF Idle, Owing
      <3>2. /\ Moves(c, Idle) /\ call[c].pc \notin Owing
            /\ item_ratings' = item_ratings /\ given' = given
        BY <2>3, <3>1, ShowTypes DEF ratingVars
      <3> QED BY <2>1, <3>1, <3>2
    <2>4. CASE CheckRater(c)
      <3>1. PICK k : Moves(c, k) /\ (k = Idle \/ k.pc = "add")
        BY <2>4, CheckTypes
      <3>2. Idle.pc = "idle" /\ call[c].pc = "check"
        BY <2>4, CheckTypes DEF Idle
      <3>4. k.pc \notin Owing \cup {"write"} /\ call[c].pc \notin Owing
        BY <3>1, <3>2 DEF Owing
      <3>3. item_ratings' = item_ratings /\ given' = given
        BY <2>4, CheckTypes DEF ratingVars
      <3> QED BY <2>1, <3>1, <3>3, <3>4
    <2>5. CASE FindRaters(c) \/ InitRaters(c)
      <3>1. PICK k : Moves(c, k)
        BY <2>5, FirstTypes DEF RatesFirst
      <3>2. k.pc \in {"check", "init raters"} /\ call[c].pc \in {"find raters", "init raters"}
        BY <2>5, <3>1 DEF FindRaters, InitRaters, GoesOn, Moves, MarketTypes, CallsTypeOK,
           CallTypeOK
      <3>3. item_ratings' = item_ratings /\ given' = given
        BY <2>5 DEF FindRaters, InitRaters, ratingVars
      <3> QED BY <2>1, <3>1, <3>2, <3>3 DEF Owing
    <2>6. ASSUME NEW id \in DOMAIN items, NEW r \in Rating, RateItem(c, id, r)
          PROVE  CountInv'
      <3>1. Moves(c, call'[c]) /\ call'[c].pc = "find raters"
        BY <2>6, RateMoves
      <3>2. PICK k : k = call'[c]
        OBVIOUS
      <3>3. call[c].pc = "idle" /\ item_ratings' = item_ratings /\ given' = given
        BY <2>6, RateMoves DEF ratingVars
      <3> QED BY <2>1, <3>1, <3>2, <3>3 DEF Owing
    <2>7. CASE FindRatings(c) \/ InitRatings(c)
      <3>1. PICK k : Moves(c, k) /\ k.id = call[c].id
        BY <2>7, FirstTypes DEF RatesFirst
      <3>2. k.pc \in {"read", "init ratings"} /\ call[c].pc \in {"find ratings", "init ratings"}
        BY <2>7, <3>1 DEF FindRatings, InitRatings, GoesOn, Moves, MarketTypes, CallsTypeOK,
           CallTypeOK
      <3>3. call[c].id \in DOMAIN given /\ given' = given
        BY <2>7, <3>2 DEF CountInv, Accepted, Owing, FindRatings, InitRatings, ratingVars
      <3>4. /\ DOMAIN item_ratings' \subseteq DOMAIN given
            /\ \A id : Kept(id)' = Kept(id) \/ Kept(id)' = <<0, 0>>
        BY <2>7, <3>3 DEF CountInv, FindRatings, InitRatings, NoRatings, ratingVars, Kept, Get,
           Put
      <3>5. k.pc # "write" /\ k.pc \in Owing /\ call[c].pc \in Owing
        BY <3>2 DEF Owing
      <3> QED BY <3>1, <3>3, <3>4, <3>5, CountFrame
    <2> QED BY <1>1, <2>2, <2>3, <2>4, <2>5, <2>6, <2>7, AddCounts, ReadCounts, WriteCounts
            DEF Step, RatesOn, RatesFirst
  <1>2. CASE (\E c \in Client : Reconnect(c)) \/ UNCHANGED vars
    <2>1. UNCHANGED <<call, item_ratings, given>>
      BY <1>2 DEF Reconnect, vars, ratingVars
    <2> QED BY <2>1 DEF CountInv, Kept, Given, Pending, Accepted, Writing
  <1> QED BY <1>1, <1>2, StepKinds

\* Another rating leaves a mean a mean.
LEMMA MeanGrows ==
    ASSUME NEW total \in Int, NEW num \in Nat, NEW r \in Rating, Mean(<<total, num>>)
    PROVE  Mean(<<total + r, num + 1>>)
  <1>0. Rating \subseteq Int
    BY MarketAssumption
  <1>1. PICK low, high \in Rating : total \in (low * num)..(high * num)
    BY DEF Mean
  <1>2. \A a, b \in Int : a <= b => a * num <= b * num
    OBVIOUS
  <1>3. \A a \in Int : a * (num + 1) = a * num + a
    OBVIOUS
  <1>4. PICK least \in Rating : least <= low /\ least <= r
    BY <1>0
  <1>5. PICK most \in Rating : high <= most /\ r <= most
    BY <1>0
  <1>6. PICK a, b, c, d \in Int : /\ a = least * num /\ b = low * num
                               /\ c = high * num /\ d = most * num
    BY <1>0
  <1>7. a <= b /\ c <= d
    BY <1>0, <1>2, <1>4, <1>5, <1>6
  <1>8. b <= total /\ total <= c
    BY <1>1, <1>6
  <1>9. a + least <= total + r /\ total + r <= d + most
    BY <1>0, <1>4, <1>5, <1>7, <1>8
  <1>10. least * (num + 1) = a + least /\ most * (num + 1) = d + most
    BY <1>0, <1>3, <1>6
  <1>11. total + r \in (least * (num + 1))..(most * (num + 1))
    <2>1. a + least \in Int /\ d + most \in Int /\ total + r \in Int
      BY <1>0
    <2> QED BY <1>9, <1>10, <2>1
  <1> QED BY <1>11 DEF Mean

\* Every step keeps the means.
LEMMA StepMeans == MarketTypes /\ Found /\ MeanInv /\ [Next]_vars => MeanInv'
  <1> SUFFICES ASSUME MarketTypes, Found, MeanInv, [Next]_vars PROVE MeanInv'
    OBVIOUS
  <1>1. ASSUME NEW c \in Client, NEW k, Moves(c, k), k.pc = "write" => Mean(k.sums),
               \A id \in DOMAIN item_ratings' :
                   Mean(item_ratings'[id])
                   \/ (id \in DOMAIN item_ratings /\ item_ratings'[id] = item_ratings[id])
        PROVE  MeanInv'
    BY <1>1 DEF MeanInv, Moves
  <1>2. ASSUME NEW c \in Client, Step(c) PROVE MeanInv'
    <2>1. ASSUME NEW k, Moves(c, k), k = Idle \/ k.pc # "write", item_ratings' = item_ratings
          PROVE  MeanInv'
      <3>1. k.pc # "write"
        BY <2>1 DEF Idle
      <3> QED BY <1>1, <2>1, <3>1
    <2>2. CASE NoRating(c)
      <3>1. PICK k : Moves(c, k) /\ Calm(c, k)
        BY <2>2, NoRatingMoves
      <3>2. k.pc # "write" /\ item_ratings' = item_ratings
        BY <2>2, <3>1, NoRatingMoves DEF Calm, AtRating, ratingVars
      <3> QED BY <2>1, <3>1, <3>2
    <2>3. CASE ShowRating(c)
      BY <2>1, <2>3, ShowTypes DEF ratingVars
    <2>4. CASE CheckRater(c)
      <3>1. PICK k : Moves(c, k) /\ (k = Idle \/ k.pc = "add")
        BY <2>4, CheckTypes
      <3>2. item_ratings' = item_ratings
        BY <2>4, CheckTypes DEF ratingVars
      <3> QED BY <2>1, <3>1, <3>2
    <2>5. ASSUME NEW id \in DOMAIN items, NEW r \in Rating, RateItem(c, id, r)
          PROVE  MeanInv'
      <3>1. Moves(c, call'[c]) /\ call'[c].pc = "find raters" /\ item_ratings' = item_ratings
        BY <2>5, RateMoves DEF ratingVars
      <3>2. PICK k : k = call'[c]
        OBVIOUS
      <3> QED BY <2>1, <3>1, <3>2
    <2>6. CASE RatesFirst(c)
      <3>1. PICK k : Moves(c, k) /\ k.pc \in BeforeSums
        BY <2>6, FirstTypes
      <3>2. k.pc # "write"
        BY <3>1 DEF BeforeSums
      <3>3. CASE InitRatings(c)
        <4>1. PICK r : r = call[c].rating
          OBVIOUS
        <4>2. r \in Rating
          BY <3>3, <4>1 DEF InitRatings, GoesOn, BeforeSums, MarketTypes, CallsTypeOK, CallTypeOK
        <4>3. Mean(<<0, 0>>)
          <5>1. r \in Int
            BY <4>2
          <5>2. 0 \in (r * 0)..(r * 0)
            BY <5>1
          <5> QED BY <4>2, <5>2 DEF Mean
        <4>4. \A id \in DOMAIN item_ratings' :
                  Mean(item_ratings'[id])
                  \/ (id \in DOMAIN item_ratings /\ item_ratings'[id] = item_ratings[id])
          BY <3>3, <4>3 DEF InitRatings, NoRatings, Put
        <4> QED BY <1>1, <3>1, <3>2, <4>4
      <3>4. CASE ~InitRatings(c)
        <4>1. item_ratings' = item_ratings
          BY <2>6, <3>4 DEF RatesFirst, FindRaters, InitRaters, AddRater, FindRatings, ratingVars
        <4> QED BY <2>1, <3>1, <3>2, <4>1
      <3> QED BY <3>3, <3>4
    <2>7. CASE ReadRatings(c)
      <3>1. PICK r, s : r = call[c].rating /\ s = item_ratings[call[c].id]
        OBVIOUS
      <3>2. PICK k : Moves(c, k) /\ k.sums = <<s[1] + r, s[2] + 1>>
        BY <2>7, <3>1, ReadTypes
      <3>3. r \in Rating /\ s \in Int \X Nat /\ Mean(s) /\ item_ratings' = item_ratings
        BY <2>7, <3>1, ReadTypes DEF MeanInv, ratingVars
      <3>4. Mean(<<s[1], s[2]>>)
        BY <3>3 DEF Mean
      <3>5. s[1] \in Int /\ s[2] \in Nat
        BY <3>3
      <3>6. Mean(k.sums)
        BY <3>2, <3>3, <3>4, <3>5, MeanGrows
      <3> QED BY <1>1, <3>2, <3>3, <3>6
    <2>8. CASE WriteRatings(c)
      <3>1. PICK k : Moves(c, k) /\ k.pc = "show"
        BY <2>8, WriteTypes
      <3>2. Mean(call[c].sums) /\ item_ratings' = Put(item_ratings, call[c].id, call[c].sums)
        BY <2>8, WriteTypes DEF MeanInv
      <3>3. \A id \in DOMAIN item_ratings' :
                Mean(item_ratings'[id])
                \/ (id \in DOMAIN item_ratings /\ item_ratings'[id] = item_ratings[id])
        BY <3>2 DEF Put
      <3> QED BY <1>1, <3>1, <3>3
    <2> QED BY <1>2, <2>2, <2>3, <2>4, <2>5, <2>6, <2>7, <2>8 DEF Step, RatesOn
  <1>3. CASE (\E c \in Client : Reconnect(c)) \/ UNCHANGED vars
    BY <1>3 DEF Reconnect, vars, ratingVars, MeanInv
  <1> QED BY <1>2, <1>3, StepKinds

\* CountInv and the means hold in every reachable state.
LEMMA RatingsHold == Spec => [](CountInv /\ MeanInv)
  <1>1. Init => CountInv /\ MeanInv
    <2> SUFFICES ASSUME Init PROVE CountInv /\ MeanInv
      OBVIOUS
    <2>1. DOMAIN item_ratings = {} /\ DOMAIN given = {}
      BY DEF Init
    <2>2. \A c \in Client : call[c].pc = "idle"
      BY DEF Init, Idle
    <2>3. \A id : Pending(id) = {} /\ Kept(id) = <<0, 0>> /\ Given(id) = <<0, 0>>
      BY <2>1, <2>2 DEF Pending, Owing, Kept, Given, Get
    <2>4. IsFiniteSet({}) /\ Cardinality({}) = 0
      BY FS_EmptySet
    <2>5. \A id : IsFiniteSet(Pending(id)) /\ Kept(id)[2] + Cardinality(Pending(id)) <= Given(id)[2]
      BY <2>3, <2>4
    <2>6. \A c \in Client : ~Accepted(c) /\ \A id : ~Writing(c, id)
      BY <2>2 DEF Accepted, Writing, Owing
    <2> QED BY <2>1, <2>2, <2>5, <2>6 DEF CountInv, MeanInv
  <1>2. CountInv /\ MeanInv /\ Typed /\ [Next]_vars => (CountInv /\ MeanInv)'
    BY StepCounts, StepMeans DEF Typed
  <1> QED BY <1>1, <1>2, MarketTyped, PTL DEF Spec

\* However the threads that rate an item are interrupted, whether they overwrite each
\* other's sums or begin the item's ratings or raters anew, RateItem never counts more
\* ratings than it accepted, and the mean of those it counts is between two that buyers gave.
THEOREM NeverInvented == Spec => []RatingsNeverInvented
  <1>1. Typed /\ CountInv /\ MeanInv => RatingsNeverInvented
    <2> SUFFICES ASSUME MarketTypes, CountInv, MeanInv, NEW id \in DOMAIN item_ratings
                 PROVE  /\ item_ratings[id][2] <= given[id][2]
                        /\ Mean(item_ratings[id])
      BY DEF Typed, RatingsNeverInvented, Mean
    <2>1. PICK p, n, m : p = Cardinality(Pending(id)) /\ n = Kept(id)[2] /\ m = Given(id)[2]
      OBVIOUS
    <2>2. p \in Nat /\ n \in Nat /\ m \in Nat /\ n + p <= m
      BY <2>1, CountsTyped DEF CountInv
    <2>3. n <= m
      BY <2>2
    <2>4. n = item_ratings[id][2] /\ m = given[id][2]
      BY <2>1 DEF Kept, Given, Get, CountInv
    <2> QED BY <2>3, <2>4 DEF MeanInv
  <1> QED BY <1>1, MarketTyped, RatingsHold, PTL
-----------------------------------------------------------------------------
(* Nothing is sold that is not there. *)

\* As long as no thread was interrupted, whoever has checked the stock finds it.
StockInv ==
    ~preempted =>
        /\ \A n \in 1..Len(objects) : objects[n].quantity >= 0
        /\ \A b \in Client :
               call[b].pc = "take" => objects[call[b].object].quantity >= call[b].quantity

\* A thread that is not interrupting another finds all others waiting.
LEMMA OthersWait ==
    ASSUME NEW c \in Client, Step(c), ~preempted'
    PROVE  ~preempted /\ \A d \in Client \ {c} : call[d].pc \in Waits
  <1>1. Runs(c)
    BY StepRuns
  <1> QED BY <1>1 DEF Runs

\* No step makes a quantity negative.
LEMMA StockStays ==
    ASSUME MarketTypes, StockInv, NEW c \in Client, Step(c), ~preempted'
    PROVE  \A n \in 1..Len(objects') : objects'[n].quantity >= 0
  <1>0. /\ objects \in Seq(Objects) /\ Len(objects) \in Nat
        /\ \A n \in 1..Len(objects) : objects[n] \in Objects
    BY ObjectsTyped DEF MarketTypes, StoreTypeOK
  <1>1. ~preempted /\ \A n \in 1..Len(objects) : objects[n].quantity >= 0
    BY OthersWait DEF StockInv
  <1>2. CASE objects' = objects
    BY <1>1, <1>2
  <1>3. ASSUME NEW n \in 1..Len(objects), NEW o, o.quantity >= 0,
               objects' = [objects EXCEPT ![n] = o]
        PROVE  \A m \in 1..Len(objects') : objects'[m].quantity >= 0
    BY <1>0, <1>1, <1>3
  <1>4. ASSUME NEW q \in Quantity, SellItem(c, q)
        PROVE  \A m \in 1..Len(objects') : objects'[m].quantity >= 0
    <2>1. PICK o : o = [id |-> item_id_counter, quantity |-> q, rating |-> <<0, 0>>,
                        seller_address |-> peer(c)]
      OBVIOUS
    <2>2. objects' = Append(objects, o) /\ o.quantity = q /\ q >= 0
      BY <1>4, <2>1 DEF SellItem
    <2>3. /\ Len(objects') = Len(objects) + 1 /\ objects'[Len(objects) + 1] = o
          /\ \A m \in 1..Len(objects) : objects'[m] = objects[m]
      BY <1>0, <2>2
    <2> QED BY <1>0, <1>1, <2>2, <2>3
  <1>5. ASSUME NEW id \in DOMAIN items, NEW q \in Quantity, UpdateItem(c, id, q)
        PROVE  \A m \in 1..Len(objects') : objects'[m].quantity >= 0
    <2>1. PICK n : n = items[id]
      OBVIOUS
    <2>2. n \in 1..Len(objects)
      BY <2>1 DEF MarketTypes, StoreTypeOK
    <2>3. PICK o : o = [objects[n] EXCEPT !.quantity = q, !.seller_address = peer(c)]
      OBVIOUS
    <2>4. objects' = [objects EXCEPT ![n] = o]
      BY <1>0, <1>5, <2>1, <2>2, <2>3 DEF UpdateItem
    <2>5. o.quantity = q /\ q >= 0
      BY <1>0, <2>2, <2>3 DEF Objects
    <2> QED BY <1>3, <2>2, <2>4, <2>5
  <1>6. CASE TakeItem(c)
    <2>1. PICK n : n = call[c].object
      OBVIOUS
    <2>2. n \in 1..Len(objects) /\ call[c].quantity \in Nat /\ objects[n] \in Objects
      BY <1>0, <1>6, <2>1 DEF TakeItem, MarketTypes, CallsTypeOK, CallTypeOK
    <2>3. PICK o : o = [objects[n] EXCEPT !.quantity = @ - call[c].quantity]
      OBVIOUS
    <2>4. objects' = [objects EXCEPT ![n] = o]
      BY <1>0, <1>6, <2>1, <2>2, <2>3 DEF TakeItem
    <2>5. objects[n].quantity >= call[c].quantity
      BY <1>1, <1>6, <2>1 DEF StockInv, TakeItem
    <2>6. o.quantity = objects[n].quantity - call[c].quantity /\ objects[n].quantity \in Int
      BY <2>2, <2>3 DEF Objects
    <2>7. o.quantity >= 0
      BY <2>2, <2>5, <2>6
    <2> QED BY <1>3, <2>2, <2>4, <2>7
  <1>7. CASE ShowRating(c)
    <2>1. CASE call[c].id \notin DOMAIN items
      BY <1>2, <1>7, <2>1 DEF ShowRating
    <2>2. CASE call[c].id \in DOMAIN items
      <3>1. PICK n : n = items[call[c].id]
        OBVIOUS
      <3>2. n \in 1..Len(objects) /\ objects[n] \in Objects
        BY <1>0, <2>2, <3>1 DEF MarketTypes, StoreTypeOK
      <3>3. PICK o : o = [objects[n] EXCEPT !.rating = call[c].sums]
        OBVIOUS
      <3>4. objects' = [objects EXCEPT ![n] = o]
        BY <1>0, <1>7, <2>2, <3>1, <3>2, <3>3 DEF ShowRating
      <3>5. o.quantity = objects[n].quantity
        BY <3>2, <3>3 DEF Objects
      <3> QED BY <1>1, <1>3, <3>2, <3>4, <3>5
    <2> QED BY <2>1, <2>2
  <1>8. CASE \/ RegisterSeller(c) \/ StoreItem(c) \/ CountItem(c) \/ NextWisher(c)
             \/ BuyerTold(c) \/ SellerTold(c)
             \/ \E id \in DOMAIN items : DeleteItem(c, id) \/ AddToWishList(c, id)
             \/ \E id \in DOMAIN items, q \in Quantity : BuyItem(c, id, q)
    BY <1>2, <1>8 DEF RegisterSeller, StoreItem, CountItem, NextWisher, BuyerTold,
       SellerTold, DeleteItem, AddToWishList, BuyItem, storeVars
  <1>9. CASE \/ RatesOn(c)
             \/ \E id \in DOMAIN items, r \in Rating : RateItem(c, id, r)
    BY <1>2, <1>9, RatesMove, RateMoves DEF storeVars
  <1> QED BY <1>4, <1>5, <1>6, <1>7, <1>8, <1>9 DEF Step, NoRating

\* Every step keeps StockInv.
LEMMA StepStock == MarketTypes /\ StockInv /\ [Next]_vars => StockInv'
  <1> SUFFICES ASSUME MarketTypes, StockInv, [Next]_vars PROVE StockInv'
    OBVIOUS
  <1>1. ASSUME NEW c \in Client, Step(c), ~preempted' PROVE StockInv'
    <2>1. \A d \in Client \ {c} : call'[d].pc # "take"
      BY <1>1, OthersWait, StepMoves DEF Waits
    <2>2. CASE call'[c].pc = "take"
      <3>1. PICK id \in DOMAIN items, q \in Quantity : BuyItem(c, id, q)
        BY <1>1, <2>2, StepMoves DEF Checks
      <3>2. PICK k : k = [pc |-> "take", object |-> items[id], quantity |-> q]
        OBVIOUS
      <3>3. Moves(c, k) /\ objects' = objects /\ objects[items[id]].quantity >= q
        BY <3>1, <3>2, OneCallMoves DEF BuyItem, EnoughStock, storeVars
      <3>4. objects'[call'[c].object].quantity >= call'[c].quantity
        BY <3>2, <3>3 DEF Moves
      <3> QED BY <1>1, <2>1, <3>4, StockStays DEF StockInv
    <2>3. CASE call'[c].pc # "take"
      BY <1>1, <2>1, <2>3, StockStays DEF StockInv
    <2> QED BY <2>2, <2>3
  <1>2. CASE (\E c \in Client : Reconnect(c)) \/ UNCHANGED vars
    BY <1>2 DEF Reconnect, vars, storeVars, StockInv
  <1>3. CASE preempted'
    BY <1>3 DEF StockInv
  <1> QED BY <1>1, <1>2, <1>3, StepKinds

\* BuyItem never sells what is not there while no thread comes between its check of the
\* stock and the sale, whatever else happens and however many buy.
THEOREM NotOversold == Spec => []NeverOversold
  <1>1. Init => StockInv
    BY DEF Init, StockInv, Idle
  <1>2. StockInv => NeverOversold
    BY DEF StockInv, NeverOversold
  <1> QED BY <1>1, <1>2, MarketTyped, StepStock, PTL DEF Spec, Typed
-----------------------------------------------------------------------------
(* A successful update has told everybody. *)

\* Who wished for the item when it was updated still does, and a call that ended with
\* success missed nobody.
Telling(c, id) == call[c].pc \in {"next", "tell buyer"} /\ call[c].id = id
TellInv ==
    \A c \in Client :
        /\ \A id : Telling(c, id) => call[c].wishers \subseteq Wishers(id)
        /\ call[c].pc = "idle" /\ call[c].result = "SUCCESS" => call[c].missed = {}

\* Wishes are only added.
LEMMA WishesGrow ==
    ASSUME MarketTypes, NEW c \in Client, Step(c)
    PROVE  \A id : Wishers(id) \subseteq Wishers(id)'
  <1>1. CASE wishlists' = wishlists
    BY <1>1 DEF Wishers
  <1>2. ASSUME NEW i \in DOMAIN items, AddToWishList(c, i)
        PROVE  \A id : Wishers(id) \subseteq Wishers(id)'
    BY <1>2 DEF AddToWishList, Put, Get, Wishers
  <1>3. CASE NoRating(c) /\ ~\E i \in DOMAIN items : AddToWishList(c, i)
    BY <1>1, <1>3 DEF NoRating, RegisterSeller, StoreItem, CountItem, NextWisher, BuyerTold,
       TakeItem, SellerTold, SellItem, DeleteItem, UpdateItem, BuyItem
  <1>4. CASE \/ RatesOn(c) \/ ShowRating(c)
             \/ \E id \in DOMAIN items, r \in Rating : RateItem(c, id, r)
    BY <1>1, <1>4, RatesMove, ShowTypes, RateMoves
  <1> QED BY <1>2, <1>3, <1>4 DEF Step

\* What the walk of an update makes of its own call.
LEMMA WalkTells ==
    ASSUME MarketTypes, TellInv, NEW c \in Client, NextWisher(c)
    PROVE  /\ \A id : Telling(c, id)' => call'[c].wishers \subseteq Wishers(id)
           /\ call'[c].pc = "idle" /\ call'[c].result = "SUCCESS" => call'[c].missed = {}
  <1>0. /\ call[c].pc = "next" /\ {"pc", "id", "visited", "wishers"} \subseteq DOMAIN call[c]
        /\ DOMAIN call = Client
    BY DEF NextWisher, MarketTypes, CallsTypeOK, CallTypeOK
  <1>1. CASE call' = [call EXCEPT ![c] =
                          Ended("UpdateItem", "ERROR", call[c].wishers \ call[c].visited)]
    BY <1>0, <1>1 DEF Ended, Telling
  <1>2. CASE /\ Unvisited(call[c]) = {}
             /\ call' = [call EXCEPT ![c] =
                          Ended("UpdateItem", "SUCCESS", call[c].wishers \ call[c].visited)]
    <2>1. PICK i : i = call[c].id
      OBVIOUS
    <2>2. call[c].wishers \subseteq Wishers(i)
      BY <1>0, <2>1 DEF TellInv, Telling
    <2>3. Wishers(i) \subseteq call[c].visited
      BY <1>2, <2>1 DEF Unvisited
    <2>4. call[c].wishers \ call[c].visited = {}
      BY <2>2, <2>3
    <2> QED BY <1>0, <1>2, <2>4 DEF Ended, Telling
  <1>3. ASSUME NEW v, call' = [call EXCEPT ![c].pc = "tell buyer", ![c].visited = v]
        PROVE  /\ \A id : Telling(c, id)' => call'[c].wishers \subseteq Wishers(id)
               /\ call'[c].pc # "idle"
    <2>1. /\ call'[c].wishers = call[c].wishers /\ call'[c].id = call[c].id
          /\ call'[c].pc = "tell buyer"
      BY <1>0, <1>3
    <2> QED BY <1>0, <2>1 DEF TellInv, Telling
  <1> QED BY <1>1, <1>2, <1>3 DEF NextWisher

\* What the other steps make of theirs.
LEMMA OthersTell ==
    ASSUME MarketTypes, TellInv, NEW c \in Client, Step(c), ~NextWisher(c)
    PROVE  /\ \A id : Telling(c, id)' => call'[c].wishers \subseteq Wishers(id)
           /\ call'[c].pc = "idle" /\ call'[c].result = "SUCCESS" => call'[c].missed = {}
  <1>0. DOMAIN call = Client
    BY DEF MarketTypes, CallsTypeOK
  <1>1. CASE BuyerTold(c)
    <2>1. {"pc", "id", "visited", "wishers"} \subseteq DOMAIN call[c]
      BY <1>1 DEF BuyerTold, MarketTypes, CallsTypeOK, CallTypeOK
    <2>2. /\ call'[c].wishers = call[c].wishers /\ call'[c].id = call[c].id
          /\ call'[c].pc = "next"
      BY <1>0, <1>1, <2>1 DEF BuyerTold
    <2> QED BY <1>1, <2>2 DEF TellInv, Telling, BuyerTold
  <1>2. ASSUME NEW i \in DOMAIN items, NEW q \in Quantity, UpdateItem(c, i, q)
        PROVE  /\ \A id : Telling(c, id)' => call'[c].wishers \subseteq Wishers(id)
               /\ call'[c].pc # "idle"
    <2>1. PICK k : k = [pc |-> "next", id |-> i, visited |-> {}, wishers |-> Wishers(i),
                        size |-> Cardinality(DOMAIN wishlists)]
      OBVIOUS
    <2>2. call'[c] = k
      BY <1>0, <1>2, <2>1 DEF UpdateItem
    <2>3. call'[c].pc = "next" /\ call'[c].id = i /\ call'[c].wishers = Wishers(i)
      BY <2>1, <2>2
    <2> QED BY <2>3 DEF Telling
  <1>3. CASE \/ RegisterSeller(c) \/ CountItem(c) \/ SellerTold(c) \/ ShowRating(c)
             \/ \E i \in DOMAIN items : DeleteItem(c, i) \/ AddToWishList(c, i)
    <2>1. call'[c] = Idle
      BY <1>0, <1>3 DEF RegisterSeller, CountItem, SellerTold, ShowRating, DeleteItem,
         AddToWishList
    <2> QED BY <2>1 DEF Idle, Telling
  <1>4. CASE StoreItem(c)
    <2>1. call'[c].pc = "count"
      BY <1>0, <1>4 DEF StoreItem
    <2> QED BY <2>1 DEF Telling
  <1>5. CASE TakeItem(c)
    <2>1. \/ call'[c] = [pc |-> "tell seller"]
          \/ call'[c] = Ended("BuyItem", "ERROR", {})
      BY <1>0, <1>5 DEF TakeItem
    <2>2. CASE call'[c] = [pc |-> "tell seller"]
      <3>1. PICK k : k = [pc |-> "tell seller"]
        OBVIOUS
      <3>2. k.pc = "tell seller"
        BY <3>1
      <3> QED BY <2>2, <3>1, <3>2 DEF Telling
    <2>3. CASE call'[c] = Ended("BuyItem", "ERROR", {})
      <3>1. call'[c].pc = "idle" /\ call'[c].missed = {}
        BY <2>3 DEF Ended
      <3> QED BY <3>1 DEF Telling
    <2> QED BY <2>1, <2>2, <2>3
  <1>6. CASE RatesOn(c)
    <2>1. PICK k : Moves(c, k) /\ (k = Idle \/ k.pc = "show" \/ k.pc \in AtRating)
      BY <1>6, RatesMove
    <2>2. CASE k = Idle
      BY <2>1, <2>2 DEF Moves, Idle, Telling
    <2>3. CASE k.pc = "show" \/ k.pc \in AtRating
      BY <2>1, <2>3 DEF Moves, Telling, AtRating, BeforeSums
    <2> QED BY <2>1, <2>2, <2>3
  <1>8. ASSUME NEW q \in Quantity, SellItem(c, q) PROVE call'[c].pc = "store"
    BY <1>0, <1>8 DEF SellItem
  <1>9. ASSUME NEW i \in DOMAIN items, NEW q \in Quantity, BuyItem(c, i, q)
        PROVE  call'[c].pc = "take"
    BY <1>0, <1>9 DEF BuyItem
  <1>10. ASSUME NEW i \in DOMAIN items, NEW r \in Rating, RateItem(c, i, r)
         PROVE  call'[c].pc = "find raters"
    BY <1>10, RateMoves
  <1>11. CASE call'[c].pc \in {"store", "take", "find raters"}
    BY <1>11 DEF Telling
  <1> QED BY <1>1, <1>2, <1>3, <1>4, <1>5, <1>6, <1>8, <1>9, <1>10, <1>11
          DEF Step, NoRating

\* Every step keeps TellInv.
LEMMA StepTells == MarketTypes /\ TellInv /\ [Next]_vars => TellInv'
  <1> SUFFICES ASSUME MarketTypes, TellInv, [Next]_vars PROVE TellInv'
    OBVIOUS
  <1>1. ASSUME NEW c \in Client, Step(c) PROVE TellInv'
    <2>1. \A id : Wishers(id) \subseteq Wishers(id)'
      BY <1>1, WishesGrow
    <2>2. /\ \A id : Telling(c, id)' => call'[c].wishers \subseteq Wishers(id)
          /\ call'[c].pc = "idle" /\ call'[c].result = "SUCCESS" => call'[c].missed = {}
      BY <1>1, WalkTells, OthersTell
    <2>3. \A d \in Client \ {c} :
              /\ \A id : Telling(d, id)' => call'[d].wishers \subseteq Wishers(id)
              /\ call'[d].pc = "idle" /\ call'[d].result = "SUCCESS" => call'[d].missed = {}
      BY <1>1, StepMoves DEF TellInv, Telling
    <2>4. \A d \in Client :
              /\ \A id : Telling(d, id)' => call'[d].wishers \subseteq Wishers(id)'
              /\ call'[d].pc = "idle" /\ call'[d].result = "SUCCESS" => call'[d].missed = {}
      BY <2>1, <2>2, <2>3
    <2> QED BY <2>4 DEF TellInv
  <1>2. CASE (\E c \in Client : Reconnect(c)) \/ UNCHANGED vars
    BY <1>2 DEF Reconnect, vars, TellInv, Telling, Wishers
  <1> QED BY <1>1, <1>2, StepKinds

\* When UpdateItem answers SUCCESS, it has notified every buyer who wished for the item
\* when it was updated, however the wishlists changed during its walk through them.
THEOREM SuccessNotifies == Spec => []SuccessMeansNotified
  <1>1. Init => TellInv
    <2> SUFFICES ASSUME Init, NEW c \in Client
                 PROVE  call[c].pc = "idle" /\ call[c].result = "none"
      BY DEF TellInv, Telling
    <2>1. call[c] = Idle
      BY DEF Init
    <2> QED BY <2>1 DEF Idle
  <1>2. TellInv => SuccessMeansNotified
    BY DEF TellInv, SuccessMeansNotified
  <1> QED BY <1>1, <1>2, MarketTyped, StepTells, PTL DEF Spec, Typed
-----------------------------------------------------------------------------
(* No purchase ends in a KeyError. *)

\* As long as no seller's channel was connected anew, sellers are registered at the only
\* address they have, and items hold such addresses.
AddressInv ==
    (\A s \in Seller : connection[s] = 0) =>
        /\ \A a \in sellers : a[1] \in Seller /\ a = <<a[1], 0>>
        /\ \A n \in 1..Len(objects) : objects[n].seller_address \in sellers
        /\ \A c \in Client : ~(call[c].pc = "idle" /\ call[c].op = "BuyItem"
                                  /\ call[c].result = "ERROR")

\* A seller the platform knows sells from a registered address.
LEMMA KnownAddress ==
    ASSUME AddressInv, \A s \in Seller : connection[s] = 0, NEW s \in Client, KnownSeller(s)
    PROVE  peer(s) \in sellers
  <1>1. PICK a \in sellers : a[1] = s
    BY DEF KnownSeller
  <1>2. s \in Seller /\ a = <<s, 0>>
    BY <1>1 DEF AddressInv
  <1>3. connection[s] = 0
    BY <1>2
  <1> QED BY <1>2, <1>3 DEF peer

\* No step puts an unregistered address into an item.
LEMMA ItemsKnown ==
    ASSUME MarketTypes, AddressInv, \A s \in Seller : connection[s] = 0,
           NEW c \in Client, Step(c)
    PROVE  \A n \in 1..Len(objects') : objects'[n].seller_address \in sellers'
  <1>0. /\ objects \in Seq(Objects) /\ Len(objects) \in Nat
        /\ \A n \in 1..Len(objects) : objects[n] \in Objects
    BY ObjectsTyped DEF MarketTypes, StoreTypeOK
  <1>1. \A n \in 1..Len(objects) : objects[n].seller_address \in sellers
    BY DEF AddressInv
  <1>2. sellers \subseteq sellers'
    <2>1. CASE NoRating(c)
      BY <2>1 DEF NoRating, RegisterSeller, StoreItem, CountItem, NextWisher, BuyerTold,
         TakeItem, SellerTold, SellItem, DeleteItem, AddToWishList, UpdateItem, BuyItem
    <2>2. CASE ~NoRating(c)
      BY <2>2, RatesMove, ShowTypes, RateMoves DEF Step
    <2> QED BY <2>1, <2>2
  <1>3. CASE objects' = objects
    BY <1>1, <1>2, <1>3
  <1>4. ASSUME NEW n \in 1..Len(objects), NEW o, o.seller_address \in sellers,
               objects' = [objects EXCEPT ![n] = o]
        PROVE  \A m \in 1..Len(objects') : objects'[m].seller_address \in sellers'
    BY <1>0, <1>1, <1>2, <1>4
  <1>5. ASSUME NEW q \in Quantity, SellItem(c, q)
        PROVE  \A m \in 1..Len(objects') : objects'[m].seller_address \in sellers'
    <2>1. PICK o : o = [id |-> item_id_counter, quantity |-> q, rating |-> <<0, 0>>,
                        seller_address |-> peer(c)]
      OBVIOUS
    <2>2. objects' = Append(objects, o) /\ o.seller_address = peer(c)
      BY <1>5, <2>1 DEF SellItem
    <2>3. peer(c) \in sellers'
      BY <1>2, <1>5, KnownAddress DEF SellItem
    <2>4. /\ Len(objects') = Len(objects) + 1 /\ objects'[Len(objects) + 1] = o
          /\ \A m \in 1..Len(objects) : objects'[m] = objects[m]
      BY <1>0, <2>2
    <2> QED BY <1>0, <1>1, <1>2, <2>2, <2>3, <2>4
  <1>6. ASSUME NEW id \in DOMAIN items, NEW q \in Quantity, UpdateItem(c, id, q)
        PROVE  \A m \in 1..Len(objects') : objects'[m].seller_address \in sellers'
    <2>1. PICK n : n = items[id]
      OBVIOUS
    <2>2. n \in 1..Len(objects)
      BY <2>1 DEF MarketTypes, StoreTypeOK
    <2>3. PICK o : o = [objects[n] EXCEPT !.quantity = q, !.seller_address = peer(c)]
      OBVIOUS
    <2>4. objects' = [objects EXCEPT ![n] = o]
      BY <1>0, <1>6, <2>1, <2>2, <2>3 DEF UpdateItem
    <2>5. o.seller_address = peer(c)
      BY <1>0, <2>2, <2>3 DEF Objects
    <2>6. peer(c) \in sellers
      BY <1>6, KnownAddress DEF UpdateItem
    <2> QED BY <1>4, <2>2, <2>4, <2>5, <2>6
  <1>7. CASE TakeItem(c)
    <2>1. PICK n : n = call[c].object
      OBVIOUS
    <2>2. n \in 1..Len(objects) /\ objects[n] \in Objects
      BY <1>0, <1>7, <2>1 DEF TakeItem, MarketTypes, CallsTypeOK, CallTypeOK
    <2>3. PICK o : o = [objects[n] EXCEPT !.quantity = @ - call[c].quantity]
      OBVIOUS
    <2>4. objects' = [objects EXCEPT ![n] = o]
      BY <1>0, <1>7, <2>1, <2>2, <2>3 DEF TakeItem
    <2>5. o.seller_address = objects[n].seller_address
      BY <2>2, <2>3 DEF Objects
    <2> QED BY <1>1, <1>4, <2>2, <2>4, <2>5
  <1>8. CASE ShowRating(c)
    <2>1. CASE call[c].id \notin DOMAIN items
      BY <1>3, <1>8, <2>1 DEF ShowRating
    <2>2. CASE call[c].id \in DOMAIN items
      <3>1. PICK n : n = items[call[c].id]
        OBVIOUS
      <3>2. n \in 1..Len(objects) /\ objects[n] \in Objects
        BY <1>0, <2>2, <3>1 DEF MarketTypes, StoreTypeOK
      <3>3. PICK o : o = [objects[n] EXCEPT !.rating = call[c].sums]
        OBVIOUS
      <3>4. objects' = [objects EXCEPT ![n] = o]
        BY <1>0, <1>8, <2>2, <3>1, <3>2, <3>3 DEF ShowRating
      <3>5. o.seller_address = objects[n].seller_address
        BY <3>2, <3>3 DEF Objects
      <3> QED BY <1>1, <1>4, <3>2, <3>4, <3>5
    <2> QED BY <2>1, <2>2
  <1>9. CASE \/ RegisterSeller(c) \/ StoreItem(c) \/ CountItem(c) \/ NextWisher(c)
             \/ BuyerTold(c) \/ SellerTold(c)
             \/ \E id \in DOMAIN items : DeleteItem(c, id) \/ AddToWishList(c, id)
             \/ \E id \in DOMAIN items, q \in Quantity : BuyItem(c, id, q)
    BY <1>3, <1>9 DEF RegisterSeller, StoreItem, CountItem, NextWisher, BuyerTold,
       SellerTold, DeleteItem, AddToWishList, BuyItem, storeVars
  <1>10. CASE \/ RatesOn(c)
              \/ \E id \in DOMAIN items, r \in Rating : RateItem(c, id, r)
    BY <1>3, <1>10, RatesMove, RateMoves DEF storeVars
  <1> QED BY <1>5, <1>6, <1>7, <1>8, <1>9, <1>10 DEF Step, NoRating

\* Only sellers are registered.
LEMMA SellersRegister ==
    ASSUME [Next]_vars PROVE sellers' = sellers \/ \E s \in Seller : RegisterSeller(s)
  <1>1. ASSUME NEW c \in Client, Continue(c) \/ Reconnect(c) PROVE sellers' = sellers
    BY <1>1 DEF Continue, StoreItem, CountItem, NextWisher, BuyerTold, TakeItem, SellerTold,
       Rates, FindRaters, InitRaters, CheckRater, AddRater, FindRatings, InitRatings,
       ReadRatings, WriteRatings, GoesOn, ShowRating, Reconnect
  <1>2. ASSUME NEW s \in Seller, Sells(s) PROVE sellers' = sellers \/ RegisterSeller(s)
    BY <1>2 DEF Sells, SellItem, DeleteItem, UpdateItem
  <1>3. ASSUME NEW b \in Buyer, Buys(b) PROVE sellers' = sellers
    BY <1>3 DEF Buys, BuyItem, AddToWishList, RateItem
  <1>4. CASE UNCHANGED vars
    BY <1>4 DEF vars
  <1> QED BY <1>1, <1>2, <1>3, <1>4 DEF Next

\* No step ends a purchase with an error.
LEMMA NoError ==
    ASSUME MarketTypes, AddressInv, \A s \in Seller : connection[s] = 0,
           NEW c \in Client, Step(c)
    PROVE  ~(call'[c].pc = "idle" /\ call'[c].op = "BuyItem" /\ call'[c].result = "ERROR")
  <1>0. DOMAIN call = Client /\ "pc" \in DOMAIN call[c]
    BY DEF MarketTypes, CallsTypeOK, CallTypeOK
  <1>1. CASE TakeItem(c)
    <2>1. objects[call[c].object].seller_address \in sellers
      BY <1>1 DEF TakeItem, MarketTypes, CallsTypeOK, CallTypeOK, AddressInv
    <2>2. PICK k : k = [pc |-> "tell seller"]
      OBVIOUS
    <2>3. k.pc = "tell seller"
      BY <2>2
    <2>4. call'[c] = k
      BY <1>0, <1>1, <2>1, <2>2 DEF TakeItem
    <2> QED BY <2>3, <2>4
  <1>2. CASE RatesOn(c)
    <2>1. PICK k : Moves(c, k) /\ (k = Idle \/ k.pc = "show" \/ k.pc \in AtRating)
      BY <1>2, RatesMove
    <2>2. Idle.op = "none" /\ "idle" \notin AtRating
      BY DEF Idle, AtRating, BeforeSums
    <2> QED BY <2>1, <2>2 DEF Moves
  <1>3. CASE \/ RegisterSeller(c) \/ CountItem(c) \/ SellerTold(c) \/ ShowRating(c)
             \/ \E i \in DOMAIN items : DeleteItem(c, i) \/ AddToWishList(c, i)
    <2>1. call'[c] = Idle
      BY <1>0, <1>3 DEF RegisterSeller, CountItem, SellerTold, ShowRating, DeleteItem,
         AddToWishList
    <2>2. Idle.op = "none"
      BY DEF Idle
    <2> QED BY <2>1, <2>2
  <1>4. CASE NextWisher(c)
    <2>1. ASSUME NEW r, NEW m, call' = [call EXCEPT ![c] = Ended("UpdateItem", r, m)]
          PROVE  call'[c].op = "UpdateItem"
      BY <1>0, <2>1 DEF Ended
    <2>2. ASSUME NEW v, call' = [call EXCEPT ![c].pc = "tell buyer", ![c].visited = v]
          PROVE  call'[c].pc = "tell buyer"
      BY <1>0, <2>2
    <2>3. call'[c].op = "UpdateItem" \/ call'[c].pc = "tell buyer"
      BY <1>4, <2>1, <2>2 DEF NextWisher
    <2> QED BY <2>3
  <1>5. CASE BuyerTold(c) \/ StoreItem(c)
    <2>1. CASE BuyerTold(c)
      BY <1>0, <2>1 DEF BuyerTold
    <2>2. CASE StoreItem(c)
      BY <1>0, <2>2 DEF StoreItem
    <2> QED BY <1>5, <2>1, <2>2
  <1>6. ASSUME NEW q \in Quantity, SellItem(c, q) PROVE call'[c].pc = "store"
    BY <1>0, <1>6 DEF SellItem
  <1>7. ASSUME NEW i \in DOMAIN items, NEW q \in Quantity, BuyItem(c, i, q)
        PROVE  call'[c].pc = "take"
    BY <1>0, <1>7 DEF BuyItem
  <1>8. ASSUME NEW i \in DOMAIN items, NEW q \in Quantity, UpdateItem(c, i, q)
        PROVE  call'[c].pc = "next"
    BY <1>0, <1>8 DEF UpdateItem
  <1>9. ASSUME NEW i \in DOMAIN items, NEW r \in Rating, RateItem(c, i, r)
        PROVE  call'[c].pc = "find raters"
    BY <1>9, RateMoves
  <1>10. CASE call'[c].pc \in {"store", "take", "next", "find raters"}
    BY <1>10
  <1> QED BY <1>1, <1>2, <1>3, <1>4, <1>5, <1>6, <1>7, <1>8, <1>9, <1>10 DEF Step, NoRating

\* Every step keeps AddressInv.
LEMMA StepAddress == MarketTypes /\ AddressInv /\ [Next]_vars => AddressInv'
  <1> SUFFICES ASSUME MarketTypes, AddressInv, [Next]_vars,
                      \A s \in Seller : connection'[s] = 0
               PROVE  AddressInv'
    BY DEF AddressInv
  <1>0. connection \in [Client -> Nat] /\ Seller \subseteq Client
    BY DEF MarketTypes, StoreTypeOK, Client
  <1>1. \A s \in Seller : connection[s] = 0
    <2>1. ASSUME NEW c \in Client, Reconnect(c) PROVE \A s \in Seller : connection[s] = 0
      <3>1. connection' = [connection EXCEPT ![c] = @ + 1] /\ connection[c] \in Nat
        BY <1>0, <2>1 DEF Reconnect
      <3>2. connection'[c] # 0
        BY <1>0, <3>1
      <3>3. \A s \in Client \ {c} : connection'[s] = connection[s]
        BY <1>0, <3>1
      <3> QED BY <1>0, <3>2, <3>3
    <2>2. ASSUME NEW c \in Client, Step(c) PROVE connection' = connection
      BY <2>2, StepRuns
    <2>3. CASE UNCHANGED vars
      BY <2>3 DEF vars
    <2> QED BY <2>1, <2>2, <2>3, StepKinds
  <1>2. \A a \in sellers' : a[1] \in Seller /\ a = <<a[1], 0>>
    <2>1. \A a \in sellers : a[1] \in Seller /\ a = <<a[1], 0>>
      BY <1>1 DEF AddressInv
    <2>2. ASSUME NEW s \in Seller, RegisterSeller(s)
          PROVE  \A a \in sellers' : a[1] \in Seller /\ a = <<a[1], 0>>
      <3>1. sellers' = sellers \cup {<<s, 0>>}
        BY <1>1, <2>2 DEF RegisterSeller, peer
      <3> QED BY <2>1, <3>1
    <2> QED BY <2>1, <2>2, SellersRegister
  <1>3. ASSUME NEW c \in Client, Step(c) PROVE AddressInv'
    <2>1. \A n \in 1..Len(objects') : objects'[n].seller_address \in sellers'
      BY <1>1, <1>3, ItemsKnown
    <2>2. \A d \in Client : ~(call'[d].pc = "idle" /\ call'[d].op = "BuyItem"
                                  /\ call'[d].result = "ERROR")
      BY <1>1, <1>3, NoError, StepMoves DEF AddressInv
    <2> QED BY <1>2, <2>1, <2>2 DEF AddressInv
  <1>4. CASE (\E c \in Client : Reconnect(c)) \/ UNCHANGED vars
    <2>1. UNCHANGED <<objects, sellers, call>>
      BY <1>4 DEF Reconnect, vars, storeVars
    <2> QED BY <1>1, <2>1 DEF AddressInv
  <1> QED BY <1>3, <1>4, StepKinds

\* A purchase finds the seller it is to notify: unless a seller sells over a connection
\* it did not register from, BuyItem never ends in a KeyError after it took the stock.
THEOREM PurchasesEnd == Spec => []PurchasesComplete
  <1>1. Init => AddressInv
    <2> SUFFICES ASSUME Init PROVE AddressInv
      OBVIOUS
    <2>1. sellers = {} /\ Len(objects) = 0 /\ \A c \in Client : call[c] = Idle
      BY DEF Init
    <2>2. Idle.op = "none"
      BY DEF Idle
    <2> QED BY <2>1, <2>2 DEF AddressInv
  <1>2. AddressInv => PurchasesComplete
    BY DEF AddressInv, PurchasesComplete, Client
  <1> QED BY <1>1, <1>2, MarketTyped, StepAddress, PTL DEF Spec, Typed
-----------------------------------------------------------------------------
(* The ratings add up. *)

RatedBy(id) == Get(item_rated_by, id, {})

\* A rating that was accepted is all the sums lack while it is pending, and they have it
\* once they are about to be written.  What is about to be begun was not there.
Accounts(b) ==
    LET k == call[b]
    IN  /\ k.pc = "init raters" => k.id \notin DOMAIN item_rated_by
        /\ k.pc = "add" => peer(b) \notin RatedBy(k.id)
        /\ k.pc \in Owing => /\ Kept(k.id)[1] + k.rating = Given(k.id)[1]
                            /\ Kept(k.id)[2] + 1 = Given(k.id)[2]
        /\ k.pc = "init ratings" => k.id \notin DOMAIN item_ratings
        /\ k.pc = "write" => k.sums = Given(k.id)

\* The call has yet to add the rating it accepted for the item, or its rater.
Owes(b, id) == Accepted(b) /\ call[b].id = id
MayAdd(b, id) == call[b].pc \in {"check", "add"} /\ call[b].id = id

\* As long as no thread was interrupted, the accounts are right.
AccountInv ==
    ~preempted =>
        /\ \A id : IsFiniteSet(RatedBy(id)) /\ Cardinality(RatedBy(id)) = Given(id)[2]
        /\ \A b \in Client : Accounts(b)
        /\ \A id : (\A b \in Client : ~Owes(b, id)) => Kept(id) = Given(id)
        /\ \A id \in DOMAIN item_rated_by :
               id \in DOMAIN given \/ \E b \in Client : MayAdd(b, id)

\* Those who rate are buyers.
BuyersRate == \A b \in Client : call[b].pc \in AtRating => b \in Buyer

\* No call but that of c is at a rating.
Alone(c) == ~preempted /\ \A d \in Client \ {c} : call[d].pc \in Waits

\* Then the accounts are those of that call.
LEMMA OneAccount ==
    ASSUME AccountInv, NEW c \in Client, Alone(c)
    PROVE  /\ \A id : IsFiniteSet(RatedBy(id)) /\ Cardinality(RatedBy(id)) = Given(id)[2]
           /\ Accounts(c)
           /\ \A id : ~Owes(c, id) => Kept(id) = Given(id)
           /\ \A id \in DOMAIN item_rated_by : id \in DOMAIN given \/ MayAdd(c, id)
  <1>1. \A d \in Client \ {c} : \A id : ~Owes(d, id) /\ ~MayAdd(d, id)
    BY DEF Alone, Waits, Owes, MayAdd, Accepted, Owing
  <1>2. /\ \A id : IsFiniteSet(RatedBy(id)) /\ Cardinality(RatedBy(id)) = Given(id)[2]
        /\ Accounts(c)
    BY DEF AccountInv, Alone
  <1>3. \A id : ~Owes(c, id) => Kept(id) = Given(id)
    <2> SUFFICES ASSUME NEW id, ~Owes(c, id) PROVE Kept(id) = Given(id)
      OBVIOUS
    <2>1. \A b \in Client : ~Owes(b, id)
      BY <1>1
    <2> QED BY <2>1 DEF AccountInv, Alone
  <1>4. \A id \in DOMAIN item_rated_by : id \in DOMAIN given \/ MayAdd(c, id)
    BY <1>1 DEF AccountInv, Alone
  <1> QED BY <1>2, <1>3, <1>4

\* It is enough that its step keeps them.
LEMMA AccountStep ==
    ASSUME NEW c \in Client, NEW k, Moves(c, k), Alone(c),
           \A id : IsFiniteSet(RatedBy(id)') /\ Cardinality(RatedBy(id)') = Given(id)'[2],
           Accounts(c)',
           \A id : ~Owes(c, id)' => Kept(id)' = Given(id)',
           \A id \in DOMAIN item_rated_by' : id \in DOMAIN given' \/ MayAdd(c, id)'
    PROVE  AccountInv'
  <1>1. \A d \in Client \ {c} : call'[d].pc \in Waits
    BY DEF Moves, Alone
  <1>2. \A d \in Client : Accounts(d)'
    <2> SUFFICES ASSUME NEW d \in Client \ {c} PROVE Accounts(d)'
      OBVIOUS
    <2>1. call'[d].pc \in Waits
      BY <1>1
    <2> QED BY <2>1 DEF Waits, Owing, Accounts
  <1>3. \A id : (\A b \in Client : ~Owes(b, id)') => Kept(id)' = Given(id)'
    OBVIOUS
  <1> QED BY <1>2, <1>3 DEF AccountInv

\* What leaves the ratings alone and is not at a rating keeps them.
LEMMA AccountFrame ==
    ASSUME AccountInv, NEW c \in Client, NEW k, Moves(c, k), Alone(c), UNCHANGED ratingVars,
           call[c].pc \notin AtRating \ {"find raters"}, k.pc \notin AtRating \ {"find raters"}
    PROVE  AccountInv'
  <1>1. \A id : RatedBy(id)' = RatedBy(id) /\ Kept(id)' = Kept(id) /\ Given(id)' = Given(id)
    BY DEF RatedBy, Kept, Given, ratingVars
  <1>2. \A id : ~Owes(c, id) /\ ~MayAdd(c, id)
    BY DEF Owes, MayAdd, Accepted, Owing, AtRating, BeforeSums
  <1>3. Accounts(c)'
    BY DEF Moves, Accounts, Owing, AtRating, BeforeSums
  <1>4. /\ \A id : IsFiniteSet(RatedBy(id)') /\ Cardinality(RatedBy(id)') = Given(id)'[2]
        /\ \A id : Kept(id)' = Given(id)'
    BY <1>1, <1>2, OneAccount
  <1>5. \A id \in DOMAIN item_rated_by' : id \in DOMAIN given'
    BY <1>2, OneAccount DEF ratingVars
  <1> QED BY <1>3, <1>4, <1>5, AccountStep

\* Raters are looked for, or begun if there are none.
LEMMA RatersAccounts ==
    ASSUME MarketTypes, AccountInv, NEW c \in Client, Alone(c), FindRaters(c) \/ InitRaters(c)
    PROVE  AccountInv'
  <1>1. PICK k, i : Moves(c, k) /\ k.id = i /\ i = call[c].id
    BY FirstTypes DEF RatesFirst
  <1>2. /\ call[c].pc \in {"find raters", "init raters"} /\ k.pc \in {"check", "init raters"}
        /\ UNCHANGED <<item_ratings, given>>
    BY <1>1 DEF FindRaters, InitRaters, GoesOn, Moves, MarketTypes, CallsTypeOK, CallTypeOK,
       ratingVars
  <1>3. /\ k.pc = "init raters" => i \notin DOMAIN item_rated_by'
        /\ \A id : RatedBy(id)' = RatedBy(id)
        /\ DOMAIN item_rated_by' \subseteq DOMAIN item_rated_by \cup {i}
        /\ i \in DOMAIN item_rated_by' \ DOMAIN item_rated_by => k.pc = "check"
    <2>1. CASE FindRaters(c)
      <3>1. k.pc = "init raters" => i \notin DOMAIN item_rated_by
        BY <1>1, <2>1 DEF FindRaters, GoesOn, Moves, MarketTypes, CallsTypeOK, CallTypeOK
      <3>2. item_rated_by' = item_rated_by
        BY <2>1 DEF FindRaters, ratingVars
      <3> QED BY <3>1, <3>2 DEF RatedBy
    <2>2. CASE InitRaters(c)
      <3>1. k.pc = "check" /\ call[c].pc = "init raters"
        BY <1>1, <2>2 DEF InitRaters, GoesOn, Moves, MarketTypes, CallsTypeOK, CallTypeOK
      <3>2. item_rated_by' = Put(item_rated_by, i, {})
        BY <1>1, <2>2 DEF InitRaters
      <3>3. i \notin DOMAIN item_rated_by
        BY <1>1, <3>1, OneAccount DEF Accounts
      <3> QED BY <3>1, <3>2, <3>3 DEF RatedBy, Get, Put
    <2> QED BY <2>1, <2>2
  <1>4. \A id : Kept(id)' = Kept(id) /\ Given(id)' = Given(id)
    BY <1>2 DEF Kept, Given
  <1>5. \A id : ~Owes(c, id) /\ ~MayAdd(c, id)
    BY <1>2 DEF Owes, MayAdd, Accepted, Owing
  <1>6. Accounts(c)'
    BY <1>1, <1>2, <1>3 DEF Moves, Accounts, Owing
  <1>7. /\ \A id : IsFiniteSet(RatedBy(id)') /\ Cardinality(RatedBy(id)') = Given(id)'[2]
        /\ \A id : Kept(id)' = Given(id)'
    BY <1>3, <1>4, <1>5, OneAccount
  <1>8. \A id \in DOMAIN item_rated_by' : id \in DOMAIN given' \/ MayAdd(c, id)'
    <2>1. \A id \in DOMAIN item_rated_by : id \in DOMAIN given
      BY <1>5, OneAccount
    <2>2. i \in DOMAIN item_rated_by' \ DOMAIN item_rated_by => MayAdd(c, i)'
      BY <1>1, <1>3 DEF Moves, MayAdd
    <2> QED BY <1>2, <1>3, <2>1, <2>2
  <1> QED BY <1>1, <1>6, <1>7, <1>8, AccountStep

\* A rater is looked for among them.
LEMMA CheckAccounts ==
    ASSUME MarketTypes, AccountInv, NEW c \in Client, Alone(c), CheckRater(c)
    PROVE  AccountInv'
  <1>1. PICK i : i = call[c].id
    OBVIOUS
  <1>2. PICK k : /\ Moves(c, k)
                 /\ \/ k = Idle /\ HasRated(i, peer(c))
                    \/ k.pc = "add" /\ k.id = i /\ ~HasRated(i, peer(c))
    BY <1>1, CheckTypes
  <1>3. UNCHANGED <<connection, ratingVars>> /\ call[c].pc = "check"
    BY CheckTypes
  <1>4. \A id : RatedBy(id)' = RatedBy(id) /\ Kept(id)' = Kept(id) /\ Given(id)' = Given(id)
    BY <1>3 DEF RatedBy, Kept, Given, ratingVars
  <1>5. \A id : ~Owes(c, id) /\ (MayAdd(c, id) => id = i)
    BY <1>1, <1>3 DEF Owes, MayAdd, Accepted, Owing
  <1>6. /\ \A id : IsFiniteSet(RatedBy(id)') /\ Cardinality(RatedBy(id)') = Given(id)'[2]
        /\ \A id : Kept(id)' = Given(id)'
    BY <1>4, <1>5, OneAccount
  <1>7. Accounts(c)'
    <2>1. CASE k = Idle
      BY <1>2, <2>1 DEF Moves, Accounts, Idle, Owing
    <2>2. CASE k.pc = "add" /\ k.id = i /\ ~HasRated(i, peer(c))
      <3>1. peer(c)' = peer(c) /\ peer(c) \notin RatedBy(i)
        BY <1>3, <2>2 DEF peer, HasRated, RatedBy, Get
      <3> QED BY <1>2, <1>4, <2>2, <3>1 DEF Moves, Accounts, Owing
    <2> QED BY <1>2, <2>1, <2>2
  <1>8. \A id \in DOMAIN item_rated_by' : id \in DOMAIN given' \/ MayAdd(c, id)'
    <2>1. \A id \in DOMAIN item_rated_by : id # i => id \in DOMAIN given
      BY <1>5, OneAccount
    <2>2. CASE k = Idle /\ HasRated(i, peer(c))
      <3>1. i \in DOMAIN item_rated_by => i \in DOMAIN given
        <4> SUFFICES ASSUME i \in DOMAIN item_rated_by, i \notin DOMAIN given PROVE FALSE
          OBVIOUS
        <4>1. peer(c) \in RatedBy(i)
          BY <2>2 DEF HasRated, RatedBy, Get
        <4>2. Given(i)[2] = 0
          BY DEF Given, Get
        <4>3. IsFiniteSet(RatedBy(i)) /\ Cardinality(RatedBy(i)) = 0
          BY <4>2, OneAccount
        <4> QED BY <4>1, <4>3, FS_EmptySet
      <3> QED BY <1>3, <2>1, <3>1 DEF ratingVars
    <2>3. CASE k.pc = "add" /\ k.id = i
      <3>1. MayAdd(c, i)'
        BY <1>2, <2>3 DEF Moves, MayAdd
      <3> QED BY <1>3, <2>1, <3>1 DEF ratingVars
    <2> QED BY <1>2, <2>2, <2>3
  <1> QED BY <1>2, <1>6, <1>7, <1>8, AccountStep

\* The rater is remembered, and the rating is yet to be kept.
LEMMA AddAccounts ==
    ASSUME MarketTypes, Found, AccountInv, NEW c \in Client, Alone(c), AddRater(c)
    PROVE  AccountInv'
  <1>1. PICK k, i, r : Moves(c, k) /\ k.id = i /\ i = call[c].id /\ k.rating = r
                       /\ r = call[c].rating
    BY FirstTypes DEF RatesFirst
  <1>2. call[c].pc = "add" /\ k.pc = "find ratings" /\ item_ratings' = item_ratings
    BY <1>1 DEF AddRater, GoesOn, Moves, MarketTypes, CallsTypeOK, CallTypeOK
  <1>3. /\ RatedBy(i)' = RatedBy(i) \cup {peer(c)}
        /\ \A id : id # i => RatedBy(id)' = RatedBy(id)
        /\ DOMAIN item_rated_by' = DOMAIN item_rated_by
    <2>1. i \in DOMAIN item_rated_by
      BY <1>1, <1>2 DEF Found
    <2>2. item_rated_by' = [item_rated_by EXCEPT ![i] = @ \cup {peer(c)}]
      BY <1>1 DEF AddRater
    <2> QED BY <2>1, <2>2 DEF RatedBy, Get
  <1>4. /\ DOMAIN given' = DOMAIN given \cup {i}
        /\ \A id : id # i => Given(id)' = Given(id)
        /\ Given(i)' = <<Given(i)[1] + r, Given(i)[2] + 1>>
    BY <1>1 DEF AddRater, Put, Given, Get
  <1>5. /\ peer(c) \notin RatedBy(i) /\ IsFiniteSet(RatedBy(i))
        /\ Cardinality(RatedBy(i)) = Given(i)[2]
    BY <1>1, <1>2, OneAccount DEF Accounts
  <1>6. /\ IsFiniteSet(RatedBy(i)') /\ Cardinality(RatedBy(i)') = Given(i)[2] + 1
    BY <1>3, <1>5, FS_AddElement
  <1>7. \A id : IsFiniteSet(RatedBy(id)') /\ Cardinality(RatedBy(id)') = Given(id)'[2]
    <2> SUFFICES ASSUME NEW id
                 PROVE  IsFiniteSet(RatedBy(id)') /\ Cardinality(RatedBy(id)') = Given(id)'[2]
      OBVIOUS
    <2>1. CASE id = i
      BY <1>4, <1>6, <2>1
    <2>2. CASE id # i
      BY <1>3, <1>4, <2>2, OneAccount
    <2> QED BY <2>1, <2>2
  <1>8. \A id : ~Owes(c, id) /\ Kept(id)' = Kept(id) /\ Kept(id) = Given(id)
    <2>1. \A id : ~Owes(c, id)
      BY <1>2 DEF Owes, Accepted, Owing
    <2> QED BY <1>2, <2>1, OneAccount DEF Kept
  <1>9. Accounts(c)'
    <2>1. /\ Kept(i)'[1] + r = Given(i)'[1] /\ Kept(i)'[2] + 1 = Given(i)'[2]
      BY <1>4, <1>8
    <2> QED BY <1>1, <1>2, <2>1 DEF Moves, Accounts
  <1>10. Owes(c, i)'
    BY <1>1, <1>2 DEF Moves, Owes, Accepted, Owing
  <1>11. \A id : ~Owes(c, id)' => Kept(id)' = Given(id)'
    BY <1>4, <1>8, <1>10
  <1>12. \A id \in DOMAIN item_rated_by' : id \in DOMAIN given'
    <2>1. \A id : MayAdd(c, id) => id = i
      BY <1>1 DEF MayAdd
    <2> QED BY <1>3, <1>4, <2>1, OneAccount
  <1> QED BY <1>1, <1>7, <1>9, <1>11, <1>12, AccountStep

\* The sums are looked for, or begun if there are none.
LEMMA FindAccounts ==
    ASSUME MarketTypes, AccountInv, NEW c \in Client, Alone(c),
           FindRatings(c) \/ InitRatings(c)
    PROVE  AccountInv'
  <1>1. PICK k, i : Moves(c, k) /\ k.id = i /\ i = call[c].id /\ k.rating = call[c].rating
    BY FirstTypes DEF RatesFirst
  <1>2. /\ call[c].pc \in {"find ratings", "init ratings"} /\ k.pc \in {"read", "init ratings"}
        /\ UNCHANGED <<item_rated_by, given>>
    BY <1>1 DEF FindRatings, InitRatings, GoesOn, Moves, MarketTypes, CallsTypeOK, CallTypeOK,
       ratingVars
  <1>3. /\ k.pc = "init ratings" => i \notin DOMAIN item_ratings'
        /\ \A id : Kept(id)' = Kept(id)
    <2>1. CASE FindRatings(c)
      <3>1. k.pc = "init ratings" => i \notin DOMAIN item_ratings
        BY <1>1, <2>1 DEF FindRatings, GoesOn, Moves, MarketTypes, CallsTypeOK, CallTypeOK
      <3>2. item_ratings' = item_ratings
        BY <2>1 DEF FindRatings, ratingVars
      <3> QED BY <3>1, <3>2 DEF Kept
    <2>2. CASE InitRatings(c)
      <3>1. k.pc = "read" /\ call[c].pc = "init ratings"
        BY <1>1, <2>2 DEF InitRatings, GoesOn, Moves, MarketTypes, CallsTypeOK, CallTypeOK
      <3>2. item_ratings' = Put(item_ratings, i, <<0, 0>>)
        BY <1>1, <2>2 DEF InitRatings, NoRatings
      <3>3. i \notin DOMAIN item_ratings
        BY <1>1, <3>1, OneAccount DEF Accounts
      <3> QED BY <3>1, <3>2, <3>3 DEF Kept, Get, Put
    <2> QED BY <2>1, <2>2
  <1>4. \A id : RatedBy(id)' = RatedBy(id) /\ Given(id)' = Given(id)
    BY <1>2 DEF RatedBy, Given
  <1>5. \A id : /\ Owes(c, id)' = Owes(c, id) /\ ~MayAdd(c, id)
    BY <1>1, <1>2 DEF Moves, Owes, MayAdd, Accepted, Owing
  <1>6. Accounts(c)'
    <2>1. /\ Kept(i)[1] + call[c].rating = Given(i)[1] /\ Kept(i)[2] + 1 = Given(i)[2]
      BY <1>1, <1>2, OneAccount DEF Accounts, Owing
    <2> QED BY <1>1, <1>2, <1>3, <1>4, <2>1 DEF Moves, Accounts
  <1>7. /\ \A id : IsFiniteSet(RatedBy(id)') /\ Cardinality(RatedBy(id)') = Given(id)'[2]
        /\ \A id : ~Owes(c, id)' => Kept(id)' = Given(id)'
    BY <1>3, <1>4, <1>5, OneAccount
  <1>8. \A id \in DOMAIN item_rated_by' : id \in DOMAIN given'
    BY <1>2, <1>5, OneAccount
  <1> QED BY <1>1, <1>6, <1>7, <1>8, AccountStep

\* The sums that were read lacked only the rating now added.
LEMMA ReadAccounts ==
    ASSUME MarketTypes, Found, AccountInv, NEW c \in Client, Alone(c), ReadRatings(c)
    PROVE  AccountInv'
  <1>1. PICK i, r, s : i = call[c].id /\ r = call[c].rating /\ s = item_ratings[i]
    OBVIOUS
  <1>2. PICK k : Moves(c, k) /\ k.pc = "write" /\ k.id = i /\ k.sums = <<s[1] + r, s[2] + 1>>
    BY <1>1, ReadTypes
  <1>3. /\ UNCHANGED ratingVars /\ call[c].pc = "read" /\ Kept(i) = s
    BY <1>1, ReadTypes DEF Kept, Get
  <1>4. \A id : RatedBy(id)' = RatedBy(id) /\ Kept(id)' = Kept(id) /\ Given(id)' = Given(id)
    BY <1>3 DEF RatedBy, Kept, Given, ratingVars
  <1>5. \A id : Owes(c, id)' = Owes(c, id) /\ ~MayAdd(c, id)
    BY <1>1, <1>2, <1>3 DEF Moves, Owes, MayAdd, Accepted, Owing
  <1>6. k.sums = Given(i)
    <2>1. s[1] + r = Given(i)[1] /\ s[2] + 1 = Given(i)[2]
      BY <1>1, <1>3, OneAccount DEF Accounts, Owing
    <2>2. Given(i) \in Int \X Nat
      BY DEF Given, Get, MarketTypes, StoreTypeOK, Sums
    <2> QED BY <1>2, <2>1, <2>2
  <1>7. Accounts(c)'
    BY <1>2, <1>4, <1>6 DEF Moves, Accounts, Owing
  <1>8. /\ \A id : IsFiniteSet(RatedBy(id)') /\ Cardinality(RatedBy(id)') = Given(id)'[2]
        /\ \A id : ~Owes(c, id)' => Kept(id)' = Given(id)'
    BY <1>4, <1>5, OneAccount
  <1>9. \A id \in DOMAIN item_rated_by' : id \in DOMAIN given'
    BY <1>3, <1>5, OneAccount DEF ratingVars
  <1> QED BY <1>2, <1>7, <1>8, <1>9, AccountStep

\* Once they are written, nothing is lacking.
LEMMA WriteAccounts ==
    ASSUME MarketTypes, AccountInv, NEW c \in Client, Alone(c), WriteRatings(c)
    PROVE  AccountInv'
  <1>1. PICK i, s : i = call[c].id /\ s = call[c].sums
    OBVIOUS
  <1>2. PICK k : Moves(c, k) /\ k.pc = "show"
    BY WriteTypes
  <1>3. /\ call[c].pc = "write" /\ UNCHANGED <<item_rated_by, given>>
        /\ item_ratings' = Put(item_ratings, i, s)
    BY <1>1, WriteTypes
  <1>4. \A id : RatedBy(id)' = RatedBy(id) /\ Given(id)' = Given(id)
    BY <1>3 DEF RatedBy, Given
  <1>5. Kept(i)' = s /\ \A id : id # i => Kept(id)' = Kept(id)
    BY <1>3 DEF Kept, Put, Get
  <1>6. s = Given(i)
    BY <1>1, <1>3, OneAccount DEF Accounts
  <1>7. \A id : (Owes(c, id) => id = i) /\ ~MayAdd(c, id)
    BY <1>1, <1>3 DEF Owes, MayAdd
  <1>8. Accounts(c)'
    BY <1>2 DEF Moves, Accounts, Owing
  <1>9. /\ \A id : IsFiniteSet(RatedBy(id)') /\ Cardinality(RatedBy(id)') = Given(id)'[2]
        /\ \A id : Kept(id)' = Given(id)'
    BY <1>4, <1>5, <1>6, <1>7, OneAccount
  <1>10. \A id \in DOMAIN item_rated_by' : id \in DOMAIN given'
    BY <1>3, <1>7, OneAccount
  <1> QED BY <1>2, <1>8, <1>9, <1>10, AccountStep

\* Every step keeps AccountInv.
LEMMA StepAccounts == MarketTypes /\ Found /\ AccountInv /\ [Next]_vars => AccountInv'
  <1> SUFFICES ASSUME MarketTypes, Found, AccountInv, [Next]_vars PROVE AccountInv'
    OBVIOUS
  <1>1. ASSUME NEW c \in Client, Step(c), ~preempted' PROVE AccountInv'
    <2>1. Alone(c)
      BY <1>1, OthersWait DEF Alone
    <2>2. CASE NoRating(c)
      <3>1. PICK k : Moves(c, k) /\ Calm(c, k)
        BY <2>2, NoRatingMoves
      <3>2. call[c].pc \notin AtRating /\ UNCHANGED ratingVars
        BY <2>2, NoRatingMoves
      <3> QED BY <2>1, <3>1, <3>2, AccountFrame DEF Calm
    <2>3. CASE ShowRating(c)
      <3>1. Idle.pc = "idle" /\ "idle" \notin AtRating /\ "show" \notin AtRating
        BY DEF Idle, AtRating, BeforeSums
      <3>2. Moves(c, Idle) /\ call[c].pc = "show" /\ UNCHANGED ratingVars
        BY <2>3, ShowTypes
      <3> QED BY <2>1, <3>1, <3>2, AccountFrame
    <2>4. ASSUME NEW id \in DOMAIN items, NEW r \in Rating, RateItem(c, id, r)
          PROVE  AccountInv'
      <3>1. /\ Moves(c, call'[c]) /\ call'[c].pc = "find raters" /\ call[c].pc = "idle"
            /\ UNCHANGED ratingVars
        BY <2>4, RateMoves
      <3>2. PICK k : k = call'[c]
        OBVIOUS
      <3>3. "idle" \notin AtRating
        BY DEF AtRating, BeforeSums
      <3> QED BY <2>1, <3>1, <3>2, <3>3, AccountFrame
    <2> QED BY <1>1, <2>1, <2>2, <2>3, <2>4, RatersAccounts, CheckAccounts, AddAccounts,
               FindAccounts, ReadAccounts, WriteAccounts DEF Step, RatesOn, RatesFirst
  <1>2. CASE (\E c \in Client : Reconnect(c)) \/ UNCHANGED vars
    <2>1. /\ UNCHANGED <<call, preempted, ratingVars>>
          /\ \A b \in Client : call[b].pc = "add" => peer(b)' = peer(b)
      BY <1>2 DEF Reconnect, vars, peer, MarketTypes, StoreTypeOK
    <2>2. \A id : RatedBy(id)' = RatedBy(id) /\ Kept(id)' = Kept(id) /\ Given(id)' = Given(id)
      BY <2>1 DEF RatedBy, Kept, Given, ratingVars
    <2>3. \A b \in Client : Accounts(b) => Accounts(b)'
      BY <2>1, <2>2 DEF Accounts, ratingVars
    <2>4. \A b \in Client : \A id : /\ Owes(b, id)' = Owes(b, id)
                                  /\ MayAdd(b, id)' = MayAdd(b, id)
      BY <2>1 DEF Owes, MayAdd, Accepted
    <2> QED BY <2>1, <2>2, <2>3, <2>4 DEF AccountInv, ratingVars
  <1>3. CASE preempted'
    BY <1>3 DEF AccountInv
  <1> QED BY <1>1, <1>2, <1>3, StepKinds

\* Every step keeps BuyersRate.
LEMMA StepBuyers == MarketTypes /\ BuyersRate /\ [Next]_vars => BuyersRate'
  <1> SUFFICES ASSUME MarketTypes, BuyersRate, [Next]_vars PROVE BuyersRate'
    OBVIOUS
  <1>1. ASSUME NEW c \in Client, NEW k, Moves(c, k), k.pc \in AtRating => c \in Buyer
        PROVE  BuyersRate'
    BY <1>1 DEF BuyersRate, Moves
  <1>2. ASSUME NEW c \in Client, NoRating(c) PROVE BuyersRate'
    BY <1>1, <1>2, NoRatingMoves DEF Calm
  <1>3. ASSUME NEW c \in Client, ShowRating(c) PROVE BuyersRate'
    <2>1. Idle.pc \notin AtRating
      BY DEF Idle, AtRating, BeforeSums
    <2> QED BY <1>1, <1>3, <2>1, ShowTypes
  <1>4. ASSUME NEW c \in Client, RatesOn(c) PROVE BuyersRate'
    <2>1. c \in Buyer
      BY <1>4, RatesMove DEF BuyersRate
    <2>2. PICK k : Moves(c, k)
      BY <1>4, RatesMove
    <2> QED BY <1>1, <2>1, <2>2
  <1>5. ASSUME NEW c \in Client, c \in Buyer, NEW id \in DOMAIN items, NEW r \in Rating,
               RateItem(c, id, r)
        PROVE  BuyersRate'
    <2>1. Moves(c, call'[c])
      BY <1>5, RateMoves
    <2>2. PICK k : k = call'[c]
      OBVIOUS
    <2> QED BY <1>1, <1>5, <2>1, <2>2
  <1>6. CASE (\E c \in Client : Reconnect(c)) \/ UNCHANGED vars
    BY <1>6 DEF Reconnect, vars, BuyersRate
  <1> QED BY <1>2, <1>3, <1>4, <1>5, <1>6, StepKinds DEF Step

\* As long as no thread comes between two statements of another, RateItem keeps the right
\* sums for every item, from any number of buyers and through deletions of it: they are
\* those of the ratings that were accepted, and as many as the addresses remembered.
THEOREM RatingsRight == Spec => []RatingsAddUp
  <1>1. Init => AccountInv /\ BuyersRate
    <2> SUFFICES ASSUME Init PROVE AccountInv /\ BuyersRate
      OBVIOUS
    <2>1. DOMAIN item_ratings = {} /\ DOMAIN item_rated_by = {} /\ DOMAIN given = {}
      BY DEF Init
    <2>2. \A c \in Client : call[c].pc = "idle"
      BY DEF Init, Idle
    <2>3. IsFiniteSet({}) /\ Cardinality({}) = 0
      BY FS_EmptySet
    <2>4. \A id : Kept(id) = <<0, 0>> /\ Given(id) = <<0, 0>> /\ RatedBy(id) = {}
      BY <2>1 DEF Kept, Given, RatedBy, Get
    <2>5. \A c \in Client : Accounts(c) /\ call[c].pc \notin AtRating
      BY <2>2 DEF Accounts, Owing, AtRating, BeforeSums
    <2> QED BY <2>1, <2>3, <2>4, <2>5 DEF AccountInv, BuyersRate
  <1>2. Typed /\ AccountInv /\ BuyersRate => RatingsAddUp
    <2> SUFFICES ASSUME MarketTypes, AccountInv, BuyersRate, ~preempted,
                        NEW id \in DOMAIN item_rated_by, ~BeingRated(id)
                 PROVE  /\ item_ratings[id] = given[id]
                        /\ given[id][2] = Cardinality(item_rated_by[id])
      BY DEF Typed, RatingsAddUp
    <2>1. \A b \in Client : ~Owes(b, id) /\ ~MayAdd(b, id)
      <3>1. \A b \in Client : call[b].pc \in AtRating => call[b].id # id
        BY DEF BuyersRate, BeingRated, AtRating
      <3> QED BY <3>1 DEF Owes, MayAdd, Accepted, Owing, AtRating, BeforeSums
    <2>2. Kept(id) = Given(id) /\ id \in DOMAIN given
      BY <2>1 DEF AccountInv
    <2>3. Given(id) = given[id] /\ given[id][2] # 0
      BY <2>2 DEF Given, Get, MarketTypes, StoreTypeOK, Sums
    <2>4. id \in DOMAIN item_ratings
      BY <2>2, <2>3 DEF Kept, Get
    <2>5. Kept(id) = item_ratings[id] /\ RatedBy(id) = item_rated_by[id]
      BY <2>4 DEF Kept, RatedBy, Get
    <2> QED BY <2>2, <2>3, <2>5 DEF AccountInv
  <1>3. AccountInv /\ BuyersRate /\ Typed /\ [Next]_vars => (AccountInv /\ BuyersRate)'
    BY StepAccounts, StepBuyers DEF Typed
  <1> QED BY <1>1, <1>2, <1>3, MarketTyped, PTL DEF Spec
=============================================================================
