----------------------------- MODULE Marketplace -----------------------------
(***************************************************************************)
(* The gRPC market of Assignment_1: the handlers of central_platform.py,   *)
(* which share unlocked dictionaries, and the calls of seller.py and       *)
(* buyer.py, whose menu loops make one call at a time.                     *)
(*                                                                         *)
(* An action is a statement that reads or writes the dictionaries.  The    *)
(* checks a handler begins with are one with what they guard where another *)
(* thread in between could only turn the answer into an error.  Names,     *)
(* categories and prices are left out; the searches only read, and are no  *)
(* actions.                                                                *)
(***************************************************************************)
EXTENDS Integers, Sequences, FiniteSets

CONSTANTS
    Seller, Buyer,   \* the client processes
    Quantity,        \* quantities a client types in
    Rating,          \* ratings a client types in, which nothing checks
    Workers,         \* max_workers of the server
    MaxItems,        \* bound: items ever sold
    MaxDisturbances  \* bound: channels connected anew, and one if threads are interrupted

ASSUME MarketAssumption ==
    /\ Seller \cap Buyer = {}
    /\ Quantity \subseteq Nat \ {0} /\ Rating \subseteq Int
    /\ Workers \in Nat \ {0} /\ MaxItems \in Nat /\ MaxDisturbances \in Nat

VARIABLES
    connection,       \* which of its connections each client uses
    sellers,          \* the keys of sellers and of sellers_notificationIP
    objects,          \* the Item objects the handlers share, in order of creation
    items,            \* the id of each item for sale, and its object
    item_id_counter,
    wishlists,        \* the ids each address wishes for
    item_ratings, item_rated_by,
    call,             \* the call of each client: the statement it is at, its locals
    given,            \* history: the sum and the number of ratings accepted for each item
    preempted,        \* history: whether a thread was ever interrupted
    disturbances      \* how often a client was connected anew, and one if preempted

storeVars  == <<objects, items, item_id_counter>>
ratingVars == <<item_ratings, item_rated_by, given>>
vars == <<connection, sellers, storeVars, wishlists, ratingVars, call, preempted,
          disturbances>>
-----------------------------------------------------------------------------
Client == Seller \cup Buyer
Address == Client \X (0..MaxDisturbances)

\* context.peer(): a new connection has a new port.
peer(c) == <<c, connection[c]>>

Idle == [pc |-> "idle", op |-> "none", result |-> "none", missed |-> {}]

\* How a call ended, if it may end in an error halfway, and the wishes it was to tell
\* somebody of and did not.
Ended(op, result, missed) ==
    [pc |-> "idle", op |-> op, result |-> result, missed |-> missed]

Put(f, k, v) == [x \in DOMAIN f \cup {k} |-> IF x = k THEN v ELSE f[x]]
Get(f, k, default) == IF k \in DOMAIN f THEN f[k] ELSE default

Init ==
    /\ connection = [c \in Client |-> 0] /\ sellers = {}
    /\ objects = <<>> /\ items = <<>> /\ item_id_counter = 1
    /\ wishlists = <<>> /\ item_ratings = <<>> /\ item_rated_by = <<>>
    /\ call = [c \in Client |-> Idle] /\ given = <<>>
    /\ preempted = FALSE /\ disturbances = 0

\* A thread runs up to where it waits for a client to answer a notification, or it is
\* interrupted between two statements and others run.
Waits == {"idle", "tell buyer", "tell seller"}
Runs(c) ==
    LET interrupts == \E d \in Client \ {c} : call[d].pc \notin Waits
    IN  /\ interrupts => preempted \/ disturbances < MaxDisturbances
        /\ preempted' = (preempted \/ interrupts)
        /\ disturbances' = disturbances + IF preempted' /\ ~preempted THEN 1 ELSE 0
MayStart(c) ==
    /\ call[c].pc = "idle" /\ Runs(c)
    /\ Cardinality({d \in Client : call[d].pc # "idle"}) < Workers

-----------------------------------------------------------------------------
\* (mutant) Anybody may sell.
AnySeller(s) == TRUE

\* The uuid is among sellers.values().
KnownSeller(s) == \E a \in sellers : a[1] = s

\* A client's channel breaks while it is in its menu, and is connected again.
Reconnect(c) ==
    /\ call[c].pc = "idle" /\ disturbances < MaxDisturbances
    /\ connection' = [connection EXCEPT ![c] = @ + 1] /\ disturbances' = disturbances + 1
    /\ UNCHANGED <<sellers, storeVars, wishlists, ratingVars, call, preempted>>

RegisterSeller(s) ==
    /\ MayStart(s)
    /\ sellers' = sellers \cup {peer(s)}
    /\ call' = [call EXCEPT ![s] = Idle]
    /\ UNCHANGED <<connection, storeVars, wishlists, ratingVars>>

\* SellItem makes the item, whose id is read from the counter, ...
SellItem(s, quantity) ==
    /\ MayStart(s) /\ KnownSeller(s) /\ Len(objects) < MaxItems
    /\ objects' = Append(objects, [id |-> item_id_counter, quantity |-> quantity,
                                   rating |-> <<0, 0>>, seller_address |-> peer(s)])
    /\ call' = [call EXCEPT ![s] = [pc |-> "store", object |-> Len(objects')]]
    /\ UNCHANGED <<connection, sellers, items, item_id_counter, wishlists, ratingVars>>

\* ... stores it under the counter, read again, ...
StoreItem(s) ==
    /\ call[s].pc = "store" /\ Runs(s)
    /\ items' = Put(items, item_id_counter, call[s].object)
    /\ call' = [call EXCEPT ![s] = [pc |-> "count"]]
    /\ UNCHANGED <<connection, sellers, objects, item_id_counter, wishlists, ratingVars>>

\* ... and advances the counter.
CountItem(s) ==
    /\ call[s].pc = "count" /\ Runs(s)
    /\ item_id_counter' = item_id_counter + 1
    /\ call' = [call EXCEPT ![s] = Idle]
    /\ UNCHANGED <<connection, sellers, objects, items, wishlists, ratingVars>>

DeleteItem(s, id) ==
    /\ MayStart(s) /\ KnownSeller(s)
    /\ items' = [i \in DOMAIN items \ {id} |-> items[i]]
    /\ call' = [call EXCEPT ![s] = Idle]
    /\ UNCHANGED <<connection, sellers, objects, item_id_counter, wishlists, ratingVars>>

-----------------------------------------------------------------------------
\* UpdateItem, by any registered seller, and its walk through the wishlists.

Wishers(id) == {a \in DOMAIN wishlists : id \in wishlists[a]}

UpdateItem(s, id, quantity) ==
    /\ MayStart(s) /\ KnownSeller(s)
    /\ objects' = [objects EXCEPT ![items[id]].quantity = quantity,
                                  ![items[id]].seller_address = peer(s)]
    /\ call' = [call EXCEPT ![s] =
                    [pc |-> "next", id |-> id, visited |-> {}, wishers |-> Wishers(id),
                     size |-> Cardinality(DOMAIN wishlists)]]
    /\ UNCHANGED <<connection, sellers, items, item_id_counter, wishlists, ratingVars>>

\* (mutant) The handler returns from within the loop.
FirstWisher(k) == {a \in Wishers(k.id) : k.visited = {}}

\* The wishlists with the item that the walk has not come to.
Unvisited(k) == Wishers(k.id) \ k.visited

\* (mutant) The walk starts over.
VisitedAgain(k, a) == k.visited

Visited(k, a) == k.visited \cup {a}

\* The walk goes on to the next address that wishes for the item.  An address that
\* got its first wishlist since the walk began is a RuntimeError here.
NextWisher(s) ==
    LET k == call[s]
        resized == Cardinality(DOMAIN wishlists) # k.size
        ended(result) == Ended("UpdateItem", result, k.wishers \ k.visited)
    IN  /\ k.pc = "next" /\ Runs(s)
        /\ \/ resized /\ call' = [call EXCEPT ![s] = ended("ERROR")]
           \/ /\ ~resized /\ Unvisited(k) = {}
              /\ call' = [call EXCEPT ![s] = ended("SUCCESS")]
           \/ /\ ~resized
              /\ \E a \in Unvisited(k) :
                     call' = [call EXCEPT ![s].pc = "tell buyer",
                                          ![s].visited = Visited(k, a)]
        /\ UNCHANGED <<connection, sellers, storeVars, wishlists, ratingVars>>

\* send_notification to a buyer returns: answered, or with an error it swallows.
BuyerTold(s) ==
    /\ call[s].pc = "tell buyer" /\ Runs(s)
    /\ call' = [call EXCEPT ![s].pc = "next"]
    /\ UNCHANGED <<connection, sellers, storeVars, wishlists, ratingVars>>

-----------------------------------------------------------------------------
\* BuyItem.

\* (mutant) Any stock will do.
SomeStock(item, quantity) == item.quantity > 0

EnoughStock(item, quantity) == item.quantity >= quantity

\* The check, ...
BuyItem(b, id, quantity) ==
    /\ MayStart(b) /\ EnoughStock(objects[items[id]], quantity)
    /\ call' = [call EXCEPT ![b] = [pc |-> "take", object |-> items[id],
                                    quantity |-> quantity]]
    /\ UNCHANGED <<connection, sellers, storeVars, wishlists, ratingVars>>

\* ... and the purchase, after which the seller's address is looked up: it is a
\* KeyError if it was never registered.
TakeItem(b) ==
    LET n == call[b].object
    IN  /\ call[b].pc = "take" /\ Runs(b)
        /\ objects' = [objects EXCEPT ![n].quantity = @ - call[b].quantity]
        /\ call' = [call EXCEPT ![b] = IF objects[n].seller_address \in sellers
                                       THEN [pc |-> "tell seller"]
                                       ELSE Ended("BuyItem", "ERROR", {})]
        /\ UNCHANGED <<connection, sellers, items, item_id_counter, wishlists, ratingVars>>

\* send_notification to the seller returns.
SellerTold(b) ==
    /\ call[b].pc = "tell seller" /\ Runs(b)
    /\ call' = [call EXCEPT ![b] = Idle]
    /\ UNCHANGED <<connection, sellers, storeVars, wishlists, ratingVars>>

AddToWishList(b, id) ==
    /\ MayStart(b)
    /\ wishlists' = Put(wishlists, peer(b), Get(wishlists, peer(b), {}) \cup {id})
    /\ call' = [call EXCEPT ![b] = Idle]
    /\ UNCHANGED <<connection, sellers, storeVars, ratingVars>>

-----------------------------------------------------------------------------
\* RateItem.  Between the check whether an item has raters, or ratings, and their
\* initialization another buyer's may be added, and are lost.

\* (mutant) A rating nobody gave.
OneRating == <<0, 1>>

NoRatings == <<0, 0>>

\* The call goes on with another statement.
GoesOn(b, from, to) ==
    /\ call[b].pc = from /\ Runs(b)
    /\ call' = [call EXCEPT ![b].pc = to]
    /\ UNCHANGED <<connection, sellers, storeVars, wishlists>>

RateItem(b, id, rating) ==
    /\ MayStart(b)
    /\ call' = [call EXCEPT ![b] = [pc |-> "find raters", id |-> id, rating |-> rating]]
    /\ UNCHANGED <<connection, sellers, storeVars, wishlists, ratingVars>>

FindRaters(b) ==
    /\ GoesOn(b, "find raters",
             IF call[b].id \in DOMAIN item_rated_by THEN "check" ELSE "init raters")
    /\ UNCHANGED ratingVars

InitRaters(b) ==
    /\ GoesOn(b, "init raters", "check")
    /\ item_rated_by' = Put(item_rated_by, call[b].id, {})
    /\ UNCHANGED <<item_ratings, given>>

HasRated(id, a) == a \in item_rated_by[id]

CheckRater(b) ==
    /\ call[b].pc = "check" /\ Runs(b)
    /\ call' = [call EXCEPT ![b] = IF HasRated(call[b].id, peer(b)) THEN Idle
                                   ELSE [call[b] EXCEPT !.pc = "add"]]
    /\ UNCHANGED <<connection, sellers, storeVars, wishlists, ratingVars>>

\* (mutants) A rating replaces the others, or is not counted.
OnlyLast(total, num, rating) == <<rating, 1>>
NotCounted(total, num, rating) == <<total + rating, num>>

Counted(total, num, rating) == <<total + rating, num + 1>>

\* The buyer is remembered, and with that the rating is accepted.
AddRater(b) ==
    LET k == call[b]
        sums == Get(given, k.id, <<0, 0>>)
    IN  /\ GoesOn(b, "add", "find ratings")
        /\ item_rated_by' = [item_rated_by EXCEPT ![k.id] = @ \cup {peer(b)}]
        /\ given' = Put(given, k.id, <<sums[1] + k.rating, sums[2] + 1>>)
        /\ UNCHANGED item_ratings

FindRatings(b) ==
    /\ GoesOn(b, "find ratings",
             IF call[b].id \in DOMAIN item_ratings THEN "read" ELSE "init ratings")
    /\ UNCHANGED ratingVars

InitRatings(b) ==
    /\ GoesOn(b, "init ratings", "read")
    /\ item_ratings' = Put(item_ratings, call[b].id, NoRatings)
    /\ UNCHANGED <<item_rated_by, given>>

\* The sums so far are read and added to, ...
ReadRatings(b) ==
    LET k == call[b]
        sums == item_ratings[k.id]
    IN  /\ k.pc = "read" /\ Runs(b)
        /\ call' = [call EXCEPT ![b] = [pc |-> "write", id |-> k.id,
                                        sums |-> Counted(sums[1], sums[2], k.rating)]]
        /\ UNCHANGED <<connection, sellers, storeVars, wishlists, ratingVars>>

\* ... the new ones are written, ...
WriteRatings(b) ==
    /\ GoesOn(b, "write", "show")
    /\ item_ratings' = Put(item_ratings, call[b].id, call[b].sums)
    /\ UNCHANGED <<item_rated_by, given>>

\* ... and their quotient is shown with the item, unless it was deleted meanwhile,
\* which is a KeyError.
ShowRating(b) ==
    LET k == call[b]
    IN  /\ k.pc = "show" /\ Runs(b)
        /\ objects' = IF k.id \in DOMAIN items
                      THEN [objects EXCEPT ![items[k.id]].rating = k.sums] ELSE objects
        /\ call' = [call EXCEPT ![b] = Idle]
        /\ UNCHANGED <<connection, sellers, items, item_id_counter, wishlists, ratingVars>>

-----------------------------------------------------------------------------
\* The rest of a call under way.
Rates(b) ==
    \/ FindRaters(b) \/ InitRaters(b) \/ CheckRater(b) \/ AddRater(b)
    \/ FindRatings(b) \/ InitRatings(b) \/ ReadRatings(b) \/ WriteRatings(b)
    \/ ShowRating(b)
Continue(c) ==
    \/ StoreItem(c) \/ CountItem(c) \/ NextWisher(c) \/ BuyerTold(c)
    \/ TakeItem(c) \/ SellerTold(c) \/ Rates(c)

\* A seller, or a buyer, chooses from its menu.
Sells(s) ==
    \/ RegisterSeller(s)
    \/ \E q \in Quantity : SellItem(s, q)
    \/ \E id \in DOMAIN items :
           DeleteItem(s, id) \/ \E q \in Quantity : UpdateItem(s, id, q)
Buys(b) ==
    \E id \in DOMAIN items :
        \/ \E q \in Quantity : BuyItem(b, id, q)
        \/ AddToWishList(b, id)
        \/ \E r \in Rating : RateItem(b, id, r)

Next ==
    \/ \E c \in Client : Continue(c) \/ Reconnect(c)
    \/ \E s \in Seller : Sells(s)
    \/ \E b \in Buyer : Buys(b)

\* Every thread gets the interpreter again and again, and a client answers its
\* notifications or refuses the connection.
Spec == Init /\ [][Next]_vars /\ \A c \in Client : SF_vars(Continue(c))
=============================================================================
