------------------------ MODULE MarketplaceProperties ------------------------
(***************************************************************************)
(* What the market promises its sellers and buyers.                        *)
(***************************************************************************)
EXTENDS Marketplace

\* The statements of RateItem before the sums are known.
BeforeSums == {"find raters", "init raters", "check", "add", "find ratings", "init ratings",
            "read"}

\* The type invariant: items are objects that were made, wishlists and raters are
\* addresses, and a mean rating is of one rating at least.
TypeOK ==
    /\ connection \in [Client -> 0..MaxDisturbances]
    /\ disturbances \in 0..MaxDisturbances /\ sellers \subseteq Address
    /\ \A n \in 1..Len(objects) :
          /\ objects[n].quantity \in Int /\ objects[n].id \in Nat \ {0}
          /\ objects[n].seller_address \in Address
    /\ DOMAIN items \subseteq Nat \ {0} /\ \A id \in DOMAIN items : items[id] \in 1..Len(objects)
    /\ item_id_counter \in Nat \ {0}
    /\ DOMAIN wishlists \subseteq Address
    /\ \A id \in DOMAIN item_rated_by : item_rated_by[id] \subseteq Address
    /\ \A id \in DOMAIN item_ratings : item_ratings[id] \in Int \X Nat
    /\ \A id \in DOMAIN given : id \in Nat \ {0} /\ given[id] \in Int \X (Nat \ {0})
    /\ \A c \in Client :
          /\ call[c].pc \in {"idle", "store", "count", "next", "tell buyer", "take",
                              "tell seller"} \cup BeforeSums \cup {"write", "show"}
          /\ call[c].pc \in {"write", "show"} => call[c].sums \in Int \X (Nat \ {0})
    /\ preempted \in BOOLEAN

\* BuyItem never sells what is not there, as long as no other purchase or update comes
\* between the check of the stock and the sale.
NeverOversold == ~preempted => \A n \in 1..Len(objects) : objects[n].quantity >= 0

BeingRated(id) ==
    \E b \in Buyer : call[b].pc \in BeforeSums \cup {"write"} /\ call[b].id = id

\* RateItem: the sums kept for an item are those of the ratings it accepted, each
\* from another address, also when the item is deleted or rated by several buyers, as
\* long as no thread was interrupted.  (Two overlapping ratings lose one of the two, or
\* the raters, and a buyer may then rate again: README.)
RatingsAddUp ==
    ~preempted => \A id \in DOMAIN item_rated_by : ~BeingRated(id) =>
        item_ratings[id] = given[id] /\ given[id][2] = Cardinality(item_rated_by[id])

\* However the threads that rate an item are interrupted, its sums are never those of
\* more ratings than were accepted for it, and their mean lies between two ratings typed in:
\* what overlapping ratings do is to lose some.
RatingsNeverInvented ==
    \A id \in DOMAIN item_ratings :
        /\ item_ratings[id][2] <= given[id][2]
        /\ \E low, high \in Rating :
               item_ratings[id][1] \in (low * item_ratings[id][2])..(high * item_ratings[id][2])

\* A purchase that took the stock does not end in an error before the seller of the
\* item is notified of it: the address with the item is a registered one, unless a
\* seller whose connection broke goes on without registering again (README).
PurchasesComplete ==
    (\A s \in Seller : connection[s] = 0) =>
        \A b \in Buyer : ~(call[b].pc = "idle" /\ call[b].op = "BuyItem"
                              /\ call[b].result = "ERROR")

\* When UpdateItem answers SUCCESS, every buyer who had the item on a wishlist when
\* it was updated was sent a notification, whoever made wishes meanwhile.
SuccessMeansNotified ==
    \A c \in Client : call[c].pc = "idle" /\ call[c].result = "SUCCESS" => call[c].missed = {}

\* An update reaches those buyers however it ends.
UpdateReachesWishers ==
    \A c \in Client : call[c].pc = "idle" => call[c].missed = {}

\* Every call is answered, whatever the others do, as long as notified clients
\* answer or are gone: no handler waits for another.
EveryCallEnds == \A c \in Client : (call[c].pc # "idle") ~> (call[c].pc = "idle")
=============================================================================
