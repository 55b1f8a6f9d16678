-------------------------------- MODULE Reviews --------------------------------
(***************************************************************************)
(* The reviews of one product by one customer, and the images uploaded for *)
(* them. Nothing in the database keeps a customer to one review: the       *)
(* handler looks for one first, and inserts two reads later.               *)
(***************************************************************************)
EXTENDS Requests

CONSTANTS
  Keys,        \* storage keys as a form may name them
  MaxReviews   \* bound: reviews ever written

ASSUME ReviewsBound == MaxReviews \in Nat

VARIABLES
  orderStatus,  \* of the customer's order of the product
  reviews,      \* the reviews by id
  lastReview,   \* the id last given out
  stored        \* the keys of the files that have been stored

reviewVars == <<orderStatus, reviews, lastReview, stored>>

ReviewStatus == {"PENDING", "APPROVED", "REJECTED"}

Visible(key) == key.visibility = "public"

\* A key is told by its shape; that it was ever issued is not looked at.
assertReviewImageKeys(keys) ==
  \A key \in keys :
    key.visibility = "public" /\ key.folder = "reviews" /\ key.image

hasDelivered == orderStatus = "DELIVERED"

ReviewsInit ==
  /\ RequestsInit
  /\ orderStatus = "PENDING"
  /\ reviews = <<>> /\ lastReview = 0 /\ stored = {}

-----------------------------------------------------------------------------

AskReview(r) ==
  \E images \in SUBSET Keys :
    /\ Begin(r, [step |-> "existing", images |-> images])
    /\ UNCHANGED reviewVars

\* Mistake: only a review that is shown counts as one.
foundExisting(rows) == \E id \in DOMAIN rows : rows[id].status = "APPROVED"

existing(rows) == rows # <<>>

FindExisting(r) ==
  /\ At(r, "existing") /\ ~existing(reviews)
  /\ Continue(r, [step |-> "purchase", was |-> DOMAIN reviews])
  /\ UNCHANGED reviewVars

FindPurchase(r) ==
  /\ At(r, "purchase") /\ hasDelivered
  /\ assertReviewImageKeys(job[r].images)
  /\ Continue(r, [step |-> "review"])
  /\ UNCHANGED reviewVars

WriteReview(r) ==
  /\ At(r, "review") /\ lastReview < MaxReviews
  /\ lastReview' = lastReview + 1
  /\ reviews' = Saved(reviews, lastReview',
                       [status |-> "PENDING", replied |-> FALSE,
                        images |-> job[r].images])
  /\ Settle(r, DOMAIN reviews # job[r].was)
  /\ UNCHANGED <<orderStatus, stored>>

\* updateStatus, reply and remove: found first, then written by id.
AskModeration(r) ==
  \E id \in DOMAIN reviews :
    /\ \/ Begin(r, [step |-> "remove", id |-> id])
       \/ Begin(r, [step |-> "reply", id |-> id])
       \/ \E status \in ReviewStatus :
            Begin(r, [step |-> "status", id |-> id, status |-> status])
    /\ UNCHANGED reviewVars

Moderate(r) ==
  LET id == job[r].id
  IN  /\ job[r].step \in {"remove", "reply", "status"}
      /\ id \in DOMAIN reviews
      /\ reviews' =
           CASE At(r, "remove") -> Removed(reviews, id)
             [] At(r, "reply") -> [reviews EXCEPT ![id].replied = TRUE]
             [] At(r, "status") ->
                  [reviews EXCEPT ![id].status = job[r].status]
      /\ End(r)
      /\ UNCHANGED <<orderStatus, lastReview, stored>>

-----------------------------------------------------------------------------
(* Uploads. *)

\* Checked before anything is stored; a customer's file is a review image.
handleCustomerReviewUpload(r) ==
  \E key \in Keys :
    /\ key.folder = "reviews" /\ key.image /\ hasDelivered
    /\ Begin(r, [step |-> "put", key |-> key])
    /\ UNCHANGED reviewVars

\* An admin's goes where they say; bills are kept private.
handleUpload(r) ==
  \E key \in Keys :
    /\ (key.visibility = "private") = (key.folder = "bills")
    /\ Begin(r, [step |-> "put", key |-> key])
    /\ UNCHANGED reviewVars

Put(r) ==
  /\ At(r, "put")
  /\ stored' = stored \cup {job[r].key}
  /\ End(r)
  /\ UNCHANGED <<orderStatus, reviews, lastReview>>

-----------------------------------------------------------------------------

\* A refusal and a throw leave nothing, as a crash does.
AbandonReview(r) == Interrupt(r) /\ UNCHANGED reviewVars

Order(from, to) ==
  /\ orderStatus = from /\ orderStatus' = to
  /\ UNCHANGED <<reviews, lastReview, stored, inFlight>>

ReviewsNext ==
  \/ \E r \in Requests :
       \/ AskReview(r) \/ FindExisting(r) \/ FindPurchase(r) \/ WriteReview(r)
       \/ AskModeration(r) \/ Moderate(r)
       \/ handleCustomerReviewUpload(r) \/ handleUpload(r) \/ Put(r)
       \/ AbandonReview(r)
  \/ Order("PENDING", "DELIVERED") \/ Order("DELIVERED", "RETURNED")

ReviewsSpec == ReviewsInit /\ [][ReviewsNext]_<<reviewVars, inFlight>>

-----------------------------------------------------------------------------

ReviewsTypeOK ==
  /\ orderStatus \in {"PENDING", "DELIVERED", "RETURNED"}
  /\ lastReview \in 0..MaxReviews
  /\ reviews \in [DOMAIN reviews ->
                    [status : ReviewStatus, replied : BOOLEAN,
                     images : SUBSET Keys]]
  /\ DOMAIN reviews \subseteq 1..lastReview
  /\ stored \subseteq Keys

\* A review is of a product that was delivered, shows nothing private, and is
\* the customer's only one until two are sent at once.
ReviewIsEarned ==
  /\ reviews # <<>> => orderStatus # "PENDING"
  /\ \A id \in DOMAIN reviews : \A key \in reviews[id].images : Visible(key)
  /\ ~overtaken => Cardinality(DOMAIN reviews) <= 1
===============================================================================
