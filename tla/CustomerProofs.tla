---------------------------- MODULE CustomerProofs ----------------------------
(***************************************************************************)
(* Proofs about what customers do beside ordering: their addresses, their  *)
(* reviews, their support tickets and their signing in, each for any       *)
(* number of requests.                                                     *)
(***************************************************************************)
EXTENDS Addresses, Reviews, SupportTickets, SignIn, RequestsProofs,
        FiniteSetTheorems, WellFoundedInduction, SequenceTheorems

(***************************************************************************)
(* Addresses.                                                              *)
(***************************************************************************)

\* A request about to make a default has cleared what it remembers.
AddressJobFits(j) ==
  /\ j.step \in {"clear", "write"} => {"id", "flag"} \subseteq DOMAIN j
  /\ j.step = "write" /\ TRUE \in j.flag =>
       "was" \in DOMAIN j /\ \A i \in DOMAIN j.was : ~j.was[i]

OneDefault == \A i, k \in DOMAIN addresses : addresses[i] /\ addresses[k] => i = k

AddressInv ==
  /\ lastAddress \in Nat
  /\ DOMAIN addresses \subseteq 1..lastAddress
  /\ JobsOK
  /\ \A r \in Requests : AddressJobFits(job[r])
  /\ ~overtaken => OneDefault

\* A request moved on, and the addresses are those there were.
LEMMA AddressMoves ==
  ASSUME AddressInv, UNCHANGED addressVars, NEW r \in Requests, JobsOK',
         overtaken' = overtaken,
         \A q \in Requests \ {r} : job'[q] = job[q],
         AddressJobFits(job'[r])
  PROVE  AddressInv'
BY DEF AddressInv, OneDefault, addressVars

\* A request on addresses has written nothing when it begins.
LEMMA AskAddress ==
  ASSUME AddressInv, NEW r \in Requests,
         AskCreateAddress(r) \/ AskUpdateAddress(r)
  PROVE  AddressInv'
<1>1. PICK id, flag :
        /\ Begin(r, [step |-> IF TRUE \in flag THEN "clear" ELSE "write",
                     id |-> id, flag |-> flag])
        /\ UNCHANGED addressVars
  <2>1. CASE AskCreateAddress(r)
    <3>1. PICK isDefault \in BOOLEAN :
            /\ Begin(r, [step |-> IF isDefault THEN "clear" ELSE "write",
                         id |-> 0, flag |-> {isDefault}])
            /\ UNCHANGED addressVars
      BY <2>1 DEF AskCreateAddress
    <3>2. (IF TRUE \in {isDefault} THEN "clear" ELSE "write")
            = (IF isDefault THEN "clear" ELSE "write")
      OBVIOUS
    <3>. QED
      BY <3>1, <3>2
  <2>2. CASE AskUpdateAddress(r)
    BY <2>2 DEF AskUpdateAddress
  <2>. QED
    BY <2>1, <2>2
<1>. DEFINE what == [step |-> IF TRUE \in flag THEN "clear" ELSE "write",
                     id |-> id, flag |-> flag]
<1>2. DOMAIN what = {"step", "id", "flag"} /\ what["flag"] = flag
      /\ what["step"] = IF TRUE \in flag THEN "clear" ELSE "write"
  OBVIOUS
<1>3. /\ JobsOK' /\ overtaken' = overtaken
      /\ \A q \in Requests \ {r} : job'[q] = job[q]
      /\ DOMAIN what \subseteq DOMAIN job'[r]
      /\ \A f \in DOMAIN what : job'[r][f] = what[f]
  <2>1. Begin(r, what) /\ "step" \in DOMAIN what
    BY <1>1
  <2>. HIDE DEF what
  <2>. QED
    BY <2>1, Beginning DEF AddressInv
<1>4. AddressJobFits(job'[r])
  <2>. HIDE DEF what
  <2>1. /\ {"id", "flag"} \subseteq DOMAIN job'[r] /\ job'[r].flag = flag
        /\ job'[r].step = IF TRUE \in flag THEN "clear" ELSE "write"
    BY <1>2, <1>3
  <2>. QED
    BY <2>1 DEF AddressJobFits
<1>. QED
  BY <1>1, <1>3, <1>4, AddressMoves

\* Once the others are cleared, a default can be written.
LEMMA ClearDefaultsStep ==
  ASSUME AddressInv, NEW r \in Requests, ClearDefaults(r)
  PROVE  AddressInv'
<1>. DEFINE what == [step |-> "write", was |-> addresses']
<1>1. /\ At(r, "clear") /\ lastAddress' = lastAddress
      /\ addresses' = [i \in DOMAIN addresses |-> FALSE]
      /\ Proceed(r, what, FALSE)
  BY DEF ClearDefaults, cleared, Continue
<1>2. DOMAIN what = {"step", "was"} /\ what["was"] = addresses'
      /\ what["step"] = "write"
  OBVIOUS
<1>3. overtaken \in BOOLEAN /\ JobsOK
  BY DEF AddressInv, JobsOK
<1>4. /\ JobsOK' /\ overtaken' = overtaken
      /\ \A q \in Requests \ {r} : job'[q] = job[q]
      /\ DOMAIN job'[r] = DOMAIN what \cup DOMAIN job[r]
      /\ \A f \in DOMAIN what : job'[r][f] = what[f]
      /\ \A f \in DOMAIN job[r] \ DOMAIN what : job'[r][f] = job[r][f]
  <2>. HIDE DEF what
  <2>. QED
    BY <1>1, <1>3, Proceeding
<1>5. AddressJobFits(job'[r])
  <2>. HIDE DEF what
  <2>1. {"id", "flag"} \subseteq DOMAIN job[r]
    BY <1>1 DEF AddressInv, AddressJobFits, At
  <2>2. /\ {"id", "flag", "was"} \subseteq DOMAIN job'[r]
        /\ job'[r].was = addresses'
    BY <1>2, <1>4, <2>1
  <2>. QED
    BY <1>1, <2>2 DEF AddressJobFits
<1>6. OneDefault' /\ DOMAIN addresses' = DOMAIN addresses
  BY <1>1 DEF OneDefault
<1>. HIDE DEF what
<1>. QED
  BY <1>1, <1>4, <1>5, <1>6 DEF AddressInv

\* If it makes a default, there is none: what it cleared is what there is.
LEMMA WriteAddressStep ==
  ASSUME AddressInv, NEW r \in Requests, WriteAddress(r)
  PROVE  AddressInv'
<1>. DEFINE j == job[r]
<1>1. At(r, "write") /\ Settle(r, Outrun(r)) /\ Outrun(r) \in BOOLEAN
  BY DEF WriteAddress, Outrun
<1>2. /\ JobsOK' /\ overtaken' = (overtaken \/ Outrun(r))
      /\ \A q \in Requests \ {r} : job'[q] = job[q]
      /\ job'[r].step = "idle"
  BY <1>1, Settling DEF AddressInv
<1>3. \A q \in Requests : AddressJobFits(job'[q])
  BY <1>2 DEF AddressInv, AddressJobFits
<1>4. PICK id \in Nat :
        /\ DOMAIN addresses' = DOMAIN addresses \cup {id}
        /\ \A i \in DOMAIN addresses \ {id} : addresses'[i] = addresses[i]
        /\ addresses'[id] => \/ TRUE \in j.flag
                             \/ id \in DOMAIN addresses /\ addresses[id]
        /\ lastAddress' \in Nat /\ lastAddress <= lastAddress'
        /\ id \in 1..lastAddress'
  <2>1. CASE j.id = 0
    <3>1. /\ lastAddress' = lastAddress + 1
          /\ addresses' = Saved(addresses, lastAddress', TRUE \in j.flag)
      BY <2>1 DEF WriteAddress
    <3>2. /\ DOMAIN addresses' = DOMAIN addresses \cup {lastAddress'}
          /\ \A i \in DOMAIN addresses \ {lastAddress'} :
               addresses'[i] = addresses[i]
          /\ addresses'[lastAddress'] => TRUE \in j.flag
      BY <3>1 DEF Saved
    <3>3. lastAddress' \in Nat /\ lastAddress <= lastAddress'
          /\ lastAddress' \in 1..lastAddress'
      BY <3>1 DEF AddressInv
    <3>. QED
      BY <3>2, <3>3, Zenon
  <2>2. CASE j.id # 0
    <3>1. /\ lastAddress' = lastAddress /\ j.id \in DOMAIN addresses
          /\ addresses' = [addresses EXCEPT ![j.id] =
               IF j.flag = {} THEN addresses[j.id] ELSE TRUE \in j.flag]
      BY <2>2 DEF WriteAddress
    <3>2. /\ DOMAIN addresses' = DOMAIN addresses
          /\ \A i \in DOMAIN addresses \ {j.id} : addresses'[i] = addresses[i]
      BY <3>1
    <3>3. addresses'[j.id] = IF j.flag = {} THEN addresses[j.id]
                             ELSE TRUE \in j.flag
      BY <3>1
    <3>4. addresses'[j.id] => TRUE \in j.flag \/ addresses[j.id]
      BY <3>3
    <3>5. j.id \in Nat /\ j.id \in 1..lastAddress'
          /\ lastAddress' \in Nat /\ lastAddress <= lastAddress'
      BY <3>1 DEF AddressInv
    <3>6. DOMAIN addresses' = DOMAIN addresses \cup {j.id}
      BY <3>1, <3>2
    <3>. HIDE DEF j
    <3>. QED
      BY <3>1, <3>2, <3>4, <3>5, <3>6, Zenon
  <2>. QED
    BY <2>1, <2>2
<1>6. ASSUME ~overtaken, ~Outrun(r) PROVE OneDefault'
  <2>1. CASE TRUE \in j.flag
    <3>1. \A i \in DOMAIN addresses : ~addresses[i]
      BY <1>1, <1>6, <2>1 DEF Outrun, AddressInv, AddressJobFits, At
    <3>. QED
      BY <1>4, <3>1 DEF OneDefault
  <2>2. CASE TRUE \notin j.flag
    <3>1. \A i \in DOMAIN addresses' :
            addresses'[i] => i \in DOMAIN addresses /\ addresses[i]
      BY <1>4, <2>2
    <3>. QED
      BY <1>6, <3>1 DEF AddressInv, OneDefault
  <2>. QED
    BY <2>1, <2>2
<1>7. DOMAIN addresses' \subseteq 1..lastAddress'
  BY <1>4 DEF AddressInv
<1>. QED
  BY <1>2, <1>3, <1>4, <1>6, <1>7 DEF AddressInv

\* With one address fewer there is no default more.
LEMMA RemoveAddressStep ==
  ASSUME AddressInv, RemoveAddress
  PROVE  AddressInv'
<1>1. PICK id \in DOMAIN addresses : addresses' = Removed(addresses, id)
  BY DEF RemoveAddress
<1>2. UNCHANGED <<lastAddress, job, overtaken>>
  BY DEF RemoveAddress, inFlight
<1>3. /\ DOMAIN addresses' \subseteq DOMAIN addresses
      /\ \A i \in DOMAIN addresses' : addresses'[i] = addresses[i]
  BY <1>1 DEF Removed
<1>. QED
  BY <1>2, <1>3 DEF AddressInv, OneDefault, AddressJobFits, JobsOK

\* A handler that stops leaves no default more.
LEMMA AbandonAddressStep ==
  ASSUME AddressInv, NEW r \in Requests, AbandonAddress(r)
  PROVE  AddressInv'
<1>1. Settle(r, FALSE) /\ UNCHANGED addressVars
  BY DEF AbandonAddress, Interrupt, End
<1>2. JobsOK /\ overtaken \in BOOLEAN
  BY DEF AddressInv, JobsOK
<1>3. /\ JobsOK' /\ overtaken' = overtaken /\ job'[r].step = "idle"
      /\ \A q \in Requests \ {r} : job'[q] = job[q]
  BY <1>1, <1>2, Settling
<1>4. AddressJobFits(job'[r])
  BY <1>3 DEF AddressJobFits
<1>. QED
  BY <1>1, <1>3, <1>4, AddressMoves

\* A customer starts without addresses.
LEMMA AddressesInitInv == AddressesInit => AddressInv
<1>. SUFFICES ASSUME AddressesInit PROVE AddressInv
  OBVIOUS
<1>1. JobsOK /\ \A r \in Requests : job[r].step = "idle"
  BY Starting DEF AddressesInit
<1>2. lastAddress = 0 /\ DOMAIN addresses = {}
  BY DEF AddressesInit
<1>. QED
  BY <1>1, <1>2 DEF AddressInv, AddressJobFits, OneDefault

\* Every step on addresses preserves the invariant.
LEMMA AddressesNextInv ==
  AddressInv /\ [AddressesNext]_<<addressVars, inFlight>> => AddressInv'
<1>. SUFFICES ASSUME AddressInv, [AddressesNext]_<<addressVars, inFlight>>
              PROVE  AddressInv'
  OBVIOUS
<1>1. CASE UNCHANGED <<addressVars, inFlight>>
  BY <1>1 DEF AddressInv, OneDefault, JobsOK, addressVars, inFlight
<1>2. CASE RemoveAddress
  BY <1>2, RemoveAddressStep
<1>3. ASSUME NEW r \in Requests,
             \/ AskCreateAddress(r) \/ AskUpdateAddress(r)
             \/ ClearDefaults(r) \/ WriteAddress(r) \/ AbandonAddress(r)
      PROVE  AddressInv'
  BY <1>3, AskAddress, ClearDefaultsStep, WriteAddressStep, AbandonAddressStep
<1>. QED
  BY <1>1, <1>2, <1>3 DEF AddressesNext

\* There are never two default addresses until two requests make one at once:
\* a request that makes a default remembers rows of which none was one, and
\* writes while they are still the rows there are.
THEOREM DefaultsAreUnique == AddressesSpec => []OneDefaultAddress
<1>1. AddressInv => OneDefaultAddress
  <2>1. SUFFICES ASSUME OneDefault PROVE Cardinality(Defaults) <= 1
    BY DEF AddressInv, OneDefaultAddress
  <2>2. CASE Defaults = {}
    BY <2>2, FS_EmptySet
  <2>3. CASE Defaults # {}
    <3>1. PICK i \in Defaults : TRUE
      BY <2>3
    <3>2. Defaults = {i}
      BY <2>1, <3>1 DEF Defaults, OneDefault
    <3>3. Cardinality(Defaults) = 1
      BY <3>2, FS_Singleton
    <3>. QED
      BY <3>3
  <2>. QED
    BY <2>2, <2>3
<1>. QED
  BY <1>1, AddressesInitInv, AddressesNextInv, PTL DEF AddressesSpec

AddressesFit == AddressInv /\ addresses \in [DOMAIN addresses -> BOOLEAN]

\* Each address stays one, and is the default or not.
LEMMA AddressesNextFit ==
  AddressesFit /\ [AddressesNext]_<<addressVars, inFlight>> => AddressesFit'
<1>. SUFFICES ASSUME AddressesFit, [AddressesNext]_<<addressVars, inFlight>>
              PROVE  addresses' \in [DOMAIN addresses' -> BOOLEAN]
  BY AddressesNextInv DEF AddressesFit
<1>1. CASE UNCHANGED addressVars
  BY <1>1 DEF AddressesFit, addressVars
<1>2. ASSUME NEW r \in Requests, ClearDefaults(r)
      PROVE  addresses' \in [DOMAIN addresses' -> BOOLEAN]
  BY <1>2 DEF ClearDefaults, cleared
<1>3. ASSUME NEW r \in Requests, WriteAddress(r)
      PROVE  addresses' \in [DOMAIN addresses' -> BOOLEAN]
  <2>. PICK j : j = job[r]
    OBVIOUS
  <2>0. (TRUE \in j.flag) \in BOOLEAN
    OBVIOUS
  <2>1. PICK flag \in BOOLEAN : flag = (TRUE \in j.flag)
    BY <2>0, Zenon
  <2>2. CASE addresses' = Saved(addresses, lastAddress', flag)
    BY <2>2 DEF AddressesFit, Saved
  <2>3. CASE addresses' = [addresses EXCEPT ![j.id] = IF j.flag = {} THEN @ ELSE flag]
    BY <2>3 DEF AddressesFit
  <2>4. \/ addresses' = Saved(addresses, lastAddress', TRUE \in j.flag)
        \/ addresses' = [addresses EXCEPT ![j.id] =
                           IF j.flag = {} THEN @ ELSE TRUE \in j.flag]
    BY <1>3 DEF WriteAddress
  <2>5. \/ addresses' = Saved(addresses, lastAddress', flag)
        \/ addresses' = [addresses EXCEPT ![j.id] =
                           IF j.flag = {} THEN @ ELSE flag]
    BY <2>1, <2>4, Zenon
  <2>. QED
    BY <2>2, <2>3, <2>5
<1>4. CASE RemoveAddress
  BY <1>4 DEF AddressesFit, RemoveAddress, Removed
<1>5. ASSUME NEW r \in Requests,
             AskCreateAddress(r) \/ AskUpdateAddress(r) \/ AbandonAddress(r)
      PROVE  UNCHANGED addressVars
  BY <1>5 DEF AskCreateAddress, AskUpdateAddress, AbandonAddress
<1>. QED
  BY <1>1, <1>2, <1>3, <1>4, <1>5 DEF AddressesNext

\* The address book begins empty.
LEMMA AddressesInitFit == AddressesInit => AddressesFit
BY AddressesInitInv DEF AddressesInit, AddressesFit

\* Addresses that fit are of their type.
LEMMA AddressesFitTypes == AddressesFit => AddressesTypeOK
BY DEF AddressesFit, AddressInv, AddressesTypeOK

(***************************************************************************)
(* Reviews.                                                                *)
(***************************************************************************)

Row == [status : ReviewStatus, replied : BOOLEAN, images : SUBSET Keys]

Shown(images) == images \in SUBSET Keys /\ \A key \in images : Visible(key)

\* What a request has found so far: no review, then a purchase and images that
\* may be shown.
ReviewJobFits(j) ==
  /\ j.step = "existing" => "images" \in DOMAIN j /\ j.images \in SUBSET Keys
  /\ j.step = "purchase" =>
       /\ {"images", "was"} \subseteq DOMAIN j
       /\ j.images \in SUBSET Keys /\ j.was = {}
  /\ j.step = "review" =>
       /\ {"images", "was"} \subseteq DOMAIN j
       /\ Shown(j.images) /\ j.was = {} /\ orderStatus # "PENDING"
  /\ j.step = "status" => "status" \in DOMAIN j /\ j.status \in ReviewStatus

ReviewInv ==
  /\ reviews \in [DOMAIN reviews -> Row]
  /\ lastReview \in Nat /\ DOMAIN reviews \subseteq 1..lastReview
  /\ JobsOK
  /\ \A r \in Requests : ReviewJobFits(job[r])
  /\ DOMAIN reviews # {} => orderStatus # "PENDING"
  /\ \A id \in DOMAIN reviews : Shown(reviews[id].images)
  /\ ~overtaken => \A i, k \in DOMAIN reviews : i = k

\* A request moved on, and the reviews and the order are those there were.
LEMMA ReviewMoves ==
  ASSUME ReviewInv, UNCHANGED <<orderStatus, reviews, lastReview>>,
         NEW r \in Requests, JobsOK', overtaken' = overtaken,
         \A q \in Requests \ {r} : job'[q] = job[q],
         ReviewJobFits(job'[r])
  PROVE  ReviewInv'
<1>1. \A q \in Requests : ReviewJobFits(job[q])'
  BY DEF ReviewInv, ReviewJobFits
<1>. QED
  BY <1>1 DEF ReviewInv

\* A request that answers leaves the reviews to the others.
LEMMA EndsReview ==
  ASSUME ReviewInv, NEW r \in Requests, End(r),
         UNCHANGED <<orderStatus, reviews, lastReview>>
  PROVE  ReviewInv'
<1>1. Settle(r, FALSE) /\ JobsOK /\ overtaken \in BOOLEAN
  BY DEF End, ReviewInv, JobsOK
<1>2. /\ JobsOK' /\ overtaken' = overtaken /\ job'[r].step = "idle"
      /\ \A q \in Requests \ {r} : job'[q] = job[q]
  BY <1>1, Settling
<1>3. ReviewJobFits(job'[r])
  BY <1>2 DEF ReviewJobFits
<1>. QED
  BY <1>2, <1>3, ReviewMoves

\* A request begins with what a form may hold.
LEMMA BeginsReview ==
  ASSUME ReviewInv, NEW r \in Requests, NEW what, Begin(r, what),
         "step" \in DOMAIN what, ReviewJobFits(what),
         what["step"] \notin {"purchase", "review"},
         UNCHANGED <<orderStatus, reviews, lastReview>>
  PROVE  ReviewInv'
<1>1. /\ JobsOK' /\ overtaken' = overtaken
      /\ \A q \in Requests \ {r} : job'[q] = job[q]
      /\ DOMAIN what \subseteq DOMAIN job'[r]
      /\ \A f \in DOMAIN what : job'[r][f] = what[f]
  BY Beginning DEF ReviewInv
<1>2. ReviewJobFits(job'[r])
  <2>1. job'[r].step = what["step"]
    BY <1>1
  <2>2. what["step"] = "existing" => "images" \in DOMAIN job'[r]
                                   /\ job'[r].images \in SUBSET Keys
    BY <1>1 DEF ReviewJobFits
  <2>3. what["step"] = "status" => "status" \in DOMAIN job'[r]
                                 /\ job'[r].status \in ReviewStatus
    BY <1>1 DEF ReviewJobFits
  <2>. QED
    BY <2>1, <2>2, <2>3 DEF ReviewJobFits
<1>. QED
  BY <1>1, <1>2, ReviewMoves

\* A review that is asked for has been checked for nothing yet.
LEMMA AskReviewStep ==
  ASSUME ReviewInv, NEW r \in Requests, AskReview(r)
  PROVE  ReviewInv'
<1>1. PICK images \in SUBSET Keys :
        Begin(r, [step |-> "existing", images |-> images])
  BY DEF AskReview
<1>. DEFINE what == [step |-> "existing", images |-> images]
<1>2. /\ "step" \in DOMAIN what /\ ReviewJobFits(what)
      /\ what["step"] \notin {"purchase", "review"}
  BY DEF ReviewJobFits
<1>3. Begin(r, what) /\ UNCHANGED <<orderStatus, reviews, lastReview>>
  BY <1>1 DEF AskReview, reviewVars
<1>. HIDE DEF what
<1>. QED
  BY <1>2, <1>3, BeginsReview

\* An admin's request on a review has written nothing when it begins.
LEMMA AskModerationStep ==
  ASSUME ReviewInv, NEW r \in Requests, AskModeration(r)
  PROVE  ReviewInv'
<1>1. UNCHANGED <<orderStatus, reviews, lastReview>>
  BY DEF AskModeration, reviewVars
<1>2. PICK id \in DOMAIN reviews :
        \/ Begin(r, [step |-> "remove", id |-> id])
        \/ Begin(r, [step |-> "reply", id |-> id])
        \/ \E status \in ReviewStatus :
             Begin(r, [step |-> "status", id |-> id, status |-> status])
  BY DEF AskModeration
<1>3. ASSUME NEW s \in {"remove", "reply"}, Begin(r, [step |-> s, id |-> id])
      PROVE  ReviewInv'
  <2>. DEFINE what == [step |-> s, id |-> id]
  <2>1. /\ "step" \in DOMAIN what /\ ReviewJobFits(what)
        /\ what["step"] \notin {"purchase", "review"}
    BY DEF ReviewJobFits
  <2>2. Begin(r, what)
    BY <1>3
  <2>. HIDE DEF what
  <2>. QED
    BY <1>1, <2>1, <2>2, BeginsReview
<1>4. ASSUME NEW status \in ReviewStatus,
             Begin(r, [step |-> "status", id |-> id, status |-> status])
      PROVE  ReviewInv'
  <2>. DEFINE what == [step |-> "status", id |-> id, status |-> status]
  <2>1. /\ "step" \in DOMAIN what /\ ReviewJobFits(what)
        /\ what["step"] \notin {"purchase", "review"}
    BY DEF ReviewJobFits
  <2>2. Begin(r, what)
    BY <1>4
  <2>. HIDE DEF what
  <2>. QED
    BY <1>1, <2>1, <2>2, BeginsReview
<1>. QED
  BY <1>2, <1>3, <1>4

\* An image that is stored shows in no review yet.
LEMMA UploadStep ==
  ASSUME ReviewInv, NEW r \in Requests,
         handleCustomerReviewUpload(r) \/ handleUpload(r)
  PROVE  ReviewInv'
<1>1. PICK key \in Keys : Begin(r, [step |-> "put", key |-> key])
  BY DEF handleCustomerReviewUpload, handleUpload
<1>. DEFINE what == [step |-> "put", key |-> key]
<1>2. /\ "step" \in DOMAIN what /\ ReviewJobFits(what)
      /\ what["step"] \notin {"purchase", "review"}
  BY DEF ReviewJobFits
<1>3. Begin(r, what) /\ UNCHANGED <<orderStatus, reviews, lastReview>>
  BY <1>1 DEF handleCustomerReviewUpload, handleUpload, reviewVars
<1>. HIDE DEF what
<1>. QED
  BY <1>2, <1>3, BeginsReview

\* There was no review, and this is what the request remembers.
LEMMA FindExistingStep ==
  ASSUME ReviewInv, NEW r \in Requests, FindExisting(r)
  PROVE  ReviewInv'
<1>. DEFINE what == [step |-> "purchase", was |-> DOMAIN reviews]
<1>1. /\ At(r, "existing") /\ Proceed(r, what, FALSE)
      /\ UNCHANGED <<orderStatus, reviews, lastReview>>
      /\ DOMAIN reviews = {}
  <2>1. reviews = <<>>
    BY DEF FindExisting, existing
  <2>2. DOMAIN reviews = {}
    BY <2>1
  <2>3. Proceed(r, what, FALSE)
    BY DEF FindExisting, Continue
  <2>. QED
    BY <2>2, <2>3 DEF FindExisting, reviewVars
<1>2. /\ DOMAIN what = {"step", "was"} /\ what["step"] = "purchase"
      /\ what["was"] = {}
  BY <1>1
<1>3. JobsOK /\ overtaken \in BOOLEAN
  BY DEF ReviewInv, JobsOK
<1>. HIDE DEF what
<1>4. /\ JobsOK' /\ overtaken' = overtaken
      /\ \A q \in Requests \ {r} : job'[q] = job[q]
      /\ DOMAIN job'[r] = DOMAIN what \cup DOMAIN job[r]
      /\ \A f \in DOMAIN what : job'[r][f] = what[f]
      /\ \A f \in DOMAIN job[r] \ DOMAIN what : job'[r][f] = job[r][f]
  BY <1>1, <1>3, Proceeding
<1>5. "images" \in DOMAIN job[r] /\ job[r].images \in SUBSET Keys
  BY <1>1 DEF ReviewInv, ReviewJobFits, At
<1>6. /\ {"images", "was"} \subseteq DOMAIN job'[r]
      /\ job'[r].step = "purchase" /\ job'[r].was = {}
      /\ job'[r].images = job[r].images
  BY <1>2, <1>4, <1>5
<1>7. ReviewJobFits(job'[r])
  BY <1>5, <1>6 DEF ReviewJobFits
<1>. QED
  BY <1>1, <1>4, <1>7, ReviewMoves

\* The order is delivered and every image is a public one.
LEMMA FindPurchaseStep ==
  ASSUME ReviewInv, NEW r \in Requests, FindPurchase(r)
  PROVE  ReviewInv'
<1>1. /\ At(r, "purchase") /\ Proceed(r, [step |-> "review"], FALSE)
      /\ UNCHANGED <<orderStatus, reviews, lastReview>>
      /\ orderStatus = "DELIVERED" /\ assertReviewImageKeys(job[r].images)
  BY DEF FindPurchase, Continue, reviewVars, hasDelivered
<1>2. JobsOK /\ overtaken \in BOOLEAN
  BY DEF ReviewInv, JobsOK
<1>3. /\ JobsOK' /\ overtaken' = overtaken /\ job'[r].step = "review"
      /\ \A q \in Requests \ {r} : job'[q] = job[q]
      /\ DOMAIN job'[r] = DOMAIN job[r]
      /\ \A f \in DOMAIN job[r] \ {"step"} : job'[r][f] = job[r][f]
  BY <1>1, <1>2, Stepping
<1>4. /\ {"images", "was"} \subseteq DOMAIN job[r]
      /\ job[r].images \in SUBSET Keys /\ job[r].was = {}
  BY <1>1 DEF ReviewInv, ReviewJobFits, At
<1>5. Shown(job[r].images)
  BY <1>1, <1>4 DEF assertReviewImageKeys, Shown, Visible
<1>6. ReviewJobFits(job'[r])
  BY <1>1, <1>3, <1>4, <1>5 DEF ReviewJobFits
<1>. QED
  BY <1>1, <1>3, <1>6, ReviewMoves

\* A review is written on images that were checked and a delivery found.
LEMMA WriteReviewStep ==
  ASSUME ReviewInv, NEW r \in Requests, WriteReview(r)
  PROVE  ReviewInv'
<1>. DEFINE row == [status |-> "PENDING", replied |-> FALSE,
                    images |-> job[r].images]
<1>1. /\ At(r, "review") /\ lastReview' = lastReview + 1
      /\ reviews' = Saved(reviews, lastReview', row)
      /\ orderStatus' = orderStatus
      /\ Settle(r, DOMAIN reviews # job[r].was)
  BY DEF WriteReview
<1>2. /\ JobsOK' /\ overtaken' = (overtaken \/ DOMAIN reviews # job[r].was)
      /\ job'[r].step = "idle"
      /\ \A q \in Requests \ {r} : job'[q] = job[q]
  BY <1>1, Settling DEF ReviewInv
<1>3. /\ Shown(job[r].images) /\ job[r].was = {} /\ orderStatus # "PENDING"
  BY <1>1 DEF ReviewInv, ReviewJobFits, At
<1>4. row \in Row /\ Shown(row.images)
  BY <1>3 DEF Row, ReviewStatus, Shown
<1>. HIDE DEF row
<1>5. /\ DOMAIN reviews' = DOMAIN reviews \cup {lastReview'}
      /\ reviews'[lastReview'] = row
      /\ \A i \in DOMAIN reviews \ {lastReview'} : reviews'[i] = reviews[i]
  BY <1>1 DEF Saved
<1>6. reviews' \in [DOMAIN reviews' -> Row]
  <2>1. \A i \in DOMAIN reviews' : reviews'[i] \in Row
    BY <1>4, <1>5 DEF ReviewInv
  <2>2. reviews' = [i \in DOMAIN reviews' |-> reviews'[i]]
    BY <1>1 DEF Saved
  <2>. QED
    BY <2>1, <2>2
<1>7. lastReview' \in Nat /\ DOMAIN reviews' \subseteq 1..lastReview'
  BY <1>1, <1>5 DEF ReviewInv
<1>8. \A q \in Requests : ReviewJobFits(job[q])'
  BY <1>1, <1>2 DEF ReviewInv, ReviewJobFits
<1>9. \A i \in DOMAIN reviews' : Shown(reviews'[i].images)
  BY <1>4, <1>5 DEF ReviewInv
<1>10. ~overtaken' => \A i, k \in DOMAIN reviews' : i = k
  BY <1>2, <1>3, <1>5
<1>. QED
  BY <1>1, <1>2, <1>3, <1>6, <1>7, <1>8, <1>9, <1>10 DEF ReviewInv

\* Moderation keeps what a review shows, or removes it.
LEMMA ModerateStep ==
  ASSUME ReviewInv, NEW r \in Requests, Moderate(r)
  PROVE  ReviewInv'
<1>1. /\ Settle(r, FALSE) /\ UNCHANGED <<orderStatus, lastReview>>
      /\ JobsOK /\ overtaken \in BOOLEAN
  BY DEF Moderate, End, ReviewInv, JobsOK
<1>2. /\ JobsOK' /\ overtaken' = overtaken /\ job'[r].step = "idle"
      /\ \A q \in Requests \ {r} : job'[q] = job[q]
  BY <1>1, Settling
<1>3. \A q \in Requests : ReviewJobFits(job[q])'
  BY <1>1, <1>2 DEF ReviewInv, ReviewJobFits
<1>4. /\ reviews' \in [DOMAIN reviews' -> Row]
      /\ DOMAIN reviews' \subseteq DOMAIN reviews
      /\ \A i \in DOMAIN reviews' : reviews'[i].images = reviews[i].images
  <2>. DEFINE id == job[r].id
  <2>0. reviews \in [DOMAIN reviews -> Row] /\ id \in DOMAIN reviews
        /\ reviews[id] \in Row
    BY DEF ReviewInv, Moderate
  <2>1. CASE At(r, "remove")
    <3>1. reviews' = Removed(reviews, id)
      BY <2>1 DEF Moderate, At
    <3>. QED
      BY <2>0, <3>1 DEF Removed
  <2>2. CASE At(r, "reply")
    <3>1. reviews' = [reviews EXCEPT ![id] =
                        [reviews[id] EXCEPT !.replied = TRUE]]
      BY <2>0, <2>2 DEF Moderate, At
    <3>2. /\ [reviews[id] EXCEPT !.replied = TRUE] \in Row
          /\ [reviews[id] EXCEPT !.replied = TRUE].images = reviews[id].images
      BY <2>0 DEF Row
    <3>. QED
      BY <2>0, <3>1, <3>2
  <2>3. CASE At(r, "status")
    <3>1. reviews' = [reviews EXCEPT ![id] =
                        [reviews[id] EXCEPT !.status = job[r].status]]
      BY <2>0, <2>3 DEF Moderate, At
    <3>2. job[r].status \in ReviewStatus
      BY <2>3 DEF ReviewInv, ReviewJobFits, At
    <3>3. /\ [reviews[id] EXCEPT !.status = job[r].status] \in Row
          /\ [reviews[id] EXCEPT !.status = job[r].status].images
               = reviews[id].images
      BY <2>0, <3>2 DEF Row
    <3>. QED
      BY <2>0, <3>1, <3>3
  <2>. QED
    BY <2>1, <2>2, <2>3 DEF Moderate, At
<1>. QED
  BY <1>1, <1>2, <1>3, <1>4 DEF ReviewInv

\* An order that was delivered once is never pending again.
LEMMA OrderStep ==
  ASSUME ReviewInv,
         Order("PENDING", "DELIVERED") \/ Order("DELIVERED", "RETURNED")
  PROVE  ReviewInv'
<1>1. /\ UNCHANGED <<reviews, lastReview, job, overtaken>>
      /\ orderStatus' # "PENDING"
  BY DEF Order, inFlight
<1>2. \A q \in Requests : ReviewJobFits(job[q])'
  BY <1>1 DEF ReviewInv, ReviewJobFits
<1>3. JobsOK'
  BY <1>1 DEF ReviewInv, JobsOK
<1>. QED
  BY <1>1, <1>2, <1>3 DEF ReviewInv

\* There are no reviews and no requests at the start.
LEMMA ReviewsInitInv == ReviewsInit => ReviewInv
<1>. SUFFICES ASSUME ReviewsInit PROVE ReviewInv
  OBVIOUS
<1>1. JobsOK /\ \A r \in Requests : job[r].step = "idle"
  BY Starting DEF ReviewsInit
<1>2. lastReview = 0 /\ reviews = <<>> /\ DOMAIN reviews = {}
  BY DEF ReviewsInit
<1>3. reviews \in [DOMAIN reviews -> Row]
  BY <1>2
<1>. QED
  BY <1>1, <1>2, <1>3 DEF ReviewInv, ReviewJobFits

\* Every step on reviews preserves the invariant.
LEMMA ReviewsNextInv ==
  ReviewInv /\ [ReviewsNext]_<<reviewVars, inFlight>> => ReviewInv'
<1>. SUFFICES ASSUME ReviewInv, [ReviewsNext]_<<reviewVars, inFlight>>
              PROVE  ReviewInv'
  OBVIOUS
<1>1. CASE UNCHANGED <<reviewVars, inFlight>>
  <2>1. UNCHANGED <<orderStatus, reviews, lastReview, job, overtaken>>
    BY <1>1 DEF reviewVars, inFlight
  <2>2. (\A q \in Requests : ReviewJobFits(job[q])') /\ JobsOK'
    BY <2>1 DEF ReviewInv, ReviewJobFits, JobsOK
  <2>. QED
    BY <2>1, <2>2 DEF ReviewInv
<1>2. CASE Order("PENDING", "DELIVERED") \/ Order("DELIVERED", "RETURNED")
  BY <1>2, OrderStep
<1>3. ASSUME NEW r \in Requests, Put(r) \/ AbandonReview(r)
      PROVE  ReviewInv'
  BY <1>3, EndsReview DEF Put, AbandonReview, Interrupt, reviewVars
<1>4. ASSUME NEW r \in Requests,
             \/ AskReview(r) \/ FindExisting(r) \/ FindPurchase(r)
             \/ WriteReview(r) \/ AskModeration(r) \/ Moderate(r)
             \/ handleCustomerReviewUpload(r) \/ handleUpload(r)
      PROVE  ReviewInv'
  BY <1>4, AskReviewStep, FindExistingStep, FindPurchaseStep, WriteReviewStep,
     AskModerationStep, ModerateStep, UploadStep
<1>. QED
  BY <1>1, <1>2, <1>3, <1>4 DEF ReviewsNext

\* A review is of a product that was delivered and shows nothing private, and it
\* is the customer's only one until two are sent at once: what a request found at
\* its first two reads still holds of what it writes at the third.
THEOREM ReviewsAreEarned == ReviewsSpec => []ReviewIsEarned
<1>1. ReviewInv => ReviewIsEarned
  <2>1. SUFFICES ASSUME ReviewInv PROVE ReviewIsEarned
    OBVIOUS
  <2>2. reviews # <<>> => DOMAIN reviews # {}
    BY <2>1 DEF ReviewInv
  <2>3. ~overtaken => Cardinality(DOMAIN reviews) <= 1
    <3>1. CASE DOMAIN reviews = {}
      BY <3>1, FS_EmptySet
    <3>2. CASE DOMAIN reviews # {} /\ ~overtaken
      <4>1. PICK i \in DOMAIN reviews : TRUE
        BY <3>2
      <4>2. DOMAIN reviews = {i}
        BY <2>1, <3>2, <4>1 DEF ReviewInv
      <4>3. Cardinality(DOMAIN reviews) = 1
        BY <4>2, FS_Singleton
      <4>. QED
        BY <4>3
    <3>. QED
      BY <3>1, <3>2
  <2>. QED
    BY <2>1, <2>2, <2>3 DEF ReviewInv, ReviewIsEarned, Shown
<1>. QED
  BY <1>1, ReviewsInitInv, ReviewsNextInv, PTL DEF ReviewsSpec

UploadFits(j) == j.step = "put" => "key" \in DOMAIN j /\ j.key \in Keys

ReviewsFit ==
  /\ ReviewInv
  /\ orderStatus \in {"PENDING", "DELIVERED", "RETURNED"}
  /\ lastReview <= MaxReviews
  /\ stored \subseteq Keys
  /\ \A r \in Requests : UploadFits(job[r])

\* Reviews that fit are of their types.
LEMMA ReviewsFitTypes == ReviewsFit => ReviewsTypeOK
BY ReviewsBound DEF ReviewsFit, ReviewInv, ReviewsTypeOK, Row

\* There are no reviews and no files at first.
LEMMA ReviewsInitFit == ReviewsInit => ReviewsFit
<1>. SUFFICES ASSUME ReviewsInit PROVE ReviewsFit
  OBVIOUS
<1>1. RequestsInit
  BY DEF ReviewsInit
<1>2. \A r \in Requests : UploadFits(job[r])
  BY <1>1, Starting DEF UploadFits
<1>. QED
  BY <1>2, ReviewsInitInv, ReviewsBound DEF ReviewsInit, ReviewsFit

\* A request that begins to store a file has its key.
LEMMA UploadBegins ==
  ASSUME JobsOK, NEW r \in Requests, NEW what, Begin(r, what),
         "step" \in DOMAIN what, UploadFits(what),
         \A q \in Requests : UploadFits(job[q])
  PROVE  \A q \in Requests : UploadFits(job'[q])
<1>1. /\ \A q \in Requests \ {r} : job'[q] = job[q]
      /\ DOMAIN what \subseteq DOMAIN job'[r]
      /\ \A f \in DOMAIN what : job'[r][f] = what[f]
  BY Beginning
<1>2. job'[r].step = what.step /\ ("key" \in DOMAIN what => job'[r].key = what.key)
  BY <1>1
<1>3. UploadFits(job'[r])
  BY <1>1, <1>2 DEF UploadFits
<1>. QED
  BY <1>1, <1>3

\* A request that goes on stores no file.
LEMMA UploadMoves ==
  ASSUME JobsOK, NEW r \in Requests, NEW what, Continue(r, what),
         "step" \in DOMAIN what, what["step"] # "put",
         \A q \in Requests : UploadFits(job[q])
  PROVE  \A q \in Requests : UploadFits(job'[q])
<1>1. Proceed(r, what, FALSE) /\ FALSE \in BOOLEAN
  BY DEF Continue
<1>2. /\ \A q \in Requests \ {r} : job'[q] = job[q]
      /\ \A f \in DOMAIN what : job'[r][f] = what[f]
  BY <1>1, Proceeding
<1>3. UploadFits(job'[r])
  BY <1>2 DEF UploadFits
<1>. QED
  BY <1>2, <1>3

\* A request that answers stores no file.
LEMMA UploadEnds ==
  ASSUME JobsOK, NEW r \in Requests, NEW stale \in BOOLEAN, Settle(r, stale),
         \A q \in Requests : UploadFits(job[q])
  PROVE  \A q \in Requests : UploadFits(job'[q])
<1>1. /\ \A q \in Requests \ {r} : job'[q] = job[q]
      /\ job'[r].step = "idle"
  BY Settling
<1>. QED
  BY <1>1 DEF UploadFits

\* Every step of the reviews keeps them, and the files, of their kinds.
LEMMA ReviewsNextFit ==
  ReviewsFit /\ [ReviewsNext]_<<reviewVars, inFlight>> => ReviewsFit'
<1>. DEFINE Statuses == {"PENDING", "DELIVERED", "RETURNED"}
            Rest == /\ orderStatus' \in Statuses
                    /\ lastReview' <= MaxReviews
                    /\ stored' \subseteq Keys
            Uploads == \A q \in Requests : UploadFits(job'[q])
<1>. SUFFICES ASSUME ReviewsFit, [ReviewsNext]_<<reviewVars, inFlight>>
              PROVE  Rest /\ Uploads
  BY ReviewsNextInv DEF ReviewsFit
<1>0. /\ JobsOK /\ \A q \in Requests : UploadFits(job[q])
      /\ lastReview \in Nat
  BY DEF ReviewsFit, ReviewInv
<1>1. ASSUME UNCHANGED reviewVars PROVE Rest
  BY <1>1 DEF ReviewsFit, reviewVars
<1>2. ASSUME NEW r \in Requests, AskReview(r) PROVE Rest /\ Uploads
  <2>1. PICK images : Begin(r, [step |-> "existing", images |-> images])
    BY <1>2 DEF AskReview
  <2>. DEFINE what == [step |-> "existing", images |-> images]
  <2>2. "step" \in DOMAIN what /\ UploadFits(what)
    BY DEF UploadFits
  <2>. HIDE DEF what
  <2>3. Begin(r, what)
    BY <2>1 DEF what
  <2>4. Uploads
    BY ONLY <1>0, <2>2, <2>3, UploadBegins, r \in Requests
  <2>. QED
    BY <1>1, <1>2, <2>4 DEF AskReview
<1>3. ASSUME NEW r \in Requests, AskModeration(r) PROVE Rest /\ Uploads
  <2>1. PICK what : /\ Begin(r, what)
                    /\ "step" \in DOMAIN what /\ what["step"] # "put"
    <3>1. PICK id, status :
            \/ Begin(r, [step |-> "remove", id |-> id])
            \/ Begin(r, [step |-> "reply", id |-> id])
            \/ Begin(r, [step |-> "status", id |-> id, status |-> status])
      BY <1>3 DEF AskModeration
    <3>. QED
      BY <3>1
  <2>2. UploadFits(what)
    BY <2>1 DEF UploadFits
  <2>3. Uploads
    BY <1>0, <2>1, <2>2, UploadBegins
  <2>. QED
    BY <1>1, <1>3, <2>3 DEF AskModeration
<1>4. ASSUME NEW r \in Requests, handleCustomerReviewUpload(r) \/ handleUpload(r)
      PROVE  Rest /\ Uploads
  <2>1. PICK key \in Keys : Begin(r, [step |-> "put", key |-> key])
    BY <1>4 DEF handleCustomerReviewUpload, handleUpload
  <2>. DEFINE what == [step |-> "put", key |-> key]
  <2>2. "step" \in DOMAIN what /\ UploadFits(what)
    BY DEF UploadFits
  <2>. HIDE DEF what
  <2>3. Begin(r, what)
    BY <2>1 DEF what
  <2>4. Uploads
    BY <1>0, <2>2, <2>3, UploadBegins
  <2>. QED
    BY <1>1, <1>4, <2>4 DEF handleCustomerReviewUpload, handleUpload
<1>5. ASSUME NEW r \in Requests, FindExisting(r) \/ FindPurchase(r)
      PROVE  Rest /\ Uploads
  <2>1. PICK what : /\ Continue(r, what)
                    /\ "step" \in DOMAIN what /\ what["step"] # "put"
    <3>1. \/ Continue(r, [step |-> "purchase", was |-> DOMAIN reviews])
          \/ Continue(r, [step |-> "review"])
      BY <1>5 DEF FindExisting, FindPurchase
    <3>. QED
      BY <3>1
  <2>2. Uploads
    BY <1>0, <2>1, UploadMoves
  <2>. QED
    BY <1>1, <1>5, <2>2 DEF FindExisting, FindPurchase
<1>6. ASSUME NEW r \in Requests, WriteReview(r) PROVE Rest /\ Uploads
  <2>1. /\ Settle(r, DOMAIN reviews # job[r].was)
        /\ lastReview < MaxReviews /\ lastReview' = lastReview + 1
        /\ UNCHANGED <<orderStatus, stored>>
    BY <1>6 DEF WriteReview
  <2>2. Uploads
    BY <1>0, <2>1, UploadEnds
  <2>. QED
    BY <1>0, <2>1, <2>2, ReviewsBound DEF ReviewsFit
<1>7. ASSUME NEW r \in Requests, Moderate(r) PROVE Rest /\ Uploads
  <2>1. Settle(r, FALSE) /\ UNCHANGED <<orderStatus, lastReview, stored>>
    BY <1>7 DEF Moderate, End
  <2>2. Uploads
    BY <1>0, <2>1, UploadEnds
  <2>. QED
    BY <2>1, <2>2 DEF ReviewsFit
<1>8. ASSUME NEW r \in Requests, Put(r) PROVE Rest /\ Uploads
  <2>1. /\ Settle(r, FALSE) /\ UNCHANGED <<orderStatus, lastReview>>
        /\ stored' = stored \cup {job[r].key} /\ job[r].step = "put"
    BY <1>8 DEF Put, End, At
  <2>2. Uploads
    BY <1>0, <2>1, UploadEnds
  <2>3. job[r].key \in Keys
    BY <1>0, <2>1 DEF UploadFits
  <2>. QED
    BY <2>1, <2>2, <2>3 DEF ReviewsFit
<1>9. ASSUME NEW r \in Requests, AbandonReview(r) PROVE Rest /\ Uploads
  <2>1. Settle(r, FALSE)
    BY <1>9 DEF AbandonReview, Interrupt, End
  <2>2. Uploads
    BY <1>0, <2>1, UploadEnds
  <2>. QED
    BY <1>1, <1>9, <2>2 DEF AbandonReview
<1>10. CASE Order("PENDING", "DELIVERED") \/ Order("DELIVERED", "RETURNED")
  BY <1>0, <1>10 DEF Order, ReviewsFit, inFlight
<1>11. CASE UNCHANGED <<reviewVars, inFlight>>
  BY <1>0, <1>1, <1>11 DEF inFlight
<1>. QED
  BY <1>2, <1>3, <1>4, <1>5, <1>6, <1>7, <1>8, <1>9, <1>10, <1>11
     DEF ReviewsNext

(***************************************************************************)
(* Support tickets.                                                        *)
(***************************************************************************)

Senders == {"customer", "admin"}

TicketJobFits(j) ==
  j.step \in {"message", "status"} => "sender" \in DOMAIN j /\ j.sender \in Senders

Unheard ==
  \E i \in DOMAIN ticket.messages :
    ticket.messages[i] = "customer" /\ ~(i <= settledAt)

Reopening(r) == At(r, "status") /\ job[r].sender = "customer"

\* Whoever wrote what is unheard in a finished ticket is about to reopen it.
TicketInv ==
  /\ ticket \in [status : TicketStatus, messages : Seq(Senders)]
  /\ settledAt \in 0 .. Len(ticket.messages)
  /\ unfinished \in BOOLEAN
  /\ JobsOK
  /\ \A r \in Requests : TicketJobFits(job[r])
  /\ (ticket.status \in Finished /\ Unheard /\ ~overtaken /\ ~unfinished)
       => \E r \in Requests : Reopening(r)

\* A message begins with the status it read.
LEMMA AskMessageStep ==
  ASSUME TicketInv, NEW r \in Requests, AskMessage(r)
  PROVE  TicketInv'
<1>1. PICK sender \in Senders :
        Begin(r, [step |-> "message", sender |-> sender,
                  status |-> ticket.status])
  BY DEF AskMessage, Senders
<1>2. UNCHANGED <<ticket, settledAt, unfinished>>
  BY DEF AskMessage, ticketVars
<1>. DEFINE what == [step |-> "message", sender |-> sender,
                     status |-> ticket.status]
<1>3. /\ DOMAIN what = {"step", "sender", "status"}
      /\ what["step"] = "message" /\ what["sender"] = sender
  OBVIOUS
<1>4. /\ JobsOK' /\ overtaken' = overtaken /\ job[r].step = "idle"
      /\ \A q \in Requests \ {r} : job'[q] = job[q]
      /\ DOMAIN what \subseteq DOMAIN job'[r]
      /\ \A f \in DOMAIN what : job'[r][f] = what[f]
  <2>1. Begin(r, what)
    BY <1>1
  <2>2. "step" \in DOMAIN what
    BY <1>3
  <2>. HIDE DEF what
  <2>. QED
    BY <2>1, <2>2, Beginning DEF TicketInv
<1>5. TicketJobFits(job'[r])
  <2>1. "sender" \in DOMAIN job'[r] /\ job'[r].sender = sender
    BY <1>3, <1>4
  <2>. QED
    BY <2>1 DEF TicketJobFits
<1>6. \A q \in Requests : Reopening(q) => Reopening(q)'
  BY <1>4 DEF Reopening, At
<1>. QED
  BY <1>2, <1>4, <1>5, <1>6 DEF TicketInv, Unheard

\* A customer's message either finds the ticket open or is about to reopen it.
LEMMA WriteMessageStep ==
  ASSUME TicketInv, NEW r \in Requests, WriteMessage(r)
  PROVE  TicketInv'
<1>. DEFINE j == job[r]
            n == Len(ticket.messages)
<1>1. /\ At(r, "message") /\ j.sender \in Senders
      /\ UNCHANGED <<settledAt, unfinished>>
      /\ overtaken \in BOOLEAN /\ JobsOK
      /\ ticket' = [ticket EXCEPT !.messages = Append(@, j.sender)]
  BY DEF WriteMessage, TicketInv, TicketJobFits, At, JobsOK
<1>2. /\ ticket'.status = ticket.status
      /\ ticket'.messages = Append(ticket.messages, j.sender)
      /\ ticket' \in [status : TicketStatus, messages : Seq(Senders)]
  <2>1. ticket \in [status : TicketStatus, messages : Seq(Senders)]
    BY DEF TicketInv
  <2>2. Append(ticket.messages, j.sender) \in Seq(Senders)
    BY <1>1, <2>1
  <2>. QED
    BY <1>1, <2>1, <2>2
<1>3. /\ n \in Nat /\ DOMAIN ticket.messages = 1..n
      /\ DOMAIN ticket'.messages = 1 .. n + 1
      /\ \A i \in 1..n : ticket'.messages[i] = ticket.messages[i]
      /\ ticket'.messages[n + 1] = j.sender
      /\ settledAt' \in 0 .. Len(ticket'.messages)
  <2>1. ticket.messages \in Seq(Senders) /\ settledAt \in 0..n
    BY DEF TicketInv
  <2>2. settledAt' = settledAt
    BY <1>1
  <2>. QED
    BY <1>1, <1>2, <2>1, <2>2
<1>4. j.sender = "admin" => (Unheard' => Unheard)
  BY <1>1, <1>3 DEF Unheard
<1>5. CASE movesTicket(j.sender, j.status)
  <2>1. Proceed(r, [step |-> "status"], FALSE)
    BY <1>5 DEF WriteMessage, Continue
  <2>2. /\ JobsOK' /\ overtaken' = overtaken /\ job'[r].step = "status"
        /\ \A q \in Requests \ {r} : job'[q] = job[q]
        /\ DOMAIN job'[r] = DOMAIN job[r]
        /\ \A f \in DOMAIN job[r] \ {"step"} : job'[r][f] = job[r][f]
    BY <1>1, <2>1, Stepping
  <2>3. "sender" \in DOMAIN job'[r] /\ job'[r].sender = j.sender
    BY <1>1, <2>2 DEF TicketInv, TicketJobFits, At
  <2>4. TicketJobFits(job'[r])
    BY <1>1, <2>3 DEF TicketJobFits
  <2>5. \A q \in Requests : Reopening(q) => Reopening(q)'
    BY <1>1, <2>2 DEF Reopening, At
  <2>6. j.sender = "customer" => Reopening(r)'
    BY <2>2, <2>3 DEF Reopening, At
  <2>7. (ticket'.status \in Finished /\ Unheard' /\ ~overtaken' /\ ~unfinished')
          => \E q \in Requests : Reopening(q)'
    BY <1>1, <1>2, <1>4, <2>2, <2>5, <2>6 DEF TicketInv, Senders
  <2>. QED
    BY <1>1, <1>2, <1>3, <2>2, <2>4, <2>7 DEF TicketInv
<1>6. CASE ~movesTicket(j.sender, j.status)
  <2>1. Settle(r, ticket.status # j.status)
    BY <1>6 DEF WriteMessage
  <2>2. /\ JobsOK' /\ overtaken' = (overtaken \/ ticket.status # j.status)
        /\ job'[r].step = "idle"
        /\ \A q \in Requests \ {r} : job'[q] = job[q]
    BY <1>1, <2>1, Settling
  <2>3. TicketJobFits(job'[r])
    BY <2>2 DEF TicketJobFits
  <2>4. \A q \in Requests : Reopening(q) => Reopening(q)'
    BY <1>1, <2>2 DEF Reopening, At
  <2>5. j.sender = "customer" => j.status \notin Finished
    BY <1>6 DEF movesTicket
  <2>6. (ticket'.status \in Finished /\ Unheard' /\ ~overtaken' /\ ~unfinished')
          => \E q \in Requests : Reopening(q)'
    BY <1>1, <1>2, <1>4, <2>2, <2>4, <2>5 DEF TicketInv, Senders
  <2>. QED
    BY <1>1, <1>2, <1>3, <2>2, <2>3, <2>6 DEF TicketInv
<1>. QED
  BY <1>5, <1>6

\* The status a message asked for settles nothing the customer said since.
LEMMA WriteStatusStep ==
  ASSUME TicketInv, NEW r \in Requests, WriteStatus(r)
  PROVE  TicketInv'
<1>1. /\ Settle(r, ticket.status # job[r].status)
      /\ UNCHANGED <<settledAt, unfinished>>
      /\ ticket' = [ticket EXCEPT !.status =
           IF job[r].sender = "customer" THEN "OPEN" ELSE "IN_PROGRESS"]
  BY DEF WriteStatus
<1>2. /\ JobsOK' /\ job'[r].step = "idle"
      /\ \A q \in Requests \ {r} : job'[q] = job[q]
  BY <1>1, Settling DEF TicketInv
<1>3. TicketJobFits(job'[r])
  BY <1>2 DEF TicketJobFits
<1>4. /\ ticket'.status \in {"OPEN", "IN_PROGRESS"}
      /\ ticket'.messages = ticket.messages
      /\ ticket' \in [status : TicketStatus, messages : Seq(Senders)]
  BY <1>1 DEF TicketInv, TicketStatus
<1>5. ticket'.status \notin Finished
  BY <1>4 DEF Finished
<1>. QED
  BY <1>1, <1>2, <1>3, <1>4, <1>5 DEF TicketInv

\* An admin who sets the status has seen every message there is.
LEMMA UpdateTicketStep ==
  ASSUME TicketInv, updateTicket
  PROVE  TicketInv'
<1>1. PICK status \in TicketStatus : ticket' = [ticket EXCEPT !.status = status]
  BY DEF updateTicket
<1>2. /\ settledAt' = Len(ticket.messages)
      /\ UNCHANGED <<unfinished, job, overtaken>>
  BY DEF updateTicket, inFlight
<1>3. /\ ticket'.messages = ticket.messages
      /\ ticket' \in [status : TicketStatus, messages : Seq(Senders)]
      /\ Len(ticket.messages) \in Nat
      /\ DOMAIN ticket.messages = 1 .. Len(ticket.messages)
  BY <1>1 DEF TicketInv
<1>4. ~Unheard'
  BY <1>2, <1>3 DEF Unheard
<1>5. JobsOK' /\ \A r \in Requests : TicketJobFits(job'[r])
  BY <1>2 DEF TicketInv, JobsOK
<1>6. settledAt' \in 0 .. Len(ticket'.messages)
  BY <1>2, <1>3
<1>. QED
  BY <1>2, <1>3, <1>4, <1>5, <1>6 DEF TicketInv

\* A message whose status was not written is remembered as unfinished.
LEMMA AbandonMessageStep ==
  ASSUME TicketInv, NEW r \in Requests, AbandonMessage(r)
  PROVE  TicketInv'
<1>1. /\ Settle(r, FALSE) /\ UNCHANGED <<ticket, settledAt>>
      /\ unfinished' = (unfinished \/ At(r, "status"))
      /\ JobsOK /\ overtaken \in BOOLEAN
  BY DEF AbandonMessage, Interrupt, End, TicketInv, JobsOK
<1>2. /\ JobsOK' /\ overtaken' = overtaken /\ job'[r].step = "idle"
      /\ \A q \in Requests \ {r} : job'[q] = job[q]
  BY <1>1, Settling
<1>3. TicketJobFits(job'[r]) /\ unfinished' \in BOOLEAN
  BY <1>1, <1>2 DEF TicketJobFits
<1>4. ~unfinished' => ~unfinished /\
        \A q \in Requests : Reopening(q) => Reopening(q)'
  BY <1>1, <1>2 DEF Reopening, At
<1>5. Unheard' = Unheard
  BY <1>1 DEF Unheard
<1>. QED
  BY <1>1, <1>2, <1>3, <1>4, <1>5 DEF TicketInv

\* A ticket starts open, with its first message and no requests.
LEMMA TicketsInitInv == TicketsInit => TicketInv
<1>. SUFFICES ASSUME TicketsInit PROVE TicketInv
  OBVIOUS
<1>1. JobsOK /\ \A r \in Requests : job[r].step = "idle"
  BY Starting DEF TicketsInit
<1>2. /\ ticket = [status |-> "OPEN", messages |-> <<"customer">>]
      /\ settledAt = 0 /\ unfinished = FALSE
  BY DEF TicketsInit
<1>3. /\ ticket \in [status : TicketStatus, messages : Seq(Senders)]
      /\ Len(ticket.messages) = 1 /\ ticket.status \notin Finished
  BY <1>2 DEF TicketStatus, Senders, Finished
<1>4. settledAt \in 0 .. Len(ticket.messages) /\ unfinished \in BOOLEAN
  <2>1. settledAt = 0 /\ unfinished = FALSE
    BY <1>2, Zenon
  <2>2. 0 \in 0 .. Len(ticket.messages)
    BY <1>3, SMT
  <2>3. settledAt \in 0 .. Len(ticket.messages)
    BY <2>1, <2>2, Zenon
  <2>. QED
    BY <2>1, <2>3, Zenon
<1>5. \A r \in Requests : TicketJobFits(job[r])
  BY <1>1 DEF TicketJobFits
<1>. QED
  BY <1>1, <1>3, <1>4, <1>5 DEF TicketInv

\* Every step on a ticket preserves the invariant.
LEMMA TicketsNextInv ==
  TicketInv /\ [TicketsNext]_<<ticketVars, inFlight>> => TicketInv'
<1>. SUFFICES ASSUME TicketInv, [TicketsNext]_<<ticketVars, inFlight>>
              PROVE  TicketInv'
  OBVIOUS
<1>1. CASE UNCHANGED <<ticketVars, inFlight>>
  BY <1>1 DEF TicketInv, Unheard, Reopening, At, JobsOK, ticketVars, inFlight
<1>2. CASE updateTicket
  BY <1>2, UpdateTicketStep
<1>3. ASSUME NEW r \in Requests,
             \/ AskMessage(r) \/ WriteMessage(r)
             \/ WriteStatus(r) \/ AbandonMessage(r)
      PROVE  TicketInv'
  BY <1>3, AskMessageStep, WriteMessageStep, WriteStatusStep,
     AbandonMessageStep
<1>. QED
  BY <1>1, <1>2, <1>3 DEF TicketsNext

\* A customer's message never rests in a finished ticket, unless an admin set
\* that with the message there, the status changed while a message was written,
\* or a handler stopped: its own request is about to reopen the ticket.
THEOREM CustomersAreHeard == TicketsSpec => []CustomerIsHeard
<1>1. TicketInv => CustomerIsHeard
  BY DEF TicketInv, CustomerIsHeard, Unheard, Reopening
<1>. QED
  BY <1>1, TicketsInitInv, TicketsNextInv, PTL DEF TicketsSpec

\* A ticket that fits is of its type.
LEMMA TicketsFitTypes == TicketInv => TicketsTypeOK
BY DEF TicketInv, TicketsTypeOK, Senders

(***************************************************************************)
(* Signing in, for any number of codes and of tokens.                      *)
(***************************************************************************)

Code == [purpose : Purposes, age : {"fresh", "open", "expired"},
         attempts : Nat, consumed : BOOLEAN]

Token == [code : Nat, revoked : BOOLEAN, expired : BOOLEAN]

\* What a request knows at each step is there and fits the rows.
JobFits(j) ==
  /\ j.step \in {"signup", "cooldown", "send"} =>
       "purpose" \in DOMAIN j /\ j.purpose \in Purposes
  /\ j.step \in {"count", "consume"} =>
       "code" \in DOMAIN j /\ j.code \in DOMAIN codes
  /\ j.step \in {"stamp", "issue"} =>
       "code" \in DOMAIN j /\ j.code \in {Password} \cup DOMAIN codes
  /\ j.step = "rotate" =>
       /\ "code" \in DOMAIN j /\ "token" \in DOMAIN j
       /\ j.token \in DOMAIN tokens /\ j.code = tokens[j.token].code

RowsFit ==
  /\ codes \in Seq(Code) /\ tokens \in Seq(Token)
  /\ \A t \in DOMAIN tokens : tokens[t].code \in {Password} \cup DOMAIN codes
  /\ JobsOK
  /\ \A r \in Requests : JobFits(job[r])

\* The requests that have compared a wrong code and are about to count it.
Counting(c) == {r \in Requests : At(r, "count") /\ job[r].code = c}

\* What has been counted and what is about to be.
AttemptsInv ==
  \A c \in DOMAIN codes :
    codes[c].attempts + Cardinality(Counting(c))
      <= MaxAttempts + Cardinality(Requests) - 1

Live(t, c) == tokens[t].code = c /\ ~tokens[t].revoked

\* A request that is about to open, or to go on with, the session of a code.
Carries(r, c) == job[r].step \in {"stamp", "issue"} /\ job[r].code = c

\* Before a code is consumed nothing comes of it; after that its session is in
\* one live token or in the hands of one request.
SessionOf(c) ==
  /\ \A s, t \in DOMAIN tokens : Live(s, c) /\ Live(t, c) => s = t
  /\ \A r \in Requests : Carries(r, c) =>
       /\ \A t \in DOMAIN tokens : ~Live(t, c)
       /\ \A q \in Requests : Carries(q, c) => q = r
  /\ ~codes[c].consumed =>
       /\ \A t \in DOMAIN tokens : tokens[t].code # c
       /\ \A r \in Requests : ~Carries(r, c)

SessionsInv == ~overtaken => \A c \in DOMAIN codes : SessionOf(c)

Inv == RowsFit /\ AttemptsInv /\ SessionsInv

-----------------------------------------------------------------------------

\* Counting a request more, or one less, is as finite as the requests.
LEMMA CountingIsFinite ==
  ASSUME NEW S, S \subseteq Requests
  PROVE  /\ IsFiniteSet(S) /\ Cardinality(S) \in Nat
         /\ Cardinality(S) <= Cardinality(Requests)
         /\ Cardinality(Requests) \in Nat
<1>1. IsFiniteSet(Requests)
  BY RequestsAreFinite
<1>2. IsFiniteSet(S) /\ Cardinality(S) <= Cardinality(Requests)
  BY <1>1, FS_Subset
<1>. QED
  BY <1>1, <1>2, FS_CardinalityType

\* Replacing one element of a sequence keeps its length and its type.
LEMMA ReplacedIn ==
  ASSUME NEW S, NEW rows \in Seq(S), NEW i \in DOMAIN rows, NEW row \in S
  PROVE  /\ [rows EXCEPT ![i] = row] \in Seq(S)
         /\ DOMAIN [rows EXCEPT ![i] = row] = DOMAIN rows
<1>1. rows \in [1 .. Len(rows) -> S] /\ Len(rows) \in Nat
  OBVIOUS
<1>2. [rows EXCEPT ![i] = row] \in [1 .. Len(rows) -> S]
  BY <1>1
<1>. QED
  BY <1>1, <1>2, SeqDef

\* Revoking a token changes that token's mark and nothing else.
LEMMA RevokedToken ==
  ASSUME NEW ts \in Seq(Token), NEW t \in DOMAIN ts
  PROVE  /\ revoked(ts, t) \in Seq(Token)
         /\ DOMAIN revoked(ts, t) = DOMAIN ts
         /\ \A i \in DOMAIN ts :
              /\ revoked(ts, t)[i].code = ts[i].code
              /\ ts[i].revoked => revoked(ts, t)[i].revoked
         /\ revoked(ts, t)[t].revoked
<1>1. \A i \in DOMAIN ts : ts[i] \in Token
  OBVIOUS
<1>2. revoked(ts, t) = [ts EXCEPT ![t] = [ts[t] EXCEPT !.revoked = TRUE]]
  BY DEF revoked
<1>3. [ts[t] EXCEPT !.revoked = TRUE] \in Token
  BY <1>1 DEF Token
<1>4. revoked(ts, t) \in Seq(Token) /\ DOMAIN revoked(ts, t) = DOMAIN ts
  BY <1>2, <1>3, ReplacedIn
<1>5. \A i \in DOMAIN ts : revoked(ts, t)[i] =
        IF i = t THEN [ts[t] EXCEPT !.revoked = TRUE] ELSE ts[i]
  BY <1>2
<1>. QED
  BY <1>1, <1>4, <1>5 DEF Token

\* A set of codes that is not empty has a newest one.
LEMMA NewestIsThere ==
  ASSUME NEW n \in Nat, NEW ids, ids \subseteq 1..n, ids # {}
  PROVE  NewestCode(ids) \in ids
<1>. DEFINE Up(c) == c..n
            Ups == {Up(c) : c \in ids}
            Finer == StrictSubsetOrdering(1..n)
<1>1. IsFiniteSet(1..n)
  BY FS_Interval
<1>2. IsWellFoundedOn(Finer, FiniteSubsetsOf(1..n))
  BY FS_StrictSubsetOrderingWellFounded
<1>3. Ups \subseteq FiniteSubsetsOf(1..n) /\ Ups # {}
  <2>1. \A c \in ids : Up(c) \in SUBSET (1..n) /\ IsFiniteSet(Up(c))
    BY FS_Interval
  <2>. QED
    BY <2>1 DEF FiniteSubsetsOf
<1>4. PICK up \in Ups : \A other \in Ups : <<other, up>> \notin Finer
  <2>. HIDE DEF Ups, Finer
  <2>. QED
    BY <1>2, <1>3, WFMin
<1>5. PICK c \in ids : up = Up(c)
  OBVIOUS
<1>6. \A other \in ids : other <= c
  <2>1. TAKE other \in ids
  <2>2. <<Up(other), Up(c)>> \notin Finer
    BY <1>4, <1>5
  <2>3. ASSUME other > c PROVE FALSE
    <3>1. Up(other) \subseteq Up(c) /\ c \in Up(c) /\ c \notin Up(other)
      BY <2>3
    <3>2. Up(other) \in SUBSET (1..n) /\ Up(c) \in SUBSET (1..n)
      OBVIOUS
    <3>. HIDE DEF Up
    <3>. QED
      BY <2>2, <3>1, <3>2 DEF StrictSubsetOrdering
  <2>. QED
    BY <2>3
<1>. QED
  BY <1>6 DEF NewestCode

\* Attempts stay counted when no code is tried more often and no more requests
\* are about to count.
LEMMA NoMoreCounting ==
  ASSUME AttemptsInv, codes \in Seq(Code), codes' \in Seq(Code),
         DOMAIN codes' = DOMAIN codes,
         \A c \in DOMAIN codes : codes'[c].attempts = codes[c].attempts,
         \A c \in DOMAIN codes : Counting(c)' \subseteq Counting(c)
  PROVE  AttemptsInv'
<1>1. SUFFICES ASSUME NEW c \in DOMAIN codes
               PROVE  codes'[c].attempts + Cardinality(Counting(c)')
                        <= MaxAttempts + Cardinality(Requests) - 1
  BY DEF AttemptsInv
<1>2. codes[c].attempts + Cardinality(Counting(c))
        <= MaxAttempts + Cardinality(Requests) - 1
  BY DEF AttemptsInv
<1>3. Counting(c) \subseteq Requests /\ Counting(c)' \subseteq Requests
  BY DEF Counting
<1>4. /\ IsFiniteSet(Counting(c)) /\ Cardinality(Counting(c)) \in Nat
      /\ Cardinality(Counting(c)') \in Nat /\ Cardinality(Requests) \in Nat
  BY <1>3, CountingIsFinite
<1>5. Cardinality(Counting(c)') <= Cardinality(Counting(c))
  BY <1>4, FS_Subset
<1>6. codes[c].attempts \in Nat /\ codes'[c].attempts = codes[c].attempts
  <2>1. codes[c] \in Code
    OBVIOUS
  <2>. QED
    BY <2>1 DEF Code
<1>7. MaxAttempts \in Nat
  BY AttemptsAssumption
<1>. QED
  BY <1>2, <1>4, <1>5, <1>6, <1>7

\* What a step may do that neither tries a code, consumes one, issues a token nor
\* uses one up: one request moves on, codes and tokens grow older.
Quiet(r) ==
  /\ \A q \in Requests \ {r} : job'[q] = job[q]
  /\ codes' \in Seq(Code) /\ DOMAIN codes' = DOMAIN codes
  /\ \A c \in DOMAIN codes : codes'[c].attempts = codes[c].attempts
                            /\ codes'[c].consumed = codes[c].consumed
  /\ tokens' \in Seq(Token) /\ DOMAIN tokens' = DOMAIN tokens
  /\ \A t \in DOMAIN tokens : tokens'[t].code = tokens[t].code
                             /\ (tokens[t].revoked => tokens'[t].revoked)
  /\ overtaken' = overtaken
  /\ job'[r].step # "count"
  /\ job'[r].step \in {"stamp", "issue"} =>
       job'[r].code = Password \/ Carries(r, job'[r].code)

\* Where a request that carries no session stands is of no concern to codes.
LEMMA QuietSteps ==
  ASSUME Inv, NEW r \in Requests, Quiet(r), JobsOK', JobFits(job[r])'
  PROVE  Inv'
<1>1. RowsFit'
  <2>1. \A q \in Requests : JobFits(job[q])'
    <3>1. ASSUME NEW q \in Requests \ {r} PROVE JobFits(job[q])'
      <4>1. job'[q] = job[q] /\ JobFits(job[q])
        BY DEF Inv, RowsFit, Quiet
      <4>. QED
        BY <4>1 DEF JobFits, Quiet
    <3>. QED
      BY <3>1
  <2>2. \A t \in DOMAIN tokens' :
          tokens'[t].code \in {Password} \cup DOMAIN codes'
    BY DEF Inv, RowsFit, Quiet
  <2>. QED
    BY <2>1, <2>2 DEF RowsFit, Quiet
<1>2. AttemptsInv'
  <2>1. \A c \in DOMAIN codes : Counting(c)' \subseteq Counting(c)
    BY DEF Counting, At, Quiet
  <2>. QED
    BY <2>1, NoMoreCounting DEF Inv, RowsFit, Quiet
<1>3. SessionsInv'
  <2>1. SUFFICES ASSUME ~overtaken, NEW c \in DOMAIN codes
                 PROVE  SessionOf(c)'
    BY DEF SessionsInv, Quiet
  <2>2. SessionOf(c)
    BY <2>1 DEF Inv, SessionsInv
  <2>3. \A q \in Requests : Carries(q, c)' => Carries(q, c)
    <3>1. c # Password
      <4>1. c \in 1..Len(codes) /\ Len(codes) \in Nat
        BY DEF Inv, RowsFit
      <4>. QED
        BY <4>1 DEF Password
    <3>. QED
      BY <3>1 DEF Carries, Quiet
  <2>4. \A t \in DOMAIN tokens' : Live(t, c)' => Live(t, c)
    BY DEF Live, Quiet
  <2>5. DOMAIN tokens' = DOMAIN tokens /\ codes'[c].consumed = codes[c].consumed
        /\ \A t \in DOMAIN tokens : tokens'[t].code = tokens[t].code
    BY DEF Quiet
  <2>. QED
    BY <2>2, <2>3, <2>4, <2>5 DEF SessionOf
<1>. QED
  BY <1>1, <1>2, <1>3 DEF Inv

-----------------------------------------------------------------------------
(* The quiet steps. *)

\* A request that only moves on, to a step that carries nothing.
LEMMA MovesOn ==
  ASSUME Inv, NEW r \in Requests, UNCHANGED <<codes, tokens>>,
         JobsOK', overtaken' = overtaken,
         \A q \in Requests \ {r} : job'[q] = job[q],
         JobFits(job'[r]),
         job'[r].step # "count",
         job'[r].step \in {"stamp", "issue"} =>
           job'[r].code = Password \/ Carries(r, job'[r].code)
  PROVE  Inv'
<1>1. Quiet(r)
  BY DEF Quiet, Inv, RowsFit
<1>2. JobFits(job[r])'
  BY DEF JobFits
<1>. QED
  BY <1>1, <1>2, QuietSteps

\* A request that answers leaves codes and tokens as they are.
LEMMA EndsQuietly ==
  ASSUME Inv, NEW r \in Requests, End(r), UNCHANGED <<codes, tokens>>
  PROVE  Inv'
<1>1. JobsOK' /\ overtaken' = overtaken /\ job'[r].step = "idle"
      /\ \A q \in Requests \ {r} : job'[q] = job[q]
  <2>1. Settle(r, FALSE) /\ JobsOK /\ overtaken \in BOOLEAN
    BY DEF End, Inv, RowsFit, JobsOK
  <2>. QED
    BY <2>1, Settling
<1>2. JobFits(job'[r])
  BY <1>1 DEF JobFits
<1>. QED
  BY <1>1, <1>2, MovesOn

\* An address has one purpose at a time.
LEMMA PurposeNow == purposeNow \in Purposes
BY DEF purposeNow, Purposes

\* Asking for a sign-in code changes no code yet.
LEMMA AskCodeStep ==
  ASSUME Inv, NEW r \in Requests, AskCode(r)
  PROVE  Inv'
<1>. DEFINE what == [step |-> IF account.known THEN "cooldown" ELSE "signup",
                     purpose |-> purposeNow]
<1>1. Begin(r, what) /\ UNCHANGED <<codes, tokens>>
  BY DEF AskCode, signInVars
<1>2. JobsOK' /\ overtaken' = overtaken
      /\ (\A q \in Requests \ {r} : job'[q] = job[q])
      /\ DOMAIN what \subseteq DOMAIN job'[r]
      /\ \A f \in DOMAIN what : job'[r][f] = what[f]
  <2>1. JobsOK /\ "step" \in DOMAIN what
    BY DEF Inv, RowsFit
  <2>. HIDE DEF what
  <2>. QED
    BY <1>1, <2>1, Beginning
<1>3. /\ job'[r].step \in {"cooldown", "signup"}
      /\ "purpose" \in DOMAIN job'[r] /\ job'[r].purpose \in Purposes
  BY <1>2, PurposeNow
<1>4. JobFits(job'[r])
  BY <1>3 DEF JobFits
<1>. QED
  BY <1>1, <1>2, <1>3, <1>4, MovesOn

\* Nor does asking for a reset code.
LEMMA AskResetStep ==
  ASSUME Inv, NEW r \in Requests, AskReset(r)
  PROVE  Inv'
<1>. DEFINE what == [step |-> "cooldown", purpose |-> purposeNow]
<1>1. Begin(r, what) /\ UNCHANGED <<codes, tokens>>
  BY DEF AskReset, signInVars
<1>2. JobsOK' /\ overtaken' = overtaken
      /\ (\A q \in Requests \ {r} : job'[q] = job[q])
      /\ DOMAIN what \subseteq DOMAIN job'[r]
      /\ \A f \in DOMAIN what : job'[r][f] = what[f]
  <2>1. JobsOK /\ "step" \in DOMAIN what
    BY DEF Inv, RowsFit
  <2>. HIDE DEF what
  <2>. QED
    BY <1>1, <2>1, Beginning
<1>3. /\ job'[r].step = "cooldown"
      /\ "purpose" \in DOMAIN job'[r] /\ job'[r].purpose \in Purposes
  BY <1>2, PurposeNow
<1>4. JobFits(job'[r])
  BY <1>3 DEF JobFits
<1>. QED
  BY <1>1, <1>2, <1>3, <1>4, MovesOn

\* A new customer's row changes no code.
LEMMA SignUpStep ==
  ASSUME Inv, NEW r \in Requests, SignUp(r)
  PROVE  Inv'
<1>1. /\ Proceed(r, [step |-> "cooldown"], FALSE) /\ UNCHANGED <<codes, tokens>>
      /\ job[r].step = "signup"
  BY DEF SignUp, Continue, At
<1>2. /\ JobsOK' /\ overtaken' = overtaken /\ job'[r].step = "cooldown"
      /\ \A q \in Requests \ {r} : job'[q] = job[q]
      /\ DOMAIN job'[r] = DOMAIN job[r]
      /\ \A f \in DOMAIN job[r] \ {"step"} : job'[r][f] = job[r][f]
  <2>1. JobsOK /\ overtaken \in BOOLEAN
    BY DEF Inv, RowsFit, JobsOK
  <2>. QED
    BY <1>1, <2>1, Stepping
<1>3. JobFits(job'[r])
  <2>1. JobFits(job[r])
    BY DEF Inv, RowsFit
  <2>. QED
    BY <1>1, <1>2, <2>1 DEF JobFits
<1>. QED
  BY <1>1, <1>2, <1>3, MovesOn

\* A customer's verification has compared nothing when it begins.
LEMMA AskVerifyStep ==
  ASSUME Inv, NEW r \in Requests, AskVerify(r)
  PROVE  Inv'
<1>. DEFINE what == [step |-> "find", purpose |-> purposeNow]
<1>1. Begin(r, what) /\ UNCHANGED <<codes, tokens>>
  BY DEF AskVerify, signInVars
<1>2. JobsOK' /\ overtaken' = overtaken
      /\ (\A q \in Requests \ {r} : job'[q] = job[q])
      /\ DOMAIN what \subseteq DOMAIN job'[r]
      /\ \A f \in DOMAIN what : job'[r][f] = what[f]
  <2>1. JobsOK /\ "step" \in DOMAIN what
    BY DEF Inv, RowsFit
  <2>. HIDE DEF what
  <2>. QED
    BY <1>1, <2>1, Beginning
<1>3. job'[r].step = "find"
  BY <1>2
<1>4. JobFits(job'[r])
  BY <1>3 DEF JobFits
<1>. QED
  BY <1>1, <1>2, <1>3, <1>4, MovesOn

\* Nor has an admin's reset.
LEMMA AskResetPasswordStep ==
  ASSUME Inv, NEW r \in Requests, AskResetPassword(r)
  PROVE  Inv'
<1>. DEFINE what == [step |-> "find", purpose |-> purposeNow]
<1>1. Begin(r, what) /\ UNCHANGED <<codes, tokens>>
  BY DEF AskResetPassword, signInVars
<1>2. JobsOK' /\ overtaken' = overtaken
      /\ (\A q \in Requests \ {r} : job'[q] = job[q])
      /\ DOMAIN what \subseteq DOMAIN job'[r]
      /\ \A f \in DOMAIN what : job'[r][f] = what[f]
  <2>1. JobsOK /\ "step" \in DOMAIN what
    BY DEF Inv, RowsFit
  <2>. HIDE DEF what
  <2>. QED
    BY <1>1, <2>1, Beginning
<1>3. job'[r].step = "find"
  BY <1>2
<1>4. JobFits(job'[r])
  BY <1>3 DEF JobFits
<1>. QED
  BY <1>1, <1>2, <1>3, <1>4, MovesOn

\* A session that starts from a password goes back to no code.
LEMMA AskLoginStep ==
  ASSUME Inv, NEW r \in Requests, AskLogin(r)
  PROVE  Inv'
<1>. DEFINE what == [step |-> "issue", code |-> Password]
<1>1. Begin(r, what) /\ UNCHANGED <<codes, tokens>>
  BY DEF AskLogin, signInVars
<1>2. JobsOK' /\ overtaken' = overtaken
      /\ (\A q \in Requests \ {r} : job'[q] = job[q])
      /\ DOMAIN what \subseteq DOMAIN job'[r]
      /\ \A f \in DOMAIN what : job'[r][f] = what[f]
  <2>1. JobsOK /\ "step" \in DOMAIN what
    BY DEF Inv, RowsFit
  <2>. HIDE DEF what
  <2>. QED
    BY <1>1, <2>1, Beginning
<1>3. /\ job'[r].step = "issue" /\ "code" \in DOMAIN job'[r]
      /\ job'[r].code = Password
  BY <1>2
<1>4. JobFits(job'[r])
  BY <1>3 DEF JobFits
<1>. QED
  BY <1>1, <1>2, <1>3, <1>4, MovesOn

\* A change of password touches neither codes nor tokens.
LEMMA AskChangeStep ==
  ASSUME Inv, NEW r \in Requests, AskChange(r)
  PROVE  Inv'
<1>. DEFINE what == [step |-> "password"]
<1>1. Begin(r, what) /\ UNCHANGED <<codes, tokens>>
  BY DEF AskChange, signInVars
<1>2. JobsOK' /\ overtaken' = overtaken
      /\ (\A q \in Requests \ {r} : job'[q] = job[q])
      /\ DOMAIN what \subseteq DOMAIN job'[r]
      /\ \A f \in DOMAIN what : job'[r][f] = what[f]
  <2>1. JobsOK /\ "step" \in DOMAIN what
    BY DEF Inv, RowsFit
  <2>. HIDE DEF what
  <2>. QED
    BY <1>1, <2>1, Beginning
<1>3. job'[r].step = "password"
  BY <1>2
<1>4. JobFits(job'[r])
  BY <1>3 DEF JobFits
<1>. QED
  BY <1>1, <1>2, <1>3, <1>4, MovesOn

\* A refresh begins with a token that was live and the code it goes back to.
LEMMA AskRefreshStep ==
  ASSUME Inv, NEW r \in Requests, AskRefresh(r)
  PROVE  Inv'
<1>1. PICK t \in DOMAIN tokens :
        Begin(r, [step |-> "rotate", token |-> t, code |-> tokens[t].code])
  BY DEF AskRefresh
<1>. DEFINE what == [step |-> "rotate", token |-> t, code |-> tokens[t].code]
<1>2. JobsOK' /\ overtaken' = overtaken
      /\ (\A q \in Requests \ {r} : job'[q] = job[q])
      /\ DOMAIN what \subseteq DOMAIN job'[r]
      /\ \A f \in DOMAIN what : job'[r][f] = what[f]
  <2>1. JobsOK /\ "step" \in DOMAIN what /\ Begin(r, what)
    BY <1>1 DEF Inv, RowsFit
  <2>. HIDE DEF what
  <2>. QED
    BY <2>1, Beginning
<1>3. /\ job'[r].step = "rotate" /\ {"code", "token"} \subseteq DOMAIN job'[r]
      /\ job'[r].token = t /\ job'[r].code = tokens[t].code
  BY <1>2
<1>4. JobFits(job'[r])
  BY <1>3 DEF JobFits
<1>5. UNCHANGED <<codes, tokens>>
  BY DEF AskRefresh, signInVars
<1>. QED
  BY <1>2, <1>3, <1>4, <1>5, MovesOn

\* The cooldown only lets a request go on.
LEMMA CheckCooldownStep ==
  ASSUME Inv, NEW r \in Requests, CheckCooldown(r)
  PROVE  Inv'
<1>1. /\ Proceed(r, [step |-> "send"], FALSE) /\ UNCHANGED <<codes, tokens>>
      /\ job[r].step = "cooldown"
  BY DEF CheckCooldown, Continue, At, signInVars
<1>2. /\ JobsOK' /\ overtaken' = overtaken /\ job'[r].step = "send"
      /\ \A q \in Requests \ {r} : job'[q] = job[q]
      /\ DOMAIN job'[r] = DOMAIN job[r]
      /\ \A f \in DOMAIN job[r] \ {"step"} : job'[r][f] = job[r][f]
  <2>1. JobsOK /\ overtaken \in BOOLEAN
    BY DEF Inv, RowsFit, JobsOK
  <2>. QED
    BY <1>1, <2>1, Stepping
<1>3. JobFits(job[r])
  BY DEF Inv, RowsFit
<1>4. JobFits(job'[r])
  BY <1>1, <1>2, <1>3 DEF JobFits
<1>. QED
  BY <1>1, <1>2, <1>3, <1>4, MovesOn DEF JobFits, Carries

\* A verified customer keeps the session under way.
LEMMA StampStep ==
  ASSUME Inv, NEW r \in Requests, Stamp(r)
  PROVE  Inv'
<1>1. /\ Proceed(r, [step |-> "issue"], FALSE) /\ UNCHANGED <<codes, tokens>>
      /\ job[r].step = "stamp"
  BY DEF Stamp, Continue, At
<1>2. /\ JobsOK' /\ overtaken' = overtaken /\ job'[r].step = "issue"
      /\ \A q \in Requests \ {r} : job'[q] = job[q]
      /\ DOMAIN job'[r] = DOMAIN job[r]
      /\ \A f \in DOMAIN job[r] \ {"step"} : job'[r][f] = job[r][f]
  <2>1. JobsOK /\ overtaken \in BOOLEAN
    BY DEF Inv, RowsFit, JobsOK
  <2>. QED
    BY <1>1, <2>1, Stepping
<1>3. JobFits(job[r])
  BY DEF Inv, RowsFit
<1>4. JobFits(job'[r])
  BY <1>1, <1>2, <1>3 DEF JobFits
<1>. QED
  BY <1>1, <1>2, <1>3, <1>4, MovesOn DEF JobFits, Carries

\* A written password ends its request.
LEMMA SetPasswordStep ==
  ASSUME Inv, NEW r \in Requests, SetPassword(r)
  PROVE  Inv'
BY EndsQuietly DEF SetPassword

\* A handler that stops carries no session any more.
LEMMA AbandonStep ==
  ASSUME Inv, NEW r \in Requests, AbandonSignIn(r)
  PROVE  Inv'
BY EndsQuietly DEF AbandonSignIn, Interrupt, signInVars

\* Nobody's request: the account is switched, or codes and tokens grow older.
LEMMA AgesQuietly ==
  ASSUME Inv, UNCHANGED inFlight,
         codes' \in Seq(Code), DOMAIN codes' = DOMAIN codes,
         \A c \in DOMAIN codes : codes'[c].attempts = codes[c].attempts
                              /\ codes'[c].consumed = codes[c].consumed,
         tokens' \in Seq(Token), DOMAIN tokens' = DOMAIN tokens,
         \A t \in DOMAIN tokens : tokens'[t].code = tokens[t].code
                               /\ (tokens[t].revoked => tokens'[t].revoked)
  PROVE  Inv'
<1>1. RowsFit'
  <2>1. \A q \in Requests : JobFits(job[q])'
    BY DEF Inv, RowsFit, JobFits, inFlight
  <2>2. JobsOK'
    BY DEF Inv, RowsFit, JobsOK, inFlight
  <2>. QED
    BY <2>1, <2>2 DEF Inv, RowsFit
<1>2. AttemptsInv'
  <2>1. \A c \in DOMAIN codes : Counting(c)' \subseteq Counting(c)
    BY DEF Counting, At, inFlight
  <2>. QED
    BY <2>1, NoMoreCounting DEF Inv, RowsFit
<1>3. SessionsInv'
  <2>1. SUFFICES ASSUME ~overtaken, NEW c \in DOMAIN codes
                 PROVE  SessionOf(c)'
    BY DEF SessionsInv, inFlight
  <2>2. SessionOf(c)
    BY <2>1 DEF Inv, SessionsInv
  <2>3. \A q \in Requests : Carries(q, c)' => Carries(q, c)
    BY DEF Carries, inFlight
  <2>4. \A t \in DOMAIN tokens' : Live(t, c)' => Live(t, c)
    BY DEF Live
  <2>. QED
    BY <2>2, <2>3, <2>4 DEF SessionOf
<1>. QED
  BY <1>1, <1>2, <1>3 DEF Inv

\* An account's being active changes neither codes nor tokens.
LEMMA SetActiveStep ==
  ASSUME Inv, SetActive
  PROVE  Inv'
BY AgesQuietly DEF SetActive, Inv, RowsFit

\* A logout leaves one live token fewer.
LEMMA LogoutStep ==
  ASSUME Inv, Logout
  PROVE  Inv'
<1>1. PICK t \in DOMAIN tokens : tokens' = revoked(tokens, t)
  BY DEF Logout
<1>2. tokens \in Seq(Token) /\ codes \in Seq(Code)
  BY DEF Inv, RowsFit
<1>3. /\ tokens' \in Seq(Token) /\ DOMAIN tokens' = DOMAIN tokens
      /\ \A i \in DOMAIN tokens : /\ tokens'[i].code = tokens[i].code
                                  /\ tokens[i].revoked => tokens'[i].revoked
  BY <1>1, <1>2, RevokedToken
<1>4. UNCHANGED inFlight /\ codes' = codes
  BY DEF Logout
<1>5. codes' \in Seq(Code) /\ DOMAIN codes' = DOMAIN codes
      /\ \A c \in DOMAIN codes : codes'[c].attempts = codes[c].attempts
                              /\ codes'[c].consumed = codes[c].consumed
  BY <1>2, <1>4
<1>. QED
  BY <1>3, <1>4, <1>5, AgesQuietly

\* So does the end of a token's time, in all but its mark.
LEMMA TokenExpiresStep ==
  ASSUME Inv, TokenExpires
  PROVE  Inv'
<1>1. PICK t \in DOMAIN tokens : tokens' = [tokens EXCEPT ![t].expired = TRUE]
  BY DEF TokenExpires
<1>2. tokens \in Seq(Token) /\ codes \in Seq(Code)
  BY DEF Inv, RowsFit
<1>3. [tokens[t] EXCEPT !.expired = TRUE] \in Token
  <2>1. tokens[t] \in Token
    BY <1>2
  <2>. QED
    BY <2>1 DEF Token
<1>4. tokens' = [tokens EXCEPT ![t] = [tokens[t] EXCEPT !.expired = TRUE]]
  BY <1>1, <1>2
<1>5. /\ tokens' \in Seq(Token) /\ DOMAIN tokens' = DOMAIN tokens
  BY <1>2, <1>3, <1>4, ReplacedIn
<1>6. \A i \in DOMAIN tokens : /\ tokens'[i].code = tokens[i].code
                               /\ tokens[i].revoked => tokens'[i].revoked
  BY <1>1, <1>2 DEF Token
<1>. QED
  BY <1>2, <1>5, <1>6, AgesQuietly DEF TokenExpires

\* A code that ages keeps its attempts and its use.
LEMMA CodeAgesStep ==
  ASSUME Inv, CodeAges
  PROVE  Inv'
<1>1. PICK c \in DOMAIN codes, i \in {1, 2} :
        codes' = [codes EXCEPT ![c].age = Ages[i + 1]]
  BY DEF CodeAges
<1>2. tokens \in Seq(Token) /\ codes \in Seq(Code)
  BY DEF Inv, RowsFit
<1>3. [codes[c] EXCEPT !.age = Ages[i + 1]] \in Code
  <2>1. Ages[i + 1] \in {"fresh", "open", "expired"}
    BY DEF Ages
  <2>2. codes[c] \in Code
    BY <1>2
  <2>. QED
    BY <2>1, <2>2 DEF Code
<1>4. codes' = [codes EXCEPT ![c] = [codes[c] EXCEPT !.age = Ages[i + 1]]]
  BY <1>1, <1>2
<1>5. /\ codes' \in Seq(Code) /\ DOMAIN codes' = DOMAIN codes
  BY <1>2, <1>3, <1>4, ReplacedIn
<1>6. \A d \in DOMAIN codes : /\ codes'[d].attempts = codes[d].attempts
                              /\ codes'[d].consumed = codes[d].consumed
  <2>1. \A d \in DOMAIN codes : codes[d] \in Code
    BY <1>2
  <2>. QED
    BY <1>1, <2>1 DEF Code
<1>. QED
  BY <1>2, <1>5, <1>6, AgesQuietly DEF CodeAges

-----------------------------------------------------------------------------
(* The steps that send, try or consume a code. *)

\* What every step that ends or moves a request starts from.
LEMMA FromInv ==
  ASSUME Inv
  PROVE  /\ JobsOK /\ overtaken \in BOOLEAN
         /\ codes \in Seq(Code) /\ tokens \in Seq(Token)
         /\ Len(codes) \in Nat /\ DOMAIN codes = 1 .. Len(codes)
         /\ Password \notin DOMAIN codes
         /\ \A c \in DOMAIN codes : codes[c] \in Code
         /\ \A r \in Requests : JobFits(job[r])
BY DEF Inv, RowsFit, JobsOK, Password

\* A new code has no attempts and no session.
LEMMA SendCodeStep ==
  ASSUME Inv, NEW r \in Requests, SendCode(r)
  PROVE  Inv'
<1>. DEFINE new == [purpose |-> job[r].purpose, age |-> "fresh",
                    attempts |-> 0, consumed |-> FALSE]
<1>n. PICK n \in Nat : n = Len(codes) + 1
  BY FromInv
<1>1. /\ codes' = Append(codes, new) /\ tokens' = tokens
      /\ job[r].step = "send" /\ Settle(r, FALSE)
  BY DEF SendCode, At, End
<1>2. /\ JobsOK' /\ overtaken' = overtaken /\ job'[r].step = "idle"
      /\ \A q \in Requests \ {r} : job'[q] = job[q]
  BY <1>1, FromInv, Settling
<1>3. new \in Code
  BY <1>1, FromInv DEF JobFits, Code
<1>4. /\ codes' \in Seq(Code) /\ DOMAIN codes' = DOMAIN codes \cup {n}
      /\ n \notin DOMAIN codes /\ n # Password
      /\ \A c \in DOMAIN codes : codes'[c] = codes[c]
      /\ codes'[n] = new
  <2>. HIDE DEF new
  <2>. QED
    BY <1>n, <1>1, <1>3, FromInv DEF Password
<1>5. RowsFit'
  <2>1. \A q \in Requests : JobFits(job[q])'
    <3>1. ASSUME NEW q \in Requests \ {r} PROVE JobFits(job[q])'
      BY <1>1, <1>2, <1>4, FromInv DEF JobFits
    <3>2. JobFits(job[r])'
      BY <1>2 DEF JobFits
    <3>. QED
      BY <3>1, <3>2
  <2>. QED
    BY <1>1, <1>2, <1>4, <2>1, FromInv DEF Inv, RowsFit
<1>6. AttemptsInv'
  <2>1. ASSUME NEW c \in DOMAIN codes
        PROVE  codes'[c].attempts + Cardinality(Counting(c)')
                 <= MaxAttempts + Cardinality(Requests) - 1
    <3>1. Counting(c)' \subseteq Counting(c)
      BY <1>2 DEF Counting, At
    <3>2. /\ Counting(c) \subseteq Requests /\ Counting(c)' \subseteq Requests
      BY DEF Counting
    <3>3. /\ Cardinality(Counting(c)') <= Cardinality(Counting(c))
          /\ Cardinality(Counting(c)') \in Nat
          /\ Cardinality(Counting(c)) \in Nat
      BY <3>1, <3>2, CountingIsFinite, FS_Subset
    <3>4. codes[c].attempts + Cardinality(Counting(c))
            <= MaxAttempts + Cardinality(Requests) - 1
      BY DEF Inv, AttemptsInv
    <3>5. codes[c].attempts \in Nat /\ codes'[c] = codes[c]
      BY <1>4, FromInv DEF Code
    <3>6. MaxAttempts \in Nat /\ Cardinality(Requests) \in Nat
      BY CountingIsFinite, AttemptsAssumption
    <3>. QED
      BY <3>3, <3>4, <3>5, <3>6
  <2>2. codes'[n].attempts + Cardinality(Counting(n)')
          <= MaxAttempts + Cardinality(Requests) - 1
    <3>1. Counting(n)' = {}
      BY <1>2, <1>4, FromInv DEF Counting, At, JobFits
    <3>2. Cardinality(Counting(n)') = 0
      BY <3>1, FS_EmptySet
    <3>3. codes'[n].attempts = 0
      BY <1>4
    <3>4. MaxAttempts \in Nat \ {0} /\ Cardinality(Requests) \in Nat
      BY CountingIsFinite, AttemptsAssumption
    <3>. QED
      BY <3>2, <3>3, <3>4
  <2>. QED
    BY <1>4, <2>1, <2>2 DEF AttemptsInv
<1>7. SessionsInv'
  <2>1. SUFFICES ASSUME ~overtaken, NEW c \in DOMAIN codes \cup {n}
                 PROVE  SessionOf(c)'
    BY <1>2, <1>4 DEF SessionsInv
  <2>2. \A q \in Requests : Carries(q, c)' => Carries(q, c)
    BY <1>2 DEF Carries
  <2>3. \A t \in DOMAIN tokens : Live(t, c)' = Live(t, c)
    BY <1>1 DEF Live
  <2>4. CASE c \in DOMAIN codes
    <3>1. SessionOf(c) /\ codes'[c] = codes[c]
      BY <1>4, <2>1, <2>4 DEF Inv, SessionsInv
    <3>. QED
      BY <1>1, <2>2, <2>3, <3>1 DEF SessionOf
  <2>5. CASE c = n
    <3>1. \A q \in Requests : ~Carries(q, n)
      BY <1>4, FromInv DEF Carries, JobFits
    <3>2. \A t \in DOMAIN tokens : tokens[t].code # n
      BY <1>4 DEF Inv, RowsFit
    <3>. QED
      BY <1>1, <2>2, <2>5, <3>1, <3>2 DEF SessionOf, Live
  <2>. QED
    BY <2>1, <2>4, <2>5
<1>. QED
  BY <1>5, <1>6, <1>7 DEF Inv

\* The code that is tried is one that is there and may be tried.
LEMMA FindCodeStep ==
  ASSUME Inv, NEW r \in Requests, FindCode(r)
  PROVE  Inv'
<1>. DEFINE open == Unconsumed(job[r].purpose)
            c == NewestCode(open)
<1>1. PICK step \in {"consume", "count"} :
        Proceed(r, [step |-> step, code |-> c], FALSE)
  BY DEF FindCode, Continue
<1>2. codes[c].attempts < MaxAttempts /\ UNCHANGED <<codes, tokens>>
  BY DEF FindCode, mayTry, signInVars
<1>3. c \in DOMAIN codes
  <2>1. open \subseteq 1 .. Len(codes) /\ open # {} /\ Len(codes) \in Nat
    BY FromInv DEF FindCode, Unconsumed, OfPurpose
  <2>. HIDE DEF open
  <2>. QED
    BY <2>1, NewestIsThere, FromInv
<1>. HIDE DEF c
<1>4. /\ JobsOK' /\ overtaken' = overtaken
      /\ \A q \in Requests \ {r} : job'[q] = job[q]
      /\ {"step", "code"} \subseteq DOMAIN job'[r]
      /\ job'[r].step = step /\ job'[r].code = c
  <2>. DEFINE what == [step |-> step, code |-> c]
  <2>1. /\ DOMAIN what = {"step", "code"}
        /\ what["step"] = step /\ what["code"] = c
    OBVIOUS
  <2>2. /\ JobsOK' /\ overtaken' = (overtaken \/ FALSE)
        /\ \A q \in Requests \ {r} : job'[q] = job[q]
        /\ DOMAIN job'[r] = DOMAIN what \cup DOMAIN job[r]
        /\ \A f \in DOMAIN what : job'[r][f] = what[f]
    <3>1. Proceed(r, what, FALSE)
      BY <1>1
    <3>. HIDE DEF what
    <3>. QED
      BY <3>1, FromInv, Proceeding
  <2>. HIDE DEF what
  <2>. QED
    BY <2>1, <2>2, FromInv
<1>5. JobFits(job'[r])
  BY <1>3, <1>4 DEF JobFits
<1>6. CASE step = "consume"
  BY <1>2, <1>4, <1>5, <1>6, MovesOn
<1>7. CASE step = "count"
  <2>1. RowsFit'
    <3>1. \A q \in Requests : JobFits(job[q])'
      BY <1>2, <1>4, <1>5, FromInv DEF JobFits
    <3>. QED
      BY <1>2, <1>4, <3>1, FromInv DEF Inv, RowsFit
  <2>2. AttemptsInv'
    <3>1. SUFFICES ASSUME NEW d \in DOMAIN codes
                   PROVE  codes[d].attempts + Cardinality(Counting(d)')
                            <= MaxAttempts + Cardinality(Requests) - 1
      BY <1>2 DEF AttemptsInv
    <3>2. Counting(d) \subseteq Requests /\ Counting(d)' \subseteq Requests
      BY DEF Counting
    <3>3. /\ IsFiniteSet(Counting(d)) /\ Cardinality(Counting(d)) \in Nat
          /\ Cardinality(Counting(d)') \in Nat /\ Cardinality(Requests) \in Nat
          /\ Cardinality(Counting(d)') <= Cardinality(Requests)
      BY <3>2, CountingIsFinite
    <3>4. codes[d].attempts \in Nat /\ MaxAttempts \in Nat
      BY FromInv, AttemptsAssumption DEF Code
    <3>5. CASE d = c
      BY <1>2, <3>3, <3>4, <3>5
    <3>6. CASE d # c
      <4>1. Counting(d)' \subseteq Counting(d)
        BY <1>4, <3>6 DEF Counting, At
      <4>2. Cardinality(Counting(d)') <= Cardinality(Counting(d))
        BY <3>3, <4>1, FS_Subset
      <4>3. codes[d].attempts + Cardinality(Counting(d))
              <= MaxAttempts + Cardinality(Requests) - 1
        BY DEF Inv, AttemptsInv
      <4>. QED
        BY <3>3, <3>4, <4>2, <4>3
    <3>. QED
      BY <3>5, <3>6
  <2>3. SessionsInv'
    <3>1. SUFFICES ASSUME ~overtaken, NEW d \in DOMAIN codes
                   PROVE  SessionOf(d)'
      BY <1>2, <1>4 DEF SessionsInv
    <3>2. SessionOf(d)
      BY <3>1 DEF Inv, SessionsInv
    <3>3. \A q \in Requests : Carries(q, d)' => Carries(q, d)
      BY <1>4, <1>7 DEF Carries
    <3>4. \A t \in DOMAIN tokens : Live(t, d)' = Live(t, d)
      BY <1>2 DEF Live
    <3>. QED
      BY <1>2, <3>2, <3>3, <3>4 DEF SessionOf
  <2>. QED
    BY <2>1, <2>2, <2>3 DEF Inv
<1>. QED
  BY <1>1, <1>6, <1>7

\* What is counted is no longer about to be.
LEMMA CountAttemptStep ==
  ASSUME Inv, NEW r \in Requests, CountAttempt(r)
  PROVE  Inv'
<1>1. PICK c \in DOMAIN codes : c = job[r].code
  BY FromInv DEF CountAttempt, At, JobFits
<1>2. /\ codes' = [codes EXCEPT ![c].attempts = @ + 1] /\ tokens' = tokens
      /\ Settle(r, FALSE) /\ At(r, "count")
  BY <1>1 DEF CountAttempt, End
<1>3. /\ JobsOK' /\ overtaken' = overtaken /\ job'[r].step = "idle"
      /\ \A q \in Requests \ {r} : job'[q] = job[q]
  BY <1>2, FromInv, Settling
<1>4. codes[c] \in Code /\ codes[c].attempts \in Nat
  BY FromInv DEF Code
<1>5. codes' \in Seq(Code) /\ DOMAIN codes' = DOMAIN codes
  <2>. DEFINE row == [codes[c] EXCEPT !.attempts = codes[c].attempts + 1]
  <2>1. row \in Code
    BY <1>4 DEF Code
  <2>2. codes' = [codes EXCEPT ![c] = row]
    BY <1>2, FromInv
  <2>. HIDE DEF row
  <2>. QED
    BY <2>1, <2>2, FromInv, ReplacedIn
<1>6. /\ codes'[c].attempts = codes[c].attempts + 1
      /\ \A d \in DOMAIN codes \ {c} : codes'[d] = codes[d]
      /\ codes'[c].consumed = codes[c].consumed
  BY <1>2, <1>4, FromInv DEF Code
<1>7. RowsFit'
  <2>1. \A q \in Requests : JobFits(job[q])'
    BY <1>2, <1>3, <1>5, FromInv DEF JobFits
  <2>. QED
    BY <1>2, <1>3, <1>5, <2>1, FromInv DEF Inv, RowsFit
<1>8. AttemptsInv'
  <2>1. SUFFICES ASSUME NEW d \in DOMAIN codes
                 PROVE  codes'[d].attempts + Cardinality(Counting(d)')
                          <= MaxAttempts + Cardinality(Requests) - 1
    BY <1>5 DEF AttemptsInv
  <2>2. Counting(d) \subseteq Requests /\ Counting(d)' \subseteq Requests
    BY DEF Counting
  <2>3. /\ IsFiniteSet(Counting(d)) /\ Cardinality(Counting(d)) \in Nat
        /\ Cardinality(Counting(d)') \in Nat /\ Cardinality(Requests) \in Nat
    BY <2>2, CountingIsFinite
  <2>4. codes[d].attempts + Cardinality(Counting(d))
          <= MaxAttempts + Cardinality(Requests) - 1
    BY DEF Inv, AttemptsInv
  <2>5. codes[d].attempts \in Nat /\ MaxAttempts \in Nat
    BY FromInv, AttemptsAssumption DEF Code
  <2>6. CASE d = c
    <3>1. Counting(c)' = Counting(c) \ {r} /\ r \in Counting(c)
      BY <1>1, <1>2, <1>3 DEF Counting, At
    <3>2. Cardinality(Counting(c)') = Cardinality(Counting(c)) - 1
      BY <2>3, <2>6, <3>1, FS_RemoveElement
    <3>. QED
      BY <1>6, <2>3, <2>4, <2>5, <2>6, <3>2
  <2>7. CASE d # c
    <3>1. Counting(d)' \subseteq Counting(d)
      BY <1>3 DEF Counting, At
    <3>2. Cardinality(Counting(d)') <= Cardinality(Counting(d))
      BY <2>3, <3>1, FS_Subset
    <3>. QED
      BY <1>6, <2>3, <2>4, <2>5, <2>7, <3>2
  <2>. QED
    BY <2>6, <2>7
<1>9. SessionsInv'
  <2>1. SUFFICES ASSUME ~overtaken, NEW d \in DOMAIN codes
                 PROVE  SessionOf(d)'
    BY <1>3, <1>5 DEF SessionsInv
  <2>2. SessionOf(d) /\ codes'[d].consumed = codes[d].consumed
    BY <1>6, <2>1 DEF Inv, SessionsInv
  <2>3. \A q \in Requests : Carries(q, d)' => Carries(q, d)
    BY <1>3 DEF Carries
  <2>4. \A t \in DOMAIN tokens : Live(t, d)' = Live(t, d)
    BY <1>2 DEF Live
  <2>. QED
    BY <1>2, <2>2, <2>3, <2>4 DEF SessionOf
<1>. QED
  BY <1>7, <1>8, <1>9 DEF Inv

\* A code that was not consumed has no session yet, and gets this one.
LEMMA ConsumeStep ==
  ASSUME Inv, NEW r \in Requests, Consume(r)
  PROVE  Inv'
<1>1. PICK c \in DOMAIN codes : c = job[r].code
  BY FromInv DEF Consume, At, JobFits
<1>2. PICK next \in {"password", "stamp"} :
        Proceed(r, [step |-> next], codes[c].consumed)
  BY <1>1 DEF Consume
<1>3. /\ codes' = [codes EXCEPT ![c].consumed = TRUE] /\ tokens' = tokens
      /\ At(r, "consume")
  BY <1>1 DEF Consume
<1>4. codes[c] \in Code /\ codes[c].consumed \in BOOLEAN
  BY FromInv DEF Code
<1>5. /\ JobsOK' /\ overtaken' = (overtaken \/ codes[c].consumed)
      /\ \A q \in Requests \ {r} : job'[q] = job[q]
      /\ job'[r].step = next /\ DOMAIN job'[r] = DOMAIN job[r]
      /\ \A f \in DOMAIN job[r] \ {"step"} : job'[r][f] = job[r][f]
  BY <1>2, <1>4, FromInv, Stepping
<1>6. "code" \in DOMAIN job'[r] /\ job'[r].code = c
  BY <1>1, <1>3, <1>5, FromInv DEF JobFits, At
<1>7. codes' \in Seq(Code) /\ DOMAIN codes' = DOMAIN codes
  <2>. DEFINE row == [codes[c] EXCEPT !.consumed = TRUE]
  <2>1. row \in Code
    BY <1>4 DEF Code
  <2>2. codes' = [codes EXCEPT ![c] = row]
    BY <1>3, FromInv
  <2>. HIDE DEF row
  <2>. QED
    BY <2>1, <2>2, FromInv, ReplacedIn
<1>8. /\ \A d \in DOMAIN codes : codes'[d].attempts = codes[d].attempts
      /\ \A d \in DOMAIN codes \ {c} : codes'[d] = codes[d]
      /\ codes'[c].consumed
  BY <1>3, <1>4, FromInv DEF Code
<1>9. RowsFit'
  <2>1. ASSUME NEW q \in Requests \ {r} PROVE JobFits(job[q])'
    <3>1. JobFits(job[q]) /\ job'[q] = job[q]
      BY <1>5, FromInv
    <3>. QED
      BY <1>3, <1>7, <3>1 DEF JobFits
  <2>2. JobFits(job[r])'
    BY <1>5, <1>6, <1>7 DEF JobFits
  <2>. QED
    BY <1>3, <1>5, <1>7, <2>1, <2>2, FromInv DEF Inv, RowsFit
<1>10. AttemptsInv'
  <2>1. \A d \in DOMAIN codes : Counting(d)' \subseteq Counting(d)
    BY <1>5 DEF Counting, At
  <2>. QED
    BY <1>7, <1>8, <2>1, FromInv, NoMoreCounting DEF Inv
<1>11. SessionsInv'
  <2>1. SUFFICES ASSUME ~overtaken, ~codes[c].consumed, NEW d \in DOMAIN codes
                 PROVE  SessionOf(d)'
    BY <1>5, <1>7 DEF SessionsInv
  <2>2. SessionOf(d) /\ SessionOf(c)
    BY <2>1 DEF Inv, SessionsInv
  <2>3. \A t \in DOMAIN tokens : Live(t, d)' = Live(t, d)
    BY <1>3 DEF Live
  <2>4. CASE d = c
    <3>1. (\A q \in Requests : ~Carries(q, c))
          /\ \A t \in DOMAIN tokens : ~Live(t, c)
      BY <2>1, <2>2 DEF SessionOf, Live
    <3>2. \A q \in Requests : Carries(q, c)' => q = r
      BY <1>5, <3>1 DEF Carries
    <3>. QED
      BY <1>3, <1>8, <2>3, <2>4, <3>1, <3>2 DEF SessionOf
  <2>5. CASE d # c
    <3>1. \A q \in Requests : Carries(q, d)' => Carries(q, d)
      BY <1>5, <1>6, <2>5 DEF Carries
    <3>. QED
      BY <1>3, <1>8, <2>2, <2>3, <2>5, <3>1 DEF SessionOf
  <2>. QED
    BY <2>4, <2>5
<1>. QED
  BY <1>9, <1>10, <1>11 DEF Inv

-----------------------------------------------------------------------------
(* The steps that issue a token or use one up. *)

\* The request that carried the session hands it over to the token.
LEMMA IssueTokensStep ==
  ASSUME Inv, NEW r \in Requests, IssueTokens(r)
  PROVE  Inv'
<1>. DEFINE new == Issued(job[r].code)
<1>n. PICK n \in Nat : n = Len(tokens) + 1
  BY FromInv
<1>1. /\ tokens' = Append(tokens, new) /\ codes' = codes
      /\ At(r, "issue") /\ Settle(r, FALSE)
  BY DEF IssueTokens, End
<1>2. /\ JobsOK' /\ overtaken' = overtaken /\ job'[r].step = "idle"
      /\ \A q \in Requests \ {r} : job'[q] = job[q]
  BY <1>1, FromInv, Settling
<1>3. job[r].code \in {Password} \cup DOMAIN codes
  BY <1>1, FromInv DEF JobFits, At
<1>4. new \in Token
  BY <1>3, FromInv DEF Token, Password, Issued
<1>5. /\ tokens' \in Seq(Token) /\ DOMAIN tokens' = DOMAIN tokens \cup {n}
      /\ n \notin DOMAIN tokens
      /\ \A t \in DOMAIN tokens : tokens'[t] = tokens[t]
      /\ tokens'[n] = new
  <2>. HIDE DEF new
  <2>. QED
    BY <1>n, <1>1, <1>4, FromInv
<1>6. RowsFit'
  <2>1. \A q \in Requests \ {r} : JobFits(job[q])'
    BY <1>1, <1>2, <1>5, FromInv DEF JobFits
  <2>2. JobFits(job[r])'
    BY <1>2 DEF JobFits
  <2>3. \A t \in DOMAIN tokens' :
          tokens'[t].code \in {Password} \cup DOMAIN codes'
    BY <1>1, <1>3, <1>5 DEF Inv, RowsFit, Issued
  <2>. QED
    BY <1>1, <1>2, <1>5, <2>1, <2>2, <2>3, FromInv DEF RowsFit
<1>7. AttemptsInv'
  <2>1. \A d \in DOMAIN codes : Counting(d)' \subseteq Counting(d)
    BY <1>2 DEF Counting, At
  <2>. QED
    BY <1>1, <2>1, FromInv, NoMoreCounting DEF Inv
<1>8. SessionsInv'
  <2>1. SUFFICES ASSUME ~overtaken, NEW d \in DOMAIN codes
                 PROVE  SessionOf(d)'
    BY <1>1, <1>2 DEF SessionsInv
  <2>2. SessionOf(d)
    BY <2>1 DEF Inv, SessionsInv
  <2>3. \A t \in DOMAIN tokens : Live(t, d)' = Live(t, d)
    BY <1>5 DEF Live
  <2>4. \A q \in Requests : Carries(q, d)' => q # r /\ Carries(q, d)
    BY <1>2 DEF Carries
  <2>5. CASE job[r].code = d
    <3>1. Carries(r, d)
      BY <1>1, <2>5 DEF Carries, At
    <3>2. /\ \A t \in DOMAIN tokens : ~Live(t, d)
          /\ \A q \in Requests : ~Carries(q, d)'
          /\ codes[d].consumed
      BY <2>2, <2>4, <3>1 DEF SessionOf
    <3>. QED
      BY <1>1, <1>5, <2>3, <3>2 DEF SessionOf
  <2>6. CASE job[r].code # d
    <3>1. ~Live(n, d)' /\ tokens'[n].code # d
      BY <1>5, <2>6 DEF Live, Issued
    <3>. QED
      BY <1>1, <1>5, <2>2, <2>3, <2>4, <3>1 DEF SessionOf
  <2>. QED
    BY <2>5, <2>6
<1>. QED
  BY <1>6, <1>7, <1>8 DEF Inv

\* The token that is used up was the only live one of its code, and the request
\* that used it carries the session on.
LEMMA RotateStep ==
  ASSUME Inv, NEW r \in Requests, Rotate(r)
  PROVE  Inv'
<1>1. PICK t \in DOMAIN tokens : t = job[r].token
  BY FromInv DEF Rotate, At, JobFits
<1>2. PICK c \in {Password} \cup DOMAIN codes : c = tokens[t].code
  BY DEF Inv, RowsFit
<1>3. /\ tokens' = revoked(tokens, t) /\ codes' = codes /\ At(r, "rotate")
      /\ Proceed(r, [step |-> "issue"], tokens[t].revoked)
  BY <1>1 DEF Rotate
<1>4. tokens[t] \in Token /\ tokens[t].revoked \in BOOLEAN
  <2>1. tokens[t] \in Token
    BY FromInv
  <2>. QED
    BY <2>1 DEF Token
<1>5. /\ JobsOK' /\ overtaken' = (overtaken \/ tokens[t].revoked)
      /\ \A q \in Requests \ {r} : job'[q] = job[q]
      /\ job'[r].step = "issue" /\ DOMAIN job'[r] = DOMAIN job[r]
      /\ \A f \in DOMAIN job[r] \ {"step"} : job'[r][f] = job[r][f]
  BY <1>3, <1>4, FromInv, Stepping
<1>6. "code" \in DOMAIN job'[r] /\ job'[r].code = c
  BY <1>1, <1>2, <1>3, <1>5, FromInv DEF JobFits, At
<1>7. /\ tokens' \in Seq(Token) /\ DOMAIN tokens' = DOMAIN tokens
      /\ \A i \in DOMAIN tokens :
           /\ tokens'[i].code = tokens[i].code
           /\ tokens[i].revoked => tokens'[i].revoked
      /\ tokens'[t].revoked
  BY <1>3, FromInv, RevokedToken
<1>8. RowsFit'
  <2>1. ASSUME NEW q \in Requests \ {r} PROVE JobFits(job[q])'
    <3>1. JobFits(job[q]) /\ job'[q] = job[q]
      BY <1>5, FromInv
    <3>. QED
      BY <1>3, <1>7, <3>1 DEF JobFits
  <2>2. JobFits(job[r])'
    BY <1>3, <1>5, <1>6 DEF JobFits
  <2>3. \A i \in DOMAIN tokens' :
          tokens'[i].code \in {Password} \cup DOMAIN codes'
    BY <1>3, <1>7 DEF Inv, RowsFit
  <2>. QED
    BY <1>3, <1>5, <1>7, <2>1, <2>2, <2>3, FromInv DEF RowsFit
<1>9. AttemptsInv'
  <2>1. \A d \in DOMAIN codes : Counting(d)' \subseteq Counting(d)
    BY <1>5 DEF Counting, At
  <2>. QED
    BY <1>3, <2>1, FromInv, NoMoreCounting DEF Inv
<1>10. SessionsInv'
  <2>1. SUFFICES ASSUME ~overtaken, ~tokens[t].revoked, NEW d \in DOMAIN codes
                 PROVE  SessionOf(d)'
    BY <1>3, <1>5 DEF SessionsInv
  <2>2. SessionOf(d)
    BY <2>1 DEF Inv, SessionsInv
  <2>3. \A i \in DOMAIN tokens : Live(i, d)' => Live(i, d) /\ i # t
    BY <1>7 DEF Live
  <2>4. CASE d = c
    <3>1. Live(t, d)
      BY <1>2, <2>1, <2>4 DEF Live
    <3>2. /\ \A i \in DOMAIN tokens : ~Live(i, d)'
          /\ \A q \in Requests : ~Carries(q, d)
          /\ codes[d].consumed
      BY <2>2, <2>3, <3>1 DEF SessionOf, Live
    <3>3. \A q \in Requests : Carries(q, d)' => q = r
      BY <1>5, <3>2 DEF Carries
    <3>. QED
      BY <1>3, <1>7, <3>2, <3>3 DEF SessionOf
  <2>5. CASE d # c
    <3>1. \A q \in Requests : Carries(q, d)' => Carries(q, d)
      BY <1>5, <1>6, <2>5 DEF Carries
    <3>. QED
      BY <1>3, <1>7, <2>2, <2>3, <3>1 DEF SessionOf
  <2>. QED
    BY <2>4, <2>5
<1>. QED
  BY <1>8, <1>9, <1>10 DEF Inv

-----------------------------------------------------------------------------
(* The theorems. *)

\* There are no codes, tokens or requests at the start.
LEMMA InitInv == SignInInit => Inv
<1>. SUFFICES ASSUME SignInInit PROVE Inv
  OBVIOUS
<1>1. /\ JobsOK /\ ~overtaken
      /\ \A r \in Requests : job[r].step = "idle"
  BY Starting DEF SignInInit
<1>2. codes = <<>> /\ tokens = <<>>
  BY DEF SignInInit
<1>3. codes \in Seq(Code) /\ tokens \in Seq(Token)
      /\ DOMAIN codes = {} /\ DOMAIN tokens = {}
  BY <1>2
<1>4. \A r \in Requests : JobFits(job[r])
  BY <1>1 DEF JobFits
<1>. QED
  BY <1>1, <1>3, <1>4 DEF Inv, RowsFit, AttemptsInv, SessionsInv

\* Every step of signing in preserves the invariant.
LEMMA NextInv == Inv /\ [SignInNext]_<<signInVars, inFlight>> => Inv'
<1>. SUFFICES ASSUME Inv, [SignInNext]_<<signInVars, inFlight>> PROVE Inv'
  OBVIOUS
<1>1. CASE UNCHANGED <<signInVars, inFlight>>
  <2>1. UNCHANGED <<codes, tokens>> /\ UNCHANGED inFlight
    BY <1>1 DEF signInVars
  <2>. QED
    BY <2>1, FromInv, AgesQuietly
<1>2. CASE SetActive \/ CodeAges \/ TokenExpires
  BY <1>2, SetActiveStep, CodeAgesStep, TokenExpiresStep
<1>3. ASSUME NEW r \in Requests, CustomerCalls(r)
      PROVE  Inv'
  BY <1>3, AskCodeStep, SignUpStep, AskVerifyStep, StampStep DEF CustomerCalls
<1>4. ASSUME NEW r \in Requests, AdminCalls(r)
      PROVE  Inv'
  BY <1>4, AskResetStep, AskResetPasswordStep, SetPasswordStep, AskLoginStep,
     AskChangeStep DEF AdminCalls
<1>5. ASSUME NEW r \in Requests, SessionCalls(r)
      PROVE  Inv'
  BY <1>5, AskRefreshStep, RotateStep, LogoutStep DEF SessionCalls
<1>6. ASSUME NEW r \in Requests,
             \/ CheckCooldown(r) \/ SendCode(r)
             \/ FindCode(r) \/ CountAttempt(r) \/ Consume(r)
             \/ IssueTokens(r) \/ AbandonSignIn(r)
      PROVE  Inv'
  BY <1>6, CheckCooldownStep, SendCodeStep, FindCodeStep, CountAttemptStep,
     ConsumeStep, IssueTokensStep, AbandonStep
<1>. QED
  BY <1>1, <1>2, <1>3, <1>4, <1>5, <1>6 DEF SignInNext

\* The invariant holds in every behaviour.
THEOREM InvHolds == SignInSpec => []Inv
<1>1. Inv /\ [SignInNext]_<<signInVars, inFlight>> => Inv'
  BY NextInv
<1>. QED
  BY <1>1, InitInv, PTL DEF SignInSpec

\* A code is tried at most once more for every further request at once: the
\* comparison reads the count and the count is written after it, so what bounds
\* the tries is the count together with the requests about to write it.
THEOREM SignInAttempts == SignInSpec => []AttemptsBounded
<1>1. Inv => AttemptsBounded
  <2>1. SUFFICES ASSUME Inv, NEW c \in DOMAIN codes
                 PROVE  codes[c].attempts
                          <= MaxAttempts + Cardinality(Requests) - 1
    BY DEF AttemptsBounded
  <2>2. codes[c].attempts + Cardinality(Counting(c))
          <= MaxAttempts + Cardinality(Requests) - 1
    BY <2>1 DEF Inv, AttemptsInv
  <2>3. Cardinality(Counting(c)) \in Nat /\ Cardinality(Requests) \in Nat
    <3>1. Counting(c) \subseteq Requests
      BY DEF Counting
    <3>. QED
      BY <3>1, CountingIsFinite
  <2>4. codes[c].attempts \in Nat /\ MaxAttempts \in Nat
    BY <2>1, FromInv, AttemptsAssumption DEF Code
  <2>. QED
    BY <2>2, <2>3, <2>4
<1>. QED
  BY <1>1, InvHolds, PTL

\* One code keeps at most one session going, until two requests take the same
\* code or the same token at once: rotation hands the session from a token to
\* the request and from the request to the next token.
THEOREM SignInSessions == SignInSpec => []OneSessionPerCode
<1>1. Inv => OneSessionPerCode
  <2>1. SUFFICES ASSUME Inv, ~overtaken,
                        NEW s \in DOMAIN tokens, NEW t \in DOMAIN tokens,
                        tokens[s].code = tokens[t].code,
                        tokens[s].code # Password,
                        ~tokens[s].revoked, ~tokens[t].revoked
                 PROVE  s = t
    BY DEF OneSessionPerCode
  <2>2. tokens[s].code \in DOMAIN codes
    BY <2>1 DEF Inv, RowsFit
  <2>. QED
    BY <2>1, <2>2 DEF Inv, SessionsInv, SessionOf, Live
<1>. QED
  BY <1>1, InvHolds, PTL

SignInFits ==
  /\ Inv
  /\ audience \in {"customer", "admin"}
  /\ account \in [known : BOOLEAN, isActive : BOOLEAN, verified : BOOLEAN,
                  password : Passwords]

\* The account starts with all its parts.
LEMMA SignInInitFits == SignInInit => SignInFits
BY InitInv DEF SignInInit, SignInFits

\* Whatever is done with an account, it keeps its parts.
LEMMA SignInNextFits ==
  SignInFits /\ [SignInNext]_<<signInVars, inFlight>> => SignInFits'
<1>. DEFINE Account == [known : BOOLEAN, isActive : BOOLEAN, verified : BOOLEAN,
                        password : Passwords]
<1>. SUFFICES ASSUME SignInFits, [SignInNext]_<<signInVars, inFlight>>
              PROVE  audience' = audience /\ account' \in Account
  BY NextInv DEF SignInFits
<1>0. account \in Account
  BY DEF SignInFits
<1>1. CASE UNCHANGED <<audience, account>>
  BY <1>0, <1>1
<1>2. ASSUME NEW r \in Requests, SignUp(r)
      PROVE  audience' = audience /\ account' \in Account
  BY <1>0, <1>2 DEF SignUp
<1>3. ASSUME NEW r \in Requests, Stamp(r)
      PROVE  audience' = audience /\ account' \in Account
  BY <1>0, <1>3 DEF Stamp
<1>4. ASSUME NEW r \in Requests, SetPassword(r)
      PROVE  audience' = audience /\ account' \in Account
  BY <1>0, <1>4 DEF SetPassword
<1>5. CASE SetActive
  BY <1>0, <1>5 DEF SetActive
<1>6. CASE UNCHANGED signInVars
  BY <1>1, <1>6 DEF signInVars
<1>7. CASE CodeAges \/ TokenExpires \/ Logout
  BY <1>1, <1>7 DEF CodeAges, TokenExpires, Logout
<1>8. ASSUME NEW r \in Requests,
             \/ AskCode(r) \/ AskVerify(r) \/ AskReset(r) \/ AskResetPassword(r)
             \/ AskLogin(r) \/ AskChange(r) \/ AskRefresh(r) \/ AbandonSignIn(r)
             \/ CheckCooldown(r) \/ FindCode(r)
      PROVE  UNCHANGED signInVars
  BY <1>8 DEF AskCode, AskVerify, AskReset, AskResetPassword, AskLogin,
    AskChange, AskRefresh, AbandonSignIn, CheckCooldown, FindCode
<1>9. ASSUME NEW r \in Requests,
             \/ SendCode(r) \/ CountAttempt(r) \/ Consume(r)
             \/ IssueTokens(r) \/ Rotate(r)
      PROVE  UNCHANGED <<audience, account>>
  BY <1>9 DEF SendCode, CountAttempt, Consume, IssueTokens, Rotate
<1>. HIDE DEF Account
<1>. QED
  BY <1>1, <1>2, <1>3, <1>4, <1>5, <1>6, <1>7, <1>8, <1>9
     DEF SignInNext, CustomerCalls, AdminCalls, SessionCalls, signInVars

\* Accounts, codes and tokens that fit are of their types.
LEMMA SignInFitsTypes == SignInFits => SignInTypeOK
BY DEF SignInFits, Inv, RowsFit, Code, Token, SignInTypeOK
===============================================================================
