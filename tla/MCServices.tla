------------------------------ MODULE MCServices ------------------------------
(***************************************************************************)
(* Values and bounds for checking the services with TLC.                   *)
(***************************************************************************)
EXTENDS Services

NoRateGiven == -1
SheetForms == {<<[quantity |-> 1, rate |-> 150],
                 [quantity |-> 2, rate |-> NoRateGiven]>>}
MakingCosts == {0, 5}
BatchYields == {2}
Averages == {NoRateGiven, 333}

SomeKeys == {[visibility |-> "public", folder |-> "reviews", image |-> TRUE],
             [visibility |-> "private", folder |-> "bills", image |-> TRUE]}

SeedNames == <<"SUPER_ADMIN", "STAFF">>
Seeds == [name \in {"SUPER_ADMIN", "STAFF"} |->
            IF name = "STAFF" THEN {CHOOSE p \in Permissions : TRUE}
            ELSE Permissions]

NoCostPrice == -1
OrderLines == {<<[quantity |-> 1, unitPrice |-> 3, unitCost |-> 2],
                 [quantity |-> 2, unitPrice |-> 1, unitCost |-> NoCostPrice]>>,
               <<[quantity |-> 2, unitPrice |-> 1, unitCost |-> 1]>>}

\* What is in tickets and books is checked up to this many. Reports do not meet
\* each other, so one is asked for and followed until it is out of date. A
\* product that starts with three sheets sees two requests, one that starts with
\* none sees three. Rows of single queries are written before there is a request.
Few ==
  /\ focus = "reports" /\ asked > 0 =>
       asked = 1 /\ (report.asked \/ \E r \in Requests : ~At(r, "idle"))
  /\ Len(sales) + Len(returned) + Cardinality(DOMAIN expenses) <= 3
  /\ focus = "access" => asked <= 2 /\ asked + lastRole <= 4
  /\ focus = "sheets" => asked <= IF lastSheet >= 3 THEN 2 ELSE 3
  /\ Len(ticket.messages) <= 4
  /\ lastAddress <= 3
  /\ focus = "content" =>
       asked <= 3 /\ (asked > 0 => shown = <<>> /\ settings = {})

Swaps == Permutations(Requests) \cup Permutations(Categories)
           \cup Permutations(Products)
===============================================================================
