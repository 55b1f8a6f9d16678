------------------------------- MODULE Addresses -------------------------------
(***************************************************************************)
(* The addresses of one customer, one of which may be the default. The     *)
(* flag is cleared everywhere first and the address written after it.      *)
(***************************************************************************)
EXTENDS Requests

VARIABLES
  addresses,   \* whether each address is the default, by id
  lastAddress  \* the id last given out

addressVars == <<addresses, lastAddress>>

Defaults == {id \in DOMAIN addresses : addresses[id]}

AddressesInit == RequestsInit /\ addresses = <<>> /\ lastAddress = 0

\* `flag` is the isDefault of the form; an edit may leave it out.
AskCreateAddress(r) ==
  \E flag \in BOOLEAN :
    /\ Begin(r, [step |-> IF flag THEN "clear" ELSE "write", id |-> 0,
                 flag |-> {flag}])
    /\ UNCHANGED addressVars

AskUpdateAddress(r) ==
  \E id \in DOMAIN addresses, flag \in {{}, {TRUE}, {FALSE}} :
    /\ Begin(r, [step |-> IF TRUE \in flag THEN "clear" ELSE "write",
                 id |-> id, flag |-> flag])
    /\ UNCHANGED addressVars

\* Mistake: only the address being written is cleared.
clearedOne(rows, id) == [i \in DOMAIN rows |-> IF i = id THEN FALSE ELSE rows[i]]

cleared(rows, id) == [i \in DOMAIN rows |-> FALSE]

ClearDefaults(r) ==
  /\ At(r, "clear")
  /\ addresses' = cleared(addresses, job[r].id)
  /\ Continue(r, [step |-> "write", was |-> addresses'])
  /\ UNCHANGED lastAddress

\* Only the request that makes a default depends on what it cleared.
Outrun(r) == TRUE \in job[r].flag /\ addresses # job[r].was

WriteAddress(r) ==
  LET j == job[r]
  IN  /\ At(r, "write")
      /\ IF j.id = 0
           THEN /\ lastAddress' = lastAddress + 1
                /\ addresses' = Saved(addresses, lastAddress', TRUE \in j.flag)
           ELSE /\ j.id \in DOMAIN addresses
                /\ addresses' = [addresses EXCEPT ![j.id] =
                                   IF j.flag = {} THEN @ ELSE TRUE \in j.flag]
                /\ UNCHANGED lastAddress
      /\ Settle(r, Outrun(r))

RemoveAddress ==
  \E id \in DOMAIN addresses :
    /\ addresses' = Removed(addresses, id)
    /\ UNCHANGED <<lastAddress, inFlight>>

\* A write of an address that is gone throws after the flags were cleared.
AbandonAddress(r) == Interrupt(r) /\ UNCHANGED addressVars

AddressesNext ==
  \/ \E r \in Requests :
       \/ AskCreateAddress(r) \/ AskUpdateAddress(r)
       \/ ClearDefaults(r) \/ WriteAddress(r) \/ AbandonAddress(r)
  \/ RemoveAddress

AddressesSpec == AddressesInit /\ [][AddressesNext]_<<addressVars, inFlight>>

-----------------------------------------------------------------------------

AddressesTypeOK ==
  /\ lastAddress \in Nat
  /\ DOMAIN addresses \subseteq 1..lastAddress
  /\ addresses \in [DOMAIN addresses -> BOOLEAN]

\* A customer never has two default addresses, until two requests make one
\* the default at once.
OneDefaultAddress == ~overtaken => Cardinality(Defaults) <= 1
===============================================================================
