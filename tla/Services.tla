------------------------------- MODULE Services -------------------------------
(***************************************************************************)
(* The services that share no rows with each other, composed. As none      *)
(* reads what another writes, a behaviour of all of them is one of each:   *)
(* this follows one at a time, chosen at the start, and leaves the others  *)
(* as they begin.                                                          *)
(***************************************************************************)
EXTENDS CostSheets, SignIn, Reviews, SupportTickets, Addresses, Catalogue,
        Reports, Access, Media, Content

VARIABLE focus   \* the service this behaviour follows

vars == <<focus, inFlight, sheetVars, signInVars, reviewVars, ticketVars,
          addressVars, catalogueVars, reportVars, accessVars, mediaVars,
          contentVars>>

Services == {"sheets", "signIn", "reviews", "tickets", "addresses",
             "catalogue", "reports", "access", "media", "content"}

Init ==
  /\ focus \in Services
  /\ SheetsInit /\ SignInInit /\ ReviewsInit /\ TicketsInit
  /\ AddressesInit /\ CatalogueInit /\ ReportsInit
  /\ AccessInit /\ MediaInit /\ ContentInit

\* Of what is not followed, one starting state is enough.
OneStart ==
  /\ focus # "sheets" =>
       /\ avgCost = NoRate /\ lastSheet = 0
  /\ focus # "signIn" => /\ audience = "admin"
                         /\ account.password = CHOOSE p \in Passwords : TRUE
  /\ focus # "access" => lastRole = 0

InitOnce == Init /\ OneStart

Sheets ==
  /\ focus = "sheets" /\ SheetsNext
  /\ UNCHANGED <<focus, signInVars, reviewVars, ticketVars, addressVars,
                 catalogueVars, reportVars, accessVars, mediaVars, contentVars>>

Accounts ==
  /\ focus = "signIn" /\ SignInNext
  /\ UNCHANGED <<focus, sheetVars, reviewVars, ticketVars, addressVars,
                 catalogueVars, reportVars, accessVars, mediaVars, contentVars>>

Reviewing ==
  /\ focus = "reviews" /\ ReviewsNext
  /\ UNCHANGED <<focus, sheetVars, signInVars, ticketVars, addressVars,
                 catalogueVars, reportVars, accessVars, mediaVars, contentVars>>

Support ==
  /\ focus = "tickets" /\ TicketsNext
  /\ UNCHANGED <<focus, sheetVars, signInVars, reviewVars, addressVars,
                 catalogueVars, reportVars, accessVars, mediaVars, contentVars>>

AddressBook ==
  /\ focus = "addresses" /\ AddressesNext
  /\ UNCHANGED <<focus, sheetVars, signInVars, reviewVars, ticketVars,
                 catalogueVars, reportVars, accessVars, mediaVars, contentVars>>

Catalog ==
  /\ focus = "catalogue" /\ CatalogueNext
  /\ UNCHANGED <<focus, sheetVars, signInVars, reviewVars, ticketVars,
                 addressVars, reportVars, accessVars, mediaVars, contentVars>>

Reporting ==
  /\ focus = "reports" /\ ReportsNext
  /\ UNCHANGED <<focus, sheetVars, signInVars, reviewVars, ticketVars,
                 addressVars, catalogueVars, accessVars, mediaVars, contentVars>>

Managing ==
  /\ focus = "access" /\ AccessNext
  /\ UNCHANGED <<focus, sheetVars, signInVars, reviewVars, ticketVars,
                 addressVars, catalogueVars, reportVars, mediaVars, contentVars>>

Library ==
  /\ focus = "media" /\ MediaNext
  /\ UNCHANGED <<focus, sheetVars, signInVars, reviewVars, ticketVars,
                 addressVars, catalogueVars, reportVars, accessVars, contentVars>>

Publishing ==
  /\ focus = "content" /\ ContentNext
  /\ UNCHANGED <<focus, sheetVars, signInVars, reviewVars, ticketVars,
                 addressVars, catalogueVars, reportVars, accessVars, mediaVars>>

Next ==
  \/ Sheets \/ Accounts \/ Reviewing \/ Support \/ AddressBook \/ Catalog
  \/ Reporting \/ Managing \/ Library \/ Publishing

Spec == InitOnce /\ [][Next]_vars

\* Every service keeps its rows in their types, with unique ids, versions and
\* slugs, no reference to a row that is gone and no published post undated.
TypeOK ==
  /\ SheetsTypeOK /\ SignInTypeOK /\ ReviewsTypeOK /\ TicketsTypeOK
  /\ AddressesTypeOK /\ CatalogueTypeOK /\ ReportsTypeOK
  /\ AccessTypeOK /\ MediaTypeOK /\ ContentTypeOK
===============================================================================
