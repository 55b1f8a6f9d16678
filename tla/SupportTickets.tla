---------------------------- MODULE SupportTickets ----------------------------
(***************************************************************************)
(* One support ticket. A message is written first and the status after it, *)
(* from the status that was read before the message.                       *)
(***************************************************************************)
EXTENDS Requests

VARIABLES
  ticket,      \* its status and messages
  settledAt,   \* history: messages there were when an admin set the status
  unfinished   \* history: a handler stopped between message and status

ticketVars == <<ticket, settledAt, unfinished>>

TicketStatus == {"OPEN", "IN_PROGRESS", "RESOLVED", "CLOSED"}

Finished == {"RESOLVED", "CLOSED"}

TicketsInit ==
  /\ RequestsInit
  /\ ticket = [status |-> "OPEN", messages |-> <<"customer">>]
  /\ settledAt = 0
  /\ unfinished = FALSE

AskMessage(r) ==
  \E sender \in {"customer", "admin"} :
    /\ Begin(r, [step |-> "message", sender |-> sender,
                 status |-> ticket.status])
    /\ UNCHANGED ticketVars

\* Mistake: only a resolved ticket is opened again.
resolvedReopens(sender, status) ==
  \/ sender = "customer" /\ status = "RESOLVED"
  \/ sender = "admin" /\ status = "OPEN"

movesTicket(sender, status) ==
  \/ sender = "customer" /\ status \in Finished
  \/ sender = "admin" /\ status = "OPEN"

WriteMessage(r) ==
  LET j == job[r]
      moves == movesTicket(j.sender, j.status)
  IN  /\ At(r, "message")
      /\ ticket' = [ticket EXCEPT !.messages = Append(@, j.sender)]
      /\ IF moves THEN Continue(r, [step |-> "status"])
         ELSE Settle(r, ticket.status # j.status)
      /\ UNCHANGED <<settledAt, unfinished>>

WriteStatus(r) ==
  LET j == job[r]
  IN  /\ At(r, "status")
      /\ ticket' = [ticket EXCEPT !.status =
                      IF j.sender = "customer" THEN "OPEN" ELSE "IN_PROGRESS"]
      /\ Settle(r, ticket.status # j.status)
      /\ UNCHANGED <<settledAt, unfinished>>

\* updateStatus: found first, then written, whatever the status was.
updateTicket ==
  \E status \in TicketStatus :
    /\ ticket' = [ticket EXCEPT !.status = status]
    /\ settledAt' = Len(ticket.messages)
    /\ UNCHANGED <<unfinished, inFlight>>

AbandonMessage(r) ==
  /\ Interrupt(r)
  /\ unfinished' = (unfinished \/ At(r, "status"))
  /\ UNCHANGED <<ticket, settledAt>>

TicketsNext ==
  \/ \E r \in Requests :
       AskMessage(r) \/ WriteMessage(r) \/ WriteStatus(r) \/ AbandonMessage(r)
  \/ updateTicket

TicketsSpec == TicketsInit /\ [][TicketsNext]_<<ticketVars, inFlight>>

-----------------------------------------------------------------------------

TicketsTypeOK ==
  /\ ticket.status \in TicketStatus
  /\ ticket.messages \in Seq({"customer", "admin"})
  /\ settledAt \in 0..Len(ticket.messages)

\* No message of a customer stays in a ticket that is resolved or closed,
\* unless an admin set that with the message there; the exceptions are a status
\* that changed while a message was written, and a handler that stopped.
CustomerIsHeard ==
  ( /\ ticket.status \in Finished /\ ~overtaken /\ ~unfinished
    /\ \A r \in Requests : ~At(r, "status") )
  => \A i \in DOMAIN ticket.messages :
       ticket.messages[i] = "customer" => i <= settledAt
===============================================================================
