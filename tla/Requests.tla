------------------------------- MODULE Requests -------------------------------
(***************************************************************************)
(* Requests in flight. A handler awaits each call to the database, and     *)
(* between two calls any other request may run. `job` keeps, for each      *)
(* request, the step its handler is at and what it has read so far. The    *)
(* services that need no more than this extend this module.                *)
(***************************************************************************)
EXTENDS Integers, Sequences, FiniteSets, TLC

CONSTANTS
  Requests,   \* the requests that can be in flight at the same time
  MaxAsked    \* bound: requests ever made

ASSUME AskedBound == MaxAsked \in Nat

VARIABLES
  job,        \* what each request is doing
  asked,      \* how many requests there have been
  overtaken   \* history: a request wrote what it had decided on old readings

inFlight == <<job, asked, overtaken>>

\* What `new` has, and what `old` has besides.
Merged(new, old) ==
  [x \in DOMAIN new \cup DOMAIN old |->
     IF x \in DOMAIN new THEN new[x] ELSE old[x]]

\* Rows are kept by id.
Saved(rows, id, row) ==
  [i \in DOMAIN rows \cup {id} |-> IF i = id THEN row ELSE rows[i]]

Removed(rows, id) == [i \in DOMAIN rows \ {id} |-> rows[i]]

\* `held` are the rows an open transaction has written and so keeps locked.
Idle == [step |-> "idle", held |-> {}]

RequestsInit ==
  /\ job = [r \in Requests |-> Idle]
  /\ asked = 0
  /\ overtaken = FALSE

Begin(r, what) ==
  /\ job[r].step = "idle" /\ asked < MaxAsked
  /\ asked' = asked + 1
  /\ job' = [job EXCEPT ![r] = Merged(what, Idle)]
  /\ UNCHANGED overtaken

\* The handler writes, on readings that may be stale by now, and goes on.
Proceed(r, what, stale) ==
  /\ job' = [job EXCEPT ![r] = Merged(what, job[r])]
  /\ overtaken' = (overtaken \/ stale)
  /\ UNCHANGED asked

Continue(r, what) == Proceed(r, what, FALSE)

\* The handler writes and answers.
Settle(r, stale) ==
  /\ job' = [job EXCEPT ![r] = Idle]
  /\ overtaken' = (overtaken \/ stale)
  /\ UNCHANGED asked

End(r) == Settle(r, FALSE)

At(r, step) == job[r].step = step

\* Rows another transaction has written cannot be written yet.
Unlocked(r, rows) == \A q \in Requests \ {r} : job[q].held \cap rows = {}

\* The process stops, the connection is lost or the database cancels the
\* transaction: what it has not committed is gone.
Interrupt(r) == job[r].step # "idle" /\ End(r)
===============================================================================
