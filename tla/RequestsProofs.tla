---------------------------- MODULE RequestsProofs ----------------------------
(***************************************************************************)
(* What the proofs about the services have in common: what each way of     *)
(* going on does to the requests in flight, and what saving and removing   *)
(* do to rows.                                                             *)
(***************************************************************************)
EXTENDS Requests, TLAPS

\* A request is a record that has at least a step.
JobsOK ==
  /\ job = [r \in Requests |-> job[r]]
  /\ \A r \in Requests : "step" \in DOMAIN job[r]
  /\ overtaken \in BOOLEAN

\* Merging keeps all of the new, and of the old what is not replaced.
LEMMA MergedKeeps ==
  ASSUME NEW new, NEW old
  PROVE  /\ DOMAIN Merged(new, old) = DOMAIN new \cup DOMAIN old
         /\ \A x \in DOMAIN new : Merged(new, old)[x] = new[x]
         /\ \A x \in DOMAIN old \ DOMAIN new : Merged(new, old)[x] = old[x]
BY DEF Merged

\* Saving sets one row and leaves the others.
LEMMA SavedSets ==
  ASSUME NEW rows, NEW id, NEW row
  PROVE  /\ DOMAIN Saved(rows, id, row) = DOMAIN rows \cup {id}
         /\ Saved(rows, id, row)[id] = row
         /\ \A i \in DOMAIN rows \ {id} : Saved(rows, id, row)[i] = rows[i]
BY DEF Saved

\* Removing leaves the others.
LEMMA RemovedLeaves ==
  ASSUME NEW rows, NEW id
  PROVE  /\ DOMAIN Removed(rows, id) = DOMAIN rows \ {id}
         /\ \A i \in DOMAIN rows \ {id} : Removed(rows, id)[i] = rows[i]
BY DEF Removed

-----------------------------------------------------------------------------

\* At the start every request is idle.
LEMMA Starting ==
  ASSUME RequestsInit
  PROVE  /\ JobsOK /\ ~overtaken
         /\ \A r \in Requests : job[r] = Idle /\ job[r].step = "idle"
<1>1. job = [r \in Requests |-> Idle] /\ overtaken = FALSE
  BY DEF RequestsInit
<1>2. "step" \in DOMAIN Idle /\ Idle.step = "idle"
  BY DEF Idle
<1>. QED
  BY <1>1, <1>2 DEF JobsOK

\* A request that begins was idle, and is as it was asked.
LEMMA Beginning ==
  ASSUME JobsOK, NEW r \in Requests, NEW what, Begin(r, what),
         "step" \in DOMAIN what
  PROVE  /\ JobsOK' /\ overtaken' = overtaken
         /\ job[r].step = "idle"
         /\ \A q \in Requests \ {r} : job'[q] = job[q]
         /\ DOMAIN what \subseteq DOMAIN job'[r]
         /\ \A f \in DOMAIN what : job'[r][f] = what[f]
<1>1. job' = [job EXCEPT ![r] = Merged(what, Idle)] /\ job[r].step = "idle"
      /\ overtaken' = overtaken
  BY DEF Begin
<1>2. job'[r] = Merged(what, Idle)
  BY <1>1 DEF JobsOK
<1>rest. /\ job' = [q \in Requests |-> job'[q]]
      /\ \A q \in Requests \ {r} : job'[q] = job[q]
  BY <1>1 DEF JobsOK
<1>3. /\ DOMAIN job'[r] = DOMAIN what \cup DOMAIN Idle
      /\ \A f \in DOMAIN what : job'[r][f] = what[f]
      /\ \A f \in DOMAIN Idle \ DOMAIN what : job'[r][f] = Idle[f]
  <2>1. /\ DOMAIN Merged(what, Idle) = DOMAIN what \cup DOMAIN Idle
        /\ \A x \in DOMAIN what : Merged(what, Idle)[x] = what[x]
        /\ \A x \in DOMAIN Idle \ DOMAIN what :
             Merged(what, Idle)[x] = Idle[x]
    BY MergedKeeps
  <2>. QED
    BY <1>2, <2>1
<1>4. \A q \in Requests : "step" \in DOMAIN job'[q]
  BY <1>rest, <1>3 DEF JobsOK
<1>5. JobsOK'
  BY <1>1, <1>rest, <1>4 DEF JobsOK
<1>. QED
  BY <1>1, <1>rest, <1>3, <1>5

\* A request that goes on changes what it says, and nothing else.
LEMMA Proceeding ==
  ASSUME JobsOK, NEW r \in Requests, NEW what, NEW stale \in BOOLEAN,
         Proceed(r, what, stale)
  PROVE  /\ JobsOK' /\ overtaken' = (overtaken \/ stale)
         /\ \A q \in Requests \ {r} : job'[q] = job[q]
         /\ DOMAIN job'[r] = DOMAIN what \cup DOMAIN job[r]
         /\ \A f \in DOMAIN what : job'[r][f] = what[f]
         /\ \A f \in DOMAIN job[r] \ DOMAIN what : job'[r][f] = job[r][f]
<1>1. job' = [job EXCEPT ![r] = Merged(what, job[r])]
      /\ overtaken' = (overtaken \/ stale)
  BY DEF Proceed
<1>2. job'[r] = Merged(what, job[r])
  BY <1>1 DEF JobsOK
<1>rest. /\ job' = [q \in Requests |-> job'[q]]
      /\ \A q \in Requests \ {r} : job'[q] = job[q]
  BY <1>1 DEF JobsOK
<1>3. /\ DOMAIN job'[r] = DOMAIN what \cup DOMAIN job[r]
      /\ \A f \in DOMAIN what : job'[r][f] = what[f]
      /\ \A f \in DOMAIN job[r] \ DOMAIN what : job'[r][f] = job[r][f]
  <2>1. /\ DOMAIN Merged(what, job[r]) = DOMAIN what \cup DOMAIN job[r]
        /\ \A x \in DOMAIN what : Merged(what, job[r])[x] = what[x]
        /\ \A x \in DOMAIN job[r] \ DOMAIN what :
             Merged(what, job[r])[x] = job[r][x]
    BY MergedKeeps
  <2>. QED
    BY <1>2, <2>1
<1>4. \A q \in Requests : "step" \in DOMAIN job'[q]
  BY <1>rest, <1>3 DEF JobsOK
<1>5. JobsOK'
  BY <1>1, <1>rest, <1>4 DEF JobsOK
<1>. QED
  BY <1>1, <1>rest, <1>3, <1>5

\* Often that is the step alone.
LEMMA Stepping ==
  ASSUME JobsOK, NEW r \in Requests, NEW s, NEW stale \in BOOLEAN,
         Proceed(r, [step |-> s], stale)
  PROVE  /\ JobsOK' /\ overtaken' = (overtaken \/ stale)
         /\ \A q \in Requests \ {r} : job'[q] = job[q]
         /\ job'[r].step = s
         /\ DOMAIN job'[r] = DOMAIN job[r]
         /\ \A f \in DOMAIN job[r] \ {"step"} : job'[r][f] = job[r][f]
<1>. DEFINE what == [step |-> s]
<1>1. DOMAIN what = {"step"} /\ what["step"] = s
  OBVIOUS
<1>2. /\ JobsOK' /\ overtaken' = (overtaken \/ stale)
      /\ \A q \in Requests \ {r} : job'[q] = job[q]
      /\ DOMAIN job'[r] = DOMAIN what \cup DOMAIN job[r]
      /\ \A f \in DOMAIN what : job'[r][f] = what[f]
      /\ \A f \in DOMAIN job[r] \ DOMAIN what : job'[r][f] = job[r][f]
  <2>1. Proceed(r, what, stale)
    OBVIOUS
  <2>. HIDE DEF what
  <2>. QED
    BY <2>1, Proceeding
<1>3. "step" \in DOMAIN job[r]
  BY DEF JobsOK
<1>. HIDE DEF what
<1>. QED
  BY <1>1, <1>2, <1>3

\* A request that has answered is idle again.
LEMMA Settling ==
  ASSUME JobsOK, NEW r \in Requests, NEW stale \in BOOLEAN, Settle(r, stale)
  PROVE  /\ JobsOK' /\ overtaken' = (overtaken \/ stale)
         /\ \A q \in Requests \ {r} : job'[q] = job[q]
         /\ job'[r] = Idle /\ job'[r].step = "idle"
<1>1. job' = [job EXCEPT ![r] = Idle] /\ overtaken' = (overtaken \/ stale)
  BY DEF Settle
<1>2. "step" \in DOMAIN Idle /\ Idle.step = "idle"
  BY DEF Idle
<1>. QED
  BY <1>1, <1>2 DEF JobsOK
===============================================================================
