------------------------------ MODULE CostSheets ------------------------------
(***************************************************************************)
(* The cost sheets of one product (products share none). A sheet freezes   *)
(* its materials' rates; a new version takes over from the active one, and *)
(* deleting the active one brings back the newest that is left. Checkout   *)
(* takes a line's cost from the active sheet.                              *)
(*                                                                         *)
(* create and remove read before their transaction. Inside it each query   *)
(* sees what is committed when the query starts, so the sheets to          *)
(* deactivate are picked before the wait for their locks.                  *)
(***************************************************************************)
EXTENDS Requests, Functions

CONSTANTS
  SheetLines,  \* the lines a form may give: quantity, and rate or NoRate
  Making,      \* making costs of a batch, in hundredths
  Yields,      \* units a batch yields
  AvgCosts,    \* average costs of the material, in ten-thousandths
  Entered,     \* how many sheets there may be at the start
  NoRate,      \* no rate given, or nothing bought yet
  Price        \* what the product sells for, in ten-thousandths

ASSUME YieldAssumption == Yields \subseteq Nat \ {0}
ASSUME EnteredAssumption == Entered \subseteq Nat

VARIABLES
  sheets,     \* the sheets by id
  lastSheet,  \* the id last given out
  avgCost,    \* the material's average cost now
  revision    \* history: how often a create or remove has committed

sheetVars == <<sheets, lastSheet, avgCost, revision>>

halfUp(n, d) == (2 * n + d) \div (2 * d)

lineCost(quantity, rate) == halfUp(quantity * rate, 100)

materialCost(lines) ==
  SumFunction([i \in DOMAIN lines |-> lines[i].lineCost])

\* The cost per unit, in ten-thousandths.
sheetTotals(lines, making, yield) ==
  halfUp(100 * (materialCost(lines) + making), yield)

\* The rate asked for, or else the average of now, which may not exist yet.
buildLines(items) ==
  [i \in DOMAIN items |->
     LET rate == CASE items[i].rate # NoRate -> items[i].rate
                   [] items[i].rate = NoRate /\ avgCost # NoRate -> avgCost
                   [] OTHER -> 0
     IN  [quantity |-> items[i].quantity, rate |-> rate,
          lineCost |-> lineCost(items[i].quantity, rate)]]

Active == {id \in DOMAIN sheets : sheets[id].isActive}

Newest(ids) ==
  CHOOSE id \in ids : \A i \in ids : sheets[i].version <= sheets[id].version

\* Of the selling price; the percentage is left out.
computeMargin(sellingPrice, costPerUnit) == sellingPrice - costPerUnit

\* The product is costed by an active sheet, if it has one.
margins ==
  IF Active = {} THEN [costed |-> FALSE]
  ELSE LET sheet == sheets[CHOOSE id \in Active : TRUE]
       IN  [costed |-> TRUE, version |-> sheet.version,
            marginAmount |-> computeMargin(Price, sheet.costPerUnit)]

\* A create or remove commits, stale if another has since it read.
Commit(r) ==
  /\ revision' = revision + 1
  /\ Settle(r, revision # job[r].was)

Dropped(ids) == [id \in DOMAIN sheets \ ids |-> sheets[id]]

Activated(ids, to, rows) ==
  [id \in DOMAIN rows |->
     IF id \in ids THEN [rows[id] EXCEPT !.isActive = to] ELSE rows[id]]

\* A product starts with no sheet, or with versions entered one after another.
SheetsInit ==
  /\ RequestsInit
  /\ avgCost \in AvgCosts /\ revision = 0
  /\ lastSheet \in Entered
  /\ \E items \in SheetLines, making \in Making, yield \in Yields :
       sheets = [id \in 1..lastSheet |->
                   [version |-> id, isActive |-> id = lastSheet,
                    lines |-> buildLines(items), making |-> making,
                    yield |-> yield,
                    costPerUnit |-> sheetTotals(buildLines(items), making,
                                                yield)]]

-----------------------------------------------------------------------------
(* create: a new version. *)

AskSheet(r) ==
  \E items \in SheetLines, making \in Making, yield \in Yields :
    /\ Begin(r, [step |-> "create", was |-> revision,
                 lines |-> buildLines(items), making |-> making,
                 yield |-> yield,
                 version |-> IF sheets = <<>> THEN 1
                             ELSE sheets[Newest(DOMAIN sheets)].version + 1])
    /\ UNCHANGED sheetVars

PickActive(r) ==
  /\ At(r, "create")
  /\ Continue(r, [step |-> "deactivate", rows |-> Active])
  /\ UNCHANGED sheetVars

\* Of the rows picked, those still there and still active are written.
Deactivate(r) ==
  /\ At(r, "deactivate") /\ Unlocked(r, job[r].rows)
  /\ Continue(r, [step |-> "insert", held |-> job[r].rows \cap Active])
  /\ UNCHANGED sheetVars

\* Mistake: no unique index.
neverTaken(r) == FALSE

\* A version number taken meanwhile is refused by the database.
VersionTaken(r) ==
  \E id \in DOMAIN sheets : sheets[id].version = job[r].version

InsertSheet(r) ==
  LET j == job[r]
      row == [version |-> j.version, isActive |-> TRUE, lines |-> j.lines,
              making |-> j.making, yield |-> j.yield,
              costPerUnit |-> sheetTotals(j.lines, j.making, j.yield)]
  IN  /\ At(r, "insert") /\ ~VersionTaken(r)
      /\ lastSheet' = lastSheet + 1
      /\ sheets' = Saved(Activated(j.held, FALSE, sheets), lastSheet', row)
      /\ Commit(r)
      /\ UNCHANGED avgCost

-----------------------------------------------------------------------------
(* update: a correction of a sheet in place. *)

AskCorrection(r) ==
  \E id \in DOMAIN sheets, making \in Making, yield \in Yields :
    /\ \/ \E items \in SheetLines :
            Begin(r, [step |-> "correct", id |-> id, replacing |-> TRUE,
                      lines |-> buildLines(items),
                      making |-> making, yield |-> yield])
       \/ Begin(r, [step |-> "correct", id |-> id, replacing |-> FALSE,
                    lines |-> sheets[id].lines,
                    making |-> making, yield |-> yield])
    /\ UNCHANGED sheetVars

\* The cost comes from the lines the handler has, even if it writes none.
corrected(row, j) ==
  [row EXCEPT !.lines = IF j.replacing THEN j.lines ELSE @,
              !.making = j.making, !.yield = j.yield,
              !.costPerUnit = sheetTotals(j.lines, j.making, j.yield)]

Correct(r) ==
  LET j == job[r]
  IN  /\ At(r, "correct") /\ j.id \in DOMAIN sheets /\ Unlocked(r, {j.id})
      /\ sheets' = [sheets EXCEPT ![j.id] = corrected(@, j)]
      /\ Settle(r, ~j.replacing /\ sheets[j.id].lines # j.lines)
      /\ UNCHANGED <<lastSheet, avgCost, revision>>

-----------------------------------------------------------------------------
(* remove: a version goes, and the newest left takes over. *)

AskRemoveSheet(r) ==
  \E id \in DOMAIN sheets :
    /\ Begin(r, [step |-> "delete", id |-> id, was |-> revision,
                 isActive |-> sheets[id].isActive])
    /\ UNCHANGED sheetVars

DeleteSheet(r) ==
  LET j == job[r]
  IN  /\ At(r, "delete") /\ j.id \in DOMAIN sheets /\ Unlocked(r, {j.id})
      /\ IF j.isActive
           THEN /\ Continue(r, [step |-> "fallback", held |-> {j.id}])
                /\ UNCHANGED <<sheets, revision>>
           ELSE /\ sheets' = Dropped({j.id})
                /\ Commit(r)
      /\ UNCHANGED <<lastSheet, avgCost>>

\* Mistake: the deleted version is not replaced.
deleteOnly(r) ==
  /\ At(r, "fallback")
  /\ sheets' = Dropped({job[r].id})
  /\ Commit(r)
  /\ UNCHANGED <<lastSheet, avgCost>>

FindFallback(r) ==
  LET left == DOMAIN sheets \ {job[r].id}
  IN  /\ At(r, "fallback")
      /\ IF left = {}
           THEN /\ sheets' = <<>>
                /\ Commit(r)
           ELSE /\ Continue(r, [step |-> "reactivate",
                                fallback |-> Newest(left)])
                /\ UNCHANGED <<sheets, revision>>
      /\ UNCHANGED <<lastSheet, avgCost>>

Reactivate(r) ==
  LET j == job[r]
  IN  /\ At(r, "reactivate")
      /\ j.fallback \in DOMAIN sheets /\ Unlocked(r, {j.fallback})
      /\ sheets' = Activated({j.fallback}, TRUE, Dropped({j.id}))
      /\ Commit(r)
      /\ UNCHANGED <<lastSheet, avgCost>>

-----------------------------------------------------------------------------

\* A write of a row that is gone, or of a version that is taken, throws and
\* rolls back, as a crash does.
AbandonSheet(r) == Interrupt(r) /\ UNCHANGED sheetVars

\* A purchase moves the average cost.
Purchased ==
  /\ avgCost' \in AvgCosts
  /\ UNCHANGED <<sheets, lastSheet, revision, inFlight>>

SheetsNext ==
  \/ \E r \in Requests :
       \/ AskSheet(r) \/ PickActive(r) \/ Deactivate(r) \/ InsertSheet(r)
       \/ AskCorrection(r) \/ Correct(r)
       \/ AskRemoveSheet(r) \/ DeleteSheet(r)
       \/ FindFallback(r) \/ Reactivate(r)
       \/ AbandonSheet(r)
  \/ Purchased

SheetsSpec == SheetsInit /\ [][SheetsNext]_<<sheetVars, inFlight>>

-----------------------------------------------------------------------------

SheetsTypeOK ==
  /\ lastSheet \in Nat
  /\ DOMAIN sheets \subseteq 1..lastSheet
  /\ \A id, other \in DOMAIN sheets :
       sheets[id].version = sheets[other].version => id = other

\* The margin reported for a product that has cost sheets, and the cost captured
\* at checkout, are those of its newest version, the only one active, from its
\* own frozen lines, making cost and yield, whatever was bought, corrected or
\* deleted since; until a create, a correction or a remove acted on sheets that
\* another had changed.
MarginIsTheNewest ==
  ~overtaken /\ DOMAIN sheets # {} =>
    LET newest == Newest(DOMAIN sheets)
        s == sheets[newest]
        materials == SumFunction(
          [i \in DOMAIN s.lines |->
             halfUp(s.lines[i].quantity * s.lines[i].rate, 100)])
        cost == halfUp(100 * (materials + s.making), s.yield)
    IN  /\ Active = {newest}
        /\ margins = [costed |-> TRUE, version |-> s.version,
                      marginAmount |-> Price - cost]
===============================================================================
