-------------------------- MODULE EvaluationProofs --------------------------
(***************************************************************************)
(* Theorems about the evaluation harness for any number of cases and of    *)
(* workstreams.  The full workflow is driven by steps of the Coordinator,  *)
(* so its invariant holds while a case coordinates; what the harness       *)
(* needs of it is carried on to the row.                                   *)
(***************************************************************************)
EXTENDS Evaluation, CoordinatorProofs

-----------------------------------------------------------------------------
(* The inductive invariant.                                                  *)

Left == disk.checkouts \cup disk.branches

Verified == history.passed /\ history.accepted

Fresh == {"next", "planning", "preparing"}

\* One row per unit that is behind, in order.
UnitOK ==
    /\ Len(rows) = unit - 1
    /\ step \notin {"next", "saved"} => unit <= Units
    /\ step = "saved" => unit > Units
    /\ step \in {"coordinating", "rescuing"} => unit <= Cases
    /\ step \in {"preparing", "working"} => unit > Cases

FactsOK ==
    /\ step \in Fresh \cup {"coordinating", "working", "checking"} => facts = NoFacts
    /\ step = "rescuing" => facts.error # "none"
    /\ step \in {"rescuing", "cleaning"} => facts.cleaned
    /\ step = "aborted" => facts.error = "unexpected"

\* What a case has on disk and in memory, up to its clean-up.
CaseOK ==
    /\ step \in Fresh => Init
    /\ step = "coordinating" => CoordInv
    /\ step \in {"working", "checking", "cleaning"} /\ unit > Cases =>
          saved = Created /\ Left \subseteq {1}
    /\ step \in {"checking", "cleaning"} /\ unit <= Cases =>
          saved.stage # "created" /\ saved.integration /\ Verified

\* What the row will say of it.
ClosingOK ==
    step = "closing" =>
        /\ facts.error = "none" /\ facts.tests /\ unit <= Cases => Verified
        /\ facts.cleaned /\ (facts.error # "none" => unit > Cases) => Left = {}
        /\ facts.cleaned /\ saved.stage # "created" => Left \subseteq {Integration}

RowOK(row) ==
    /\ row.passed /\ row.unit <= Cases => row.verified
    /\ row.cleaned /\ (row.error => row.unit > Cases) => row.left = {}
    /\ row.cleaned /\ row.paused => row.left \subseteq {Integration}

RowsOK == \A i \in DOMAIN rows : rows[i].unit = i /\ RowOK(rows[i])

EvalInv == UnitOK /\ FactsOK /\ CaseOK /\ ClosingOK /\ RowsOK

-----------------------------------------------------------------------------
(* Which configuration a unit is of.                                         *)

LEMMA Quotients ==
    ASSUME NEW a \in Nat, NEW b \in Nat \ {0}
    PROVE  /\ a \div b \in Nat
           /\ b * (a \div b) <= a
           /\ a < b * (a \div b) + b
  BY SMT

LEMMA Products ==
    ASSUME NEW b \in Nat \ {0}, NEW q \in Nat
    PROVE  /\ q >= 1 => b * q >= b
           /\ q >= 3 => b * q >= 3 * b
  BY SMT

LEMMA UnitsNumber == Units = Cases * 3 /\ Units \in Nat /\ Cases \in Nat \ {0}
  BY CasesAssumption DEF Units, Configurations

\* The cases of the full workflow come first.
LEMMA FullWorkflowFirst ==
    ASSUME unit \in 1..Units
    PROVE  /\ Configuration = "full_workflow" <=> unit <= Cases
           /\ Configuration = "single_worker" => unit > Cases
<1> DEFINE q == (unit - 1) \div Cases
<1>1. unit \in Nat /\ unit >= 1 /\ unit <= Cases * 3 /\ Cases \in Nat \ {0}
  BY UnitsNumber
<1>2. unit - 1 \in Nat
  BY <1>1
<1>3. q \in Nat /\ Cases * q <= unit - 1 /\ unit - 1 < Cases * q + Cases
  BY <1>1, <1>2, Quotients
<1> HIDE DEF q
<1>4. /\ q >= 1 => Cases * q >= Cases
      /\ q >= 3 => Cases * q >= 3 * Cases
  BY <1>1, <1>3, Products
<1>5. Cases * 3 = 3 * Cases /\ Cases * 0 = 0
  BY <1>1
<1>6. q < 3
  BY <1>1, <1>3, <1>4, <1>5
<1>7. q = 0 <=> unit <= Cases
  BY <1>1, <1>3, <1>4, <1>5
<1>8. Configuration = Configurations[q + 1]
  BY DEF Configuration, q
<1>9. q \in {0, 1, 2}
  BY <1>3, <1>6
<1>10. /\ Configurations[1] = "full_workflow"
       /\ Configurations[2] = "single_worker"
       /\ Configurations[3] = "planner_worker"
  BY DEF Configurations
<1>11. CASE q = 0
  BY <1>1, <1>7, <1>8, <1>10, <1>11
<1>12. CASE q = 1
  <2>1. Configuration = "single_worker" /\ ~(unit <= Cases)
    BY <1>7, <1>8, <1>10, <1>12
  <2> QED BY <1>1, <2>1
<1>13. CASE q = 2
  <2>1. Configuration = "planner_worker" /\ ~(unit <= Cases)
    BY <1>7, <1>8, <1>10, <1>13
  <2> QED BY <1>1, <2>1
<1> QED BY <1>9, <1>11, <1>12, <1>13

-----------------------------------------------------------------------------
(* Types.                                                                    *)

LEMMA NoFactsTyped == NoFacts \in Facts
  BY DEF NoFacts, Facts, Kinds

LEMMA RaisedTyped ==
    ASSUME facts \in Facts, NEW next, NEW kind \in Kinds, RaiseTo(next, kind)
    PROVE  facts' \in Facts /\ facts'.error = kind /\ facts'.cleaned = facts.cleaned
  BY DEF RaiseTo, Facts

LEMMA RemovedTyped ==
    ASSUME disk \in DiskStates, NEW trees, NEW done, NEW half
    PROVE  RemovedUpTo(trees, done, half) \in DiskStates
  BY DEF RemovedUpTo, DiskStates

LEMMA CleanUpTyped ==
    ASSUME EvalTypeOK, NEW trees, CleanUp(trees), unit \in 1..Units
    PROVE  EvalTypeOK'
<1>1. step' = "closing" /\ step' \in EvalSteps
  BY DEF CleanUp, Goto, EvalSteps
<1>2. disk' \in DiskStates
  BY RemovedTyped DEF CleanUp, EvalTypeOK, TypeOK
<1>3. facts' \in Facts
  <2>1. ASSUME NEW kind \in Ungrouped
        PROVE  [error |-> kind, tests |-> FALSE, cleaned |-> FALSE] \in Facts
    BY <2>1 DEF Facts, Ungrouped
  <2> QED BY <2>1 DEF CleanUp, Goto, EvalTypeOK
<1>4. UNCHANGED <<state, saved, task, cursor, running, git, history, unit, rows>>
  BY DEF CleanUp, Goto
<1> QED BY <1>1, <1>2, <1>3, <1>4 DEF EvalTypeOK, TypeOK

LEMMA Unmoved ==
    /\ TypeOK /\ UNCHANGED coordinator => TypeOK'
    /\ CoordInv /\ UNCHANGED coordinator => CoordInv'
    /\ Init /\ UNCHANGED coordinator => Init'
<1>1. TypeOK /\ UNCHANGED coordinator => TypeOK'
  BY DEF coordinator, vars, TypeOK
<1>2. CoordInv /\ UNCHANGED coordinator => CoordInv'
  BY InvStep DEF coordinator
<1>3. Init /\ UNCHANGED coordinator => Init'
  BY DEF coordinator, vars, Init
<1> QED BY <1>1, <1>2, <1>3

LEMMA RowTyped ==
    ASSUME EvalTypeOK, unit \in 1..Units, NEW good \in BOOLEAN
    PROVE  RowOfCase(good) \in Rows
<1> DEFINE passed == facts.error = "none" /\ facts.tests /\ good
           error == facts.error # "none"
           verified == history.passed /\ history.accepted
           paused == saved.stage # "created"
           left == disk.checkouts \cup disk.branches
<1>1. passed \in BOOLEAN /\ error \in BOOLEAN /\ verified \in BOOLEAN /\ paused \in BOOLEAN
  OBVIOUS
<1>2. left \in SUBSET Trees
  BY DEF EvalTypeOK, TypeOK, DiskStates
<1>3. facts.cleaned \in BOOLEAN
  BY DEF EvalTypeOK, Facts
<1>4. RowOfCase(good) = [unit |-> unit, passed |-> passed, error |-> error,
                         verified |-> verified, cleaned |-> facts.cleaned,
                         paused |-> paused, left |-> left]
  BY DEF RowOfCase
<1> HIDE DEF passed, error, verified, paused, left
<1> QED BY <1>1, <1>2, <1>3, <1>4 DEF Rows

LEMMA ForgottenIsInit == ForgetCase => Init'
  BY DEF ForgetCase, Init

-----------------------------------------------------------------------------
(* The steps of a case.                                                      *)

EvalSound == EvalTypeOK /\ EvalInv

LEMMA UnitInRange ==
    ASSUME EvalSound, step \notin {"next", "saved"}
    PROVE  unit \in 1..Units
  BY UnitsNumber DEF EvalSound, EvalTypeOK, EvalInv, UnitOK

\* What a fresh case leaves: nothing yet.
LEMMA FreshFacts ==
    ASSUME Init
    PROVE  Left = {} /\ saved = Created /\ saved.stage = "created"
  BY DEF Init, Left, Created

LEMMA BeginStep == ASSUME EvalSound, BeginCase PROVE EvalSound'
<1> USE DEF BeginCase, Goto
<1>1. unit \in 1..Units
  BY UnitsNumber DEF EvalSound, EvalTypeOK
<1>2. step' \in {"preparing", "planning"} /\ (step' = "preparing" => unit > Cases)
  BY <1>1, FullWorkflowFirst
<1>3. Init'
  BY Unmoved DEF EvalSound, EvalInv, CaseOK, Fresh
<1>4. EvalTypeOK'
  BY <1>2, Unmoved DEF EvalSound, EvalTypeOK, EvalSteps
<1>5. UnitOK'
  BY <1>1, <1>2, UnitsNumber DEF EvalSound, EvalInv, UnitOK
<1>6. FactsOK'
  BY <1>2 DEF EvalSound, EvalInv, FactsOK, Fresh
<1>7. CaseOK' /\ ClosingOK'
  BY <1>2, <1>3 DEF CaseOK, ClosingOK
<1>8. RowsOK'
  BY DEF EvalSound, EvalInv, RowsOK, RowOK
<1> QED BY <1>4, <1>5, <1>6, <1>7, <1>8 DEF EvalSound, EvalInv

\* An error before there is anything to remove.
LEMMA EarlyError ==
    ASSUME EvalSound, step \in {"planning", "preparing"},
           NEW kind \in Ungrouped, RaiseTo("closing", kind), UNCHANGED coordinator
    PROVE  EvalSound'
<1> USE DEF RaiseTo, Ungrouped
<1>1. unit \in 1..Units
  BY UnitInRange
<1>2. facts' \in Facts /\ facts'.error = kind /\ kind # "none"
  BY RaisedTyped DEF EvalSound, EvalTypeOK, Kinds
<1>3. EvalTypeOK'
  BY <1>2, Unmoved DEF EvalSound, EvalTypeOK, EvalSteps
<1>4. UnitOK' /\ FactsOK' /\ CaseOK'
  <2>1. step' = "closing"
    OBVIOUS
  <2>2. UnitOK'
    BY <1>1, <2>1, UnitsNumber DEF EvalSound, EvalInv, UnitOK
  <2> QED BY <2>1, <2>2 DEF FactsOK, CaseOK, Fresh
<1>5. ClosingOK'
  <2>1. Init
    BY DEF EvalSound, EvalInv, CaseOK, Fresh
  <2>2. Left' = {} /\ saved'.stage = "created"
    BY <2>1, FreshFacts DEF coordinator, vars, Left
  <2> QED BY <1>2, <2>2 DEF ClosingOK
<1>6. RowsOK'
  BY DEF EvalSound, EvalInv, RowsOK, RowOK
<1> QED BY <1>3, <1>4, <1>5, <1>6 DEF EvalSound, EvalInv

LEMMA PlanStep == ASSUME EvalSound, InvokePlanner PROVE EvalSound'
<1>1. unit \in 1..Units
  BY UnitInRange DEF InvokePlanner
<1>2. CASE \E kind \in Ungrouped : RaiseTo("closing", kind)
  BY <1>2, EarlyError DEF InvokePlanner
<1>3. CASE Goto(IF Configuration = "full_workflow" THEN "coordinating"
                                                   ELSE "preparing")
  <2> USE <1>3 DEF InvokePlanner, Goto
  <2>1. /\ step' \in {"coordinating", "preparing"}
        /\ step' = "coordinating" => unit <= Cases
        /\ step' = "preparing" => ~(unit <= Cases)
    BY <1>1, FullWorkflowFirst
  <2>2. Init' /\ CoordInv'
    <3>1. Init
      BY DEF EvalSound, EvalInv, CaseOK, Fresh
    <3> QED BY <3>1, InvInit, Unmoved
  <2>3. EvalTypeOK'
    BY <2>1, Unmoved DEF EvalSound, EvalTypeOK, EvalSteps
  <2>4. UnitOK'
    BY <1>1, <2>1, UnitsNumber DEF EvalSound, EvalInv, UnitOK
  <2>5. FactsOK'
    BY <2>1 DEF EvalSound, EvalInv, FactsOK, Fresh
  <2>6. CaseOK' /\ ClosingOK'
    BY <2>1, <2>2 DEF CaseOK, ClosingOK
  <2>7. RowsOK'
    BY DEF EvalSound, EvalInv, RowsOK, RowOK
  <2> QED BY <2>3, <2>4, <2>5, <2>6, <2>7 DEF EvalSound, EvalInv
<1> QED BY <1>2, <1>3 DEF InvokePlanner

LEMMA PrepareStep == ASSUME EvalSound, PrepareWorktree PROVE EvalSound'
<1>1. unit \in 1..Units /\ unit > Cases
  BY UnitInRange DEF PrepareWorktree, EvalSound, EvalInv, UnitOK
<1>2. CASE \E kind \in Ungrouped : RaiseTo("closing", kind) /\ disk' = disk
  BY <1>2, EarlyError DEF PrepareWorktree, coordinator, vars
<1>3. CASE /\ Goto("working")
           /\ disk' = [disk EXCEPT !.checkouts = {1}, !.branches = {1}]
  <2> USE <1>3 DEF PrepareWorktree, Goto
  <2>1. disk' \in DiskStates /\ Left' \subseteq {1}
    BY TreeNumbers DEF EvalSound, EvalTypeOK, TypeOK, DiskStates, Left
  <2>2. EvalTypeOK'
    BY <2>1 DEF EvalSound, EvalTypeOK, TypeOK, EvalSteps
  <2>3. UnitOK'
    BY <1>1, UnitsNumber DEF EvalSound, EvalInv, UnitOK
  <2>4. FactsOK'
    BY DEF EvalSound, EvalInv, FactsOK, Fresh
  <2>5. saved' = Created
    BY DEF EvalSound, EvalInv, CaseOK, Fresh, Init
  <2>6. CaseOK' /\ ClosingOK'
    BY <1>1, <2>1, <2>5 DEF CaseOK, ClosingOK, Fresh
  <2>7. RowsOK'
    BY DEF EvalSound, EvalInv, RowsOK, RowOK
  <2> QED BY <2>2, <2>3, <2>4, <2>6, <2>7 DEF EvalSound, EvalInv
<1> QED BY <1>2, <1>3 DEF PrepareWorktree

LEMMA SingleWorkerStep == ASSUME EvalSound, RunWorkerUntilComplete PROVE EvalSound'
<1>1. facts.cleaned
  BY DEF RunWorkerUntilComplete, EvalSound, EvalInv, FactsOK, NoFacts
<1>2. unit \in 1..Units /\ unit > Cases
  BY UnitInRange DEF RunWorkerUntilComplete, EvalSound, EvalInv, UnitOK
<1>3. ~(unit <= Cases)
  BY <1>2, UnitsNumber
<1>4. saved' = Created /\ Left' \subseteq {1}
  BY <1>2 DEF RunWorkerUntilComplete, coordinator, vars, EvalSound, EvalInv,
              CaseOK, Left
<1>5. TypeOK'
  BY Unmoved DEF RunWorkerUntilComplete, EvalSound, EvalTypeOK
<1>6. CASE Goto("checking")
  <2> USE <1>6 DEF RunWorkerUntilComplete, Goto
  <2>1. EvalTypeOK'
    BY <1>5 DEF EvalSound, EvalTypeOK, EvalSteps
  <2>2. UnitOK'
    BY <1>2, UnitsNumber DEF EvalSound, EvalInv, UnitOK
  <2>3. FactsOK'
    BY DEF EvalSound, EvalInv, FactsOK, Fresh
  <2>4. CaseOK' /\ ClosingOK'
    BY <1>4, <1>3 DEF CaseOK, ClosingOK, Fresh
  <2>5. RowsOK'
    BY DEF EvalSound, EvalInv, RowsOK, RowOK
  <2> QED BY <2>1, <2>2, <2>3, <2>4, <2>5 DEF EvalSound, EvalInv
<1>7. ASSUME NEW kind \in Ungrouped, RaiseTo("cleaning", kind)
      PROVE  EvalSound'
  <2> USE <1>7 DEF RunWorkerUntilComplete, RaiseTo, Ungrouped
  <2>1. facts' \in Facts /\ facts'.cleaned
    BY <1>1, RaisedTyped DEF EvalSound, EvalTypeOK
  <2>2. EvalTypeOK'
    BY <1>5, <2>1 DEF EvalSound, EvalTypeOK, EvalSteps
  <2>3. UnitOK'
    BY <1>2, UnitsNumber DEF EvalSound, EvalInv, UnitOK
  <2>4. FactsOK'
    BY <2>1 DEF FactsOK, Fresh
  <2>5. CaseOK' /\ ClosingOK'
    BY <1>4, <1>3 DEF CaseOK, ClosingOK, Fresh
  <2>6. RowsOK'
    BY DEF EvalSound, EvalInv, RowsOK, RowOK
  <2> QED BY <2>2, <2>3, <2>4, <2>5, <2>6 DEF EvalSound, EvalInv
<1> QED BY <1>6, <1>7 DEF RunWorkerUntilComplete

\* The harness stays where it is: only the coordinator has moved, soundly.
LEMMA StillCoordinating ==
    ASSUME EvalSound, step = "coordinating", CoordInv',
           UNCHANGED <<unit, step, facts, rows>>
    PROVE  EvalSound'
<1>1. EvalTypeOK'
  BY DEF EvalSound, EvalTypeOK, CoordInv
<1>2. UnitOK' /\ FactsOK'
  BY DEF EvalSound, EvalInv, UnitOK, FactsOK
<1>3. CaseOK' /\ ClosingOK'
  BY DEF CaseOK, ClosingOK, Fresh
<1>4. RowsOK'
  BY DEF EvalSound, EvalInv, RowsOK, RowOK
<1> QED BY <1>1, <1>2, <1>3, <1>4 DEF EvalSound, EvalInv

LEMMA CoordinateStep == ASSUME EvalSound, RunCoordinator PROVE EvalSound'
<1>1. CoordInv
  BY DEF RunCoordinator, EvalSound, EvalInv, CaseOK
<1>2. Next
  BY DEF RunCoordinator, Next
<1>3. CoordInv'
  BY <1>1, <1>2, InvStep
<1> QED BY <1>3, StillCoordinating DEF RunCoordinator

\* An error of the coordinator, on its way to the except clause.
LEMMA RescueStarts ==
    ASSUME EvalSound, step = "coordinating", NEW kind \in Kinds,
           RaiseTo("rescuing", kind), UNCHANGED coordinator
    PROVE  EvalSound'
<1> USE DEF RaiseTo
<1>1. unit \in 1..Units
  BY UnitInRange
<1>2. facts' \in Facts /\ facts'.error # "none" /\ facts'.cleaned
  <2>1. facts.cleaned
    BY DEF EvalSound, EvalInv, FactsOK, NoFacts
  <2> QED BY <2>1, RaisedTyped DEF EvalSound, EvalTypeOK, Kinds
<1>3. EvalTypeOK'
  BY <1>2, Unmoved DEF EvalSound, EvalTypeOK, EvalSteps
<1>4. UnitOK'
  BY <1>1, UnitsNumber DEF EvalSound, EvalInv, UnitOK
<1>5. FactsOK' /\ CaseOK' /\ ClosingOK'
  BY <1>2 DEF FactsOK, CaseOK, ClosingOK, Fresh
<1>6. RowsOK'
  BY DEF EvalSound, EvalInv, RowsOK, RowOK
<1> QED BY <1>3, <1>4, <1>5, <1>6 DEF EvalSound, EvalInv

LEMMA ApproveStep == ASSUME EvalSound, ApproveFixtureEdits PROVE EvalSound'
<1>1. CASE ToolsDecided /\ Goto("coordinating")
  <2>1. CoordInv
    BY DEF ApproveFixtureEdits, EvalSound, EvalInv, CaseOK
  <2>2. Next
    BY <1>1 DEF Next, Decide
  <2>3. CoordInv'
    BY <2>1, <2>2, InvStep
  <2> QED BY <1>1, <2>3, StillCoordinating DEF ApproveFixtureEdits, Goto
<1>2. CASE RaiseTo("rescuing", "expected") /\ UNCHANGED coordinator
  BY <1>2, RescueStarts DEF ApproveFixtureEdits, Kinds
<1> QED BY <1>1, <1>2 DEF ApproveFixtureEdits

LEMMA FailedStep == ASSUME EvalSound, CoordinatorRaises PROVE EvalSound'
<1>1. PICK kind \in Kinds : RaiseTo("rescuing", kind)
  BY DEF CoordinatorRaises, Ungrouped
<1> QED BY <1>1, RescueStarts DEF CoordinatorRaises

\* The pause it ends at is the final one: what is saved is the execution in
\* memory, with its integration worktree, tested and reviewed as it is.
LEMMA InspectionStep == ASSUME EvalSound, ReachInspection PROVE EvalSound'
<1> USE DEF ReachInspection, Goto
<1>1. unit \in 1..Units /\ unit <= Cases
  BY UnitInRange DEF EvalSound, EvalInv, UnitOK
<1>2. CoordInv
  BY DEF EvalSound, EvalInv, CaseOK
<1>3. saved.stage = "awaiting_final_approval" /\ state = saved
  BY <1>2 DEF AtInspectionBoundary, CoordInv, TaskOK
<1>4. saved.integration
  BY <1>2, <1>3 DEF CoordInv, StateOK, ExecutionOK, LateStages, Integrated
<1>5. Verified
  BY <1>2, <1>3 DEF CoordInv, ReviewOK, FinalIsVerified, Verified
<1>6. saved'.stage # "created" /\ saved'.integration /\ Verified'
  BY <1>3, <1>4, <1>5 DEF coordinator, vars, Verified
<1>7. EvalTypeOK'
  BY Unmoved DEF EvalSound, EvalTypeOK, EvalSteps
<1>8. UnitOK'
  BY <1>1, UnitsNumber DEF EvalSound, EvalInv, UnitOK
<1>9. FactsOK'
  BY DEF EvalSound, EvalInv, FactsOK, Fresh
<1>10. ~(unit > Cases)
  BY <1>1, UnitsNumber
<1>11. CaseOK' /\ ClosingOK'
  BY <1>6, <1>10 DEF CaseOK, ClosingOK, Fresh
<1>12. RowsOK'
  BY DEF EvalSound, EvalInv, RowsOK, RowOK
<1> QED BY <1>7, <1>8, <1>9, <1>11, <1>12 DEF EvalSound, EvalInv

\* The tests may pass, fail or raise; of a full workflow the integration
\* worktree is there.
LEMMA CheckStep == ASSUME EvalSound, CheckResult PROVE EvalSound'
<1>1. unit \in 1..Units
  BY UnitInRange DEF CheckResult
<1>2. facts = NoFacts /\ facts.cleaned
  BY DEF CheckResult, EvalSound, EvalInv, FactsOK, NoFacts
<1>3. UNCHANGED coordinator /\ step' = "cleaning" /\ UNCHANGED <<unit, rows>>
  BY DEF CheckResult, RaiseTo
<1>4. facts' \in Facts /\ facts'.cleaned
  <2>1. ASSUME NEW passed \in BOOLEAN, facts' = [facts EXCEPT !.tests = passed]
        PROVE  facts' \in Facts /\ facts'.cleaned
    BY <1>2, <2>1 DEF EvalSound, EvalTypeOK, Facts
  <2>2. ASSUME NEW kind \in Ungrouped, RaiseTo("cleaning", kind)
        PROVE  facts' \in Facts /\ facts'.cleaned
    BY <1>2, <2>2, RaisedTyped DEF EvalSound, EvalTypeOK, Ungrouped
  <2> QED BY <2>1, <2>2 DEF CheckResult
<1>5. EvalTypeOK'
  BY <1>3, <1>4, Unmoved DEF EvalSound, EvalTypeOK, EvalSteps
<1>6. UnitOK'
  BY <1>1, <1>3, UnitsNumber DEF EvalSound, EvalInv, UnitOK
<1>7. FactsOK'
  BY <1>3, <1>4 DEF FactsOK, Fresh
<1>8. CaseOK' /\ ClosingOK'
  <2>1. unit > Cases => saved = Created /\ Left \subseteq {1}
    BY DEF CheckResult, EvalSound, EvalInv, CaseOK
  <2>2. unit <= Cases => saved.stage # "created" /\ saved.integration /\ Verified
    BY DEF CheckResult, EvalSound, EvalInv, CaseOK
  <2>3. UNCHANGED <<saved, disk, history, unit>>
    BY <1>3 DEF coordinator, vars
  <2> QED BY <1>3, <2>1, <2>2, <2>3 DEF CaseOK, ClosingOK, Fresh, Left, Verified
<1>9. RowsOK'
  BY <1>3 DEF EvalSound, EvalInv, RowsOK, RowOK
<1> QED BY <1>5, <1>6, <1>7, <1>8, <1>9 DEF EvalSound, EvalInv

-----------------------------------------------------------------------------
(* Clean-up and rows.                                                        *)

\* What a clean-up that ends well leaves of what was there.
LEMMA RemovedIsGone ==
    ASSUME disk \in DiskStates, NEW trees \in SUBSET Trees,
           disk' = RemovedUpTo(trees, Integration, Integration)
    PROVE  Left' = Left \ trees
<1>1. trees \cap 1..Integration = trees
  BY DEF Trees
<1>2. /\ disk'.checkouts = disk.checkouts \ trees
      /\ disk'.branches = disk.branches \ trees
  BY <1>1 DEF RemovedUpTo, DiskStates
<1> QED BY <1>2 DEF Left

\* A removal that raises leaves no trace of success.
LEMMA CleanUpFails ==
    ASSUME EvalSound, step \in {"rescuing", "cleaning"}, NEW trees, CleanUp(trees),
           facts'.error # "none", ~facts'.cleaned
    PROVE  EvalInv'
<1>1. unit \in 1..Units
  BY UnitInRange
<1>2. step' = "closing" /\ UNCHANGED <<unit, rows>>
  BY DEF CleanUp, Goto
<1>3. UnitOK'
  BY <1>1, <1>2, UnitsNumber DEF EvalSound, EvalInv, UnitOK
<1>4. FactsOK' /\ CaseOK' /\ ClosingOK'
  BY <1>2 DEF FactsOK, CaseOK, ClosingOK, Fresh
<1>5. RowsOK'
  BY <1>2 DEF EvalSound, EvalInv, RowsOK, RowOK
<1> QED BY <1>3, <1>4, <1>5 DEF EvalInv

\* Either way: it is enough that a clean-up that ends well may close the case.
LEMMA CleanUpStep ==
    ASSUME EvalSound, step \in {"rescuing", "cleaning"},
           NEW trees \in SUBSET Trees, CleanUp(trees),
           UNCHANGED facts /\ Left' = Left \ trees => ClosingOK'
    PROVE  EvalSound'
<1>1. unit \in 1..Units
  BY UnitInRange
<1>2. step' = "closing" /\ UNCHANGED <<unit, rows>>
  BY DEF CleanUp, Goto
<1>3. EvalTypeOK'
  BY <1>1, CleanUpTyped DEF EvalSound
<1>4. ASSUME Goto("closing"), disk' = RemovedUpTo(trees, Integration, Integration)
      PROVE  EvalInv'
  <2>1. ClosingOK'
    BY <1>4, RemovedIsGone DEF Goto, EvalSound, EvalTypeOK, TypeOK
  <2>2. UnitOK'
    BY <1>1, <1>2, UnitsNumber DEF EvalSound, EvalInv, UnitOK
  <2>3. FactsOK' /\ CaseOK'
    BY <1>2 DEF FactsOK, CaseOK, Fresh
  <2>4. RowsOK'
    BY <1>2 DEF EvalSound, EvalInv, RowsOK, RowOK
  <2> QED BY <2>1, <2>2, <2>3, <2>4 DEF EvalInv
<1>5. ASSUME NEW kind \in Ungrouped,
             facts' = [error |-> kind, tests |-> FALSE, cleaned |-> FALSE]
      PROVE  EvalInv'
  <2>1. facts'.error # "none" /\ ~facts'.cleaned
    BY <1>5 DEF Ungrouped, Kinds
  <2> QED BY <2>1, CleanUpFails
<1>6. EvalInv'
  BY <1>4, <1>5 DEF CleanUp
<1> QED BY <1>3, <1>6 DEF EvalSound

LEMMA NamedTrees ==
    /\ Named(saved) \subseteq Trees
    /\ saved.stage # "created" => Works \subseteq Named(saved)
    /\ saved.stage # "created" /\ saved.integration => Named(saved) = Trees
  BY TreeNumbers DEF Named

LEMMA RescueStep == ASSUME EvalSound, Rescue PROVE EvalSound'
<1>1. unit \in 1..Units /\ unit <= Cases /\ facts.error # "none"
  BY UnitInRange DEF Rescue, EvalSound, EvalInv, UnitOK, FactsOK
<1>2. ~(unit > Cases)
  BY <1>1, UnitsNumber
<1>3. UNCHANGED <<saved, unit>>
  BY DEF Rescue, CleanUp, Goto
<1>4. Left \subseteq Trees
  BY DEF EvalSound, EvalTypeOK, TypeOK, DiskStates, Left
<1>5. ASSUME UNCHANGED facts, Left' = Left \ Named(saved)
      PROVE  ClosingOK'
  <2>1. saved'.stage # "created" => Left' \subseteq {Integration}
    BY <1>3, <1>4, <1>5, NamedTrees, TreeNumbers
  <2> QED BY <1>1, <1>2, <1>3, <1>5, <2>1 DEF ClosingOK
<1> QED BY <1>5, NamedTrees, CleanUpStep DEF Rescue, PartialState

LEMMA CleanAtEndStep == ASSUME EvalSound, CleanAtEnd PROVE EvalSound'
<1>1. unit \in 1..Units
  BY UnitInRange DEF CleanAtEnd
<1>2. UNCHANGED <<saved, history, unit>>
  BY DEF CleanAtEnd, CleanUp, Goto
<1>3. Left \subseteq Trees
  BY DEF EvalSound, EvalTypeOK, TypeOK, DiskStates, Left
<1>4. CASE unit <= Cases
  <2>1. TreesOfCase = Named(saved)
    BY <1>1, <1>4, FullWorkflowFirst DEF TreesOfCase
  <2>2. saved.stage # "created" /\ saved.integration /\ Verified
    BY <1>4 DEF CleanAtEnd, EvalSound, EvalInv, CaseOK
  <2>3. Named(saved) = Trees
    BY <2>2, NamedTrees
  <2>4. Verified'
    BY <1>2, <2>2 DEF Verified
  <2>5. ASSUME Left' = Left \ Named(saved)
        PROVE  ClosingOK'
    BY <1>3, <2>3, <2>4, <2>5 DEF ClosingOK
  <2> QED BY <2>1, <2>3, <2>5, CleanUpStep DEF CleanAtEnd
<1>5. CASE ~(unit <= Cases)
  <2>1. TreesOfCase = {1} /\ {1} \subseteq Trees
    BY <1>1, <1>5, FullWorkflowFirst, TreeNumbers DEF TreesOfCase
  <2>2. unit > Cases
    BY <1>1, <1>5, UnitsNumber
  <2>3. Left \subseteq {1}
    BY <2>2 DEF CleanAtEnd, EvalSound, EvalInv, CaseOK
  <2>4. ASSUME Left' = Left \ {1}
        PROVE  ClosingOK'
    BY <1>2, <1>5, <2>3, <2>4 DEF ClosingOK
  <2> QED BY <2>1, <2>4, CleanUpStep DEF CleanAtEnd
<1> QED BY <1>4, <1>5

LEMMA CloseStep == ASSUME EvalSound, CloseCase PROVE EvalSound'
<1>1. unit \in 1..Units /\ unit \in Nat
  BY UnitInRange, UnitsNumber DEF CloseCase
<1>2. PICK good \in BOOLEAN : rows' = Append(rows, RowOfCase(good))
  BY DEF CloseCase
<1>3. /\ step' = "next" /\ facts' = NoFacts /\ unit' = unit + 1
      /\ Init'
  BY ForgottenIsInit DEF CloseCase
<1>4. rows \in Seq(Rows) /\ Len(rows) = unit - 1
  BY DEF EvalSound, EvalTypeOK, EvalInv, UnitOK
<1>5. RowOfCase(good) \in Rows
  BY <1>1, RowTyped DEF EvalSound
<1>6. /\ rows' \in Seq(Rows) /\ Len(rows') = unit
      /\ \A i \in DOMAIN rows' :
            IF i = unit THEN rows'[i] = RowOfCase(good)
                        ELSE i \in DOMAIN rows /\ rows'[i] = rows[i]
  BY <1>1, <1>2, <1>4, <1>5
<1>7. EvalTypeOK'
  <2>1. Init' => TypeOK'
    BY TypeInit, PTL
  <2>2. unit' \in 1..(Units + 1)
    BY <1>1, <1>3, UnitsNumber
  <2> QED BY <1>3, <1>6, <2>1, <2>2, NoFactsTyped DEF EvalTypeOK, EvalSteps
<1>8. UnitOK' /\ FactsOK' /\ CaseOK' /\ ClosingOK'
  <2>1. UnitOK'
    BY <1>1, <1>3, <1>6 DEF UnitOK
  <2> QED BY <1>3, <2>1 DEF FactsOK, CaseOK, ClosingOK
<1>9. RowsOK'
  <2>1. RowOfCase(good).unit = unit /\ RowOK(RowOfCase(good))
    BY DEF CloseCase, EvalSound, EvalInv, ClosingOK, RowOK, RowOfCase, Left, Verified
  <2>2. \A i \in DOMAIN rows : rows[i].unit = i /\ RowOK(rows[i])
    BY DEF EvalSound, EvalInv, RowsOK
  <2>3. ASSUME NEW i \in DOMAIN rows'
        PROVE  rows'[i].unit = i /\ RowOK(rows'[i])
    BY <1>6, <2>1, <2>2, <2>3
  <2>4. \A row : RowOK(row)' <=> RowOK(row)
    BY DEF RowOK
  <2> QED BY <2>3, <2>4 DEF RowsOK, RowOK
<1> QED BY <1>7, <1>8, <1>9 DEF EvalSound, EvalInv

LEMMA EndStep == ASSUME EvalSound, Abort \/ SaveResults PROVE EvalSound'
<1>1. /\ step' \in {"aborted", "saved"}
      /\ UNCHANGED <<unit, facts, rows>> /\ UNCHANGED coordinator
  BY DEF Abort, SaveResults, Goto
<1>2. EvalTypeOK'
  BY <1>1, Unmoved DEF EvalSound, EvalTypeOK, EvalSteps
<1>3. UnitOK'
  BY UnitsNumber DEF Abort, SaveResults, Goto, EvalSound, EvalInv, EvalTypeOK, UnitOK
<1>4. step' = "aborted" => facts.error = "unexpected"
  BY DEF Abort, SaveResults, Goto, BecomesRow, EvalSound, EvalTypeOK, Facts, Kinds
<1>5. FactsOK' /\ CaseOK' /\ ClosingOK'
  BY <1>1, <1>4 DEF FactsOK, CaseOK, ClosingOK, Fresh
<1>6. RowsOK'
  BY <1>1 DEF EvalSound, EvalInv, RowsOK, RowOK
<1> QED BY <1>2, <1>3, <1>5, <1>6 DEF EvalSound, EvalInv

LEMMA EvalIdle == ASSUME EvalSound, UNCHANGED evalVars PROVE EvalSound'
<1>1. UNCHANGED coordinator /\ UNCHANGED <<unit, step, facts, rows>>
  BY DEF evalVars, coordinator, vars
<1>2. EvalTypeOK'
  BY <1>1, Unmoved DEF EvalSound, EvalTypeOK
<1>3. UnitOK' /\ FactsOK' /\ RowsOK'
  BY <1>1 DEF EvalSound, EvalInv, UnitOK, FactsOK, RowsOK, RowOK
<1>4. CaseOK' /\ ClosingOK'
  <2>1. UNCHANGED <<saved, disk, history>>
    BY <1>1 DEF coordinator, vars
  <2> QED BY <1>1, <2>1, Unmoved
          DEF EvalSound, EvalInv, CaseOK, ClosingOK, Left, Verified
<1> QED BY <1>2, <1>3, <1>4 DEF EvalSound, EvalInv

-----------------------------------------------------------------------------
(* The invariant, and what follows from it.                                  *)

LEMMA EvalBegins == EvalInit => EvalSound
<1> SUFFICES ASSUME EvalInit PROVE EvalSound
  OBVIOUS
<1> USE DEF EvalInit
<1>1. rows \in Seq(Rows) /\ Len(rows) = 0 /\ DOMAIN rows = {}
  <2>1. <<>> \in Seq(Rows) /\ Len(<<>>) = 0 /\ DOMAIN <<>> = {}
    OBVIOUS
  <2> QED BY <2>1
<1>2. EvalTypeOK
  BY <1>1, TypeInit, NoFactsTyped, UnitsNumber DEF EvalTypeOK, EvalSteps
<1>3. UnitOK /\ FactsOK /\ CaseOK /\ ClosingOK /\ RowsOK
  BY <1>1 DEF UnitOK, FactsOK, CaseOK, ClosingOK, RowsOK
<1> QED BY <1>2, <1>3 DEF EvalSound, EvalInv

\* Every reachable state of the evaluation satisfies the invariant above: the
\* coordinator's own while a case coordinates, and what is kept of it for the
\* clean-up and the row.
THEOREM EvaluationInvariant == EvalSpec => []EvalSound
<1>1. ASSUME EvalSound, [EvalNext]_evalVars PROVE EvalSound'
  BY <1>1, BeginStep, PlanStep, PrepareStep, SingleWorkerStep, CoordinateStep,
     ApproveStep, InspectionStep, FailedStep, CheckStep, RescueStep,
     CleanAtEndStep, CloseStep, EndStep, EvalIdle
     DEF EvalNext
<1> QED BY <1>1, EvalBegins, PTL DEF EvalSpec

\* The coordinator's state keeps its type across cases, also while a single
\* agent uses its disk, and the report is a sequence of well-formed rows.
THEOREM EvaluationTypes == EvalSpec => []EvalTypeOK
<1>1. EvalSound => EvalTypeOK
  BY DEF EvalSound
<1> QED BY <1>1, EvaluationInvariant, PTL

LEMMA RowsHaveNumbers == \A row \in AllRows : \E i \in DOMAIN rows : row = rows[i]
  BY DEF AllRows

\* A case the report counts as passed by the full workflow is one the
\* workflow would have offered for publication: tested and reviewed as it is.
THEOREM PassesAreVerified == EvalSpec => []PassedIsVerified
<1>1. EvalSound => PassedIsVerified
  BY RowsHaveNumbers DEF EvalSound, EvalInv, RowsOK, RowOK, PassedIsVerified
<1> QED BY <1>1, EvaluationInvariant, PTL

\* The clean-ups of run_evals.py remove what their case has made, whatever
\* raised before them, unless a removal raises itself.
THEOREM CasesLeaveNothing == EvalSpec => []CasesCleanUp
<1>1. EvalSound => CasesCleanUp
  BY RowsHaveNumbers DEF EvalSound, EvalInv, RowsOK, RowOK, CasesCleanUp
<1> QED BY <1>1, EvaluationInvariant, PTL

\* The report has the rows of the units that are behind, in order; it is saved
\* complete, or an unexpected exception has ended the evaluation.
THEOREM ReportIsComplete == EvalSpec => []ErrorsBecomeRows
<1>1. EvalSound => ErrorsBecomeRows
  BY UnitsNumber DEF EvalSound, EvalTypeOK, EvalInv, UnitOK, FactsOK, RowsOK,
                     ErrorsBecomeRows
<1> QED BY <1>1, EvaluationInvariant, PTL
=============================================================================
