------------------------------ MODULE Planning ------------------------------
(***************************************************************************)
(* From an approved plan to the workstreams the coordinator starts         *)
(* (agents/planning.py): the decomposer proposes a list of workstreams     *)
(* with the paths each intends to change, and a deterministic check        *)
(* decides whether they are run side by side or replaced by one worker     *)
(* with the whole plan.  The check is modelled path by path, as its loop   *)
(* runs.                                                                   *)
(***************************************************************************)
EXTENDS Naturals, Sequences

CONSTANTS
    Paths,             \* paths, told apart as the model spells them
    MaxWorkstreams,    \* bound: workstreams proposed
    MaxPaths           \* bound: paths of one workstream

VARIABLES
    proposed,    \* intended_paths of each proposed workstream
    work,        \* index of the workstream looked at
    at,          \* index of the path looked at
    seenPaths,   \* seen_paths
    verdict      \* what becomes of the proposal

vars == <<proposed, work, at, seenPaths, verdict>>

----------------------------------------------------------------------------

UpTo(set, n) == UNION {[1..k -> set] : k \in 0..n}

\* Pydantic refuses an empty list of workstreams, not one without paths.
Proposals == UpTo(UpTo(Paths, MaxPaths), MaxWorkstreams) \ {<<>>}

Verdicts == {"planning", "deciding", "as_proposed", "one_worker", "failed"}

TypeOK ==
    /\ proposed \in Seq(Seq(Paths))
    /\ work \in 1..(MaxWorkstreams + 1)
    /\ at \in 1..(MaxPaths + 1)
    /\ seenPaths \subseteq Paths
    /\ verdict \in Verdicts

Init ==
    /\ proposed = <<>>
    /\ work = 1
    /\ at = 1
    /\ seenPaths = {}
    /\ verdict = "planning"

Decided(outcome) ==
    /\ verdict' = outcome
    /\ UNCHANGED <<proposed, work, at, seenPaths>>

----------------------------------------------------------------------------

\* invoke_decomposer: whatever the agent returns, or a PlannerError.
InvokeDecomposer ==
    /\ verdict = "planning"
    /\ \/ /\ \E proposal \in Proposals : proposed' = proposal
          /\ verdict' = "deciding"
          /\ UNCHANGED <<work, at, seenPaths>>
       \/ Decided("failed")

\* _execution_plan_for_work keeps a single workstream as it is.
KeepOnlyWorkstream ==
    /\ verdict = "deciding"
    /\ Len(proposed) = 1
    /\ Decided("as_proposed")

Checking(w) ==
    /\ verdict = "deciding"
    /\ Len(proposed) > 1
    /\ w = work
    /\ w \in DOMAIN proposed

\* Mutant: a workstream has to name two paths.
NamesTooFew(w) == Len(proposed[w]) <= 1

Undeclared(w) == proposed[w] = <<>>

RefuseUndeclared(w) ==
    /\ Checking(w)
    /\ Undeclared(w)
    /\ Decided("one_worker")

\* Mutant: each workstream starts with no path seen.
SeenInThisWorkstream(w) == {proposed[w][i] : i \in 1..(at - 1)}

SeenBefore(w) == seenPaths

RefuseSeenPath(w) ==
    /\ Checking(w)
    /\ at \in DOMAIN proposed[w]
    /\ proposed[w][at] \in SeenBefore(w)
    /\ Decided("one_worker")

NotePath(w) ==
    /\ Checking(w)
    /\ at \in DOMAIN proposed[w]
    /\ proposed[w][at] \notin SeenBefore(w)
    /\ seenPaths' = seenPaths \cup {proposed[w][at]}
    /\ at' = at + 1
    /\ UNCHANGED <<proposed, work, verdict>>

\* Mutant: indices from zero.
FromZero == 0

FirstPath == 1

NextWorkstream(w) ==
    /\ Checking(w)
    /\ ~Undeclared(w)
    /\ at \notin DOMAIN proposed[w]
    /\ work' = w + 1
    /\ at' = FirstPath
    /\ UNCHANGED <<proposed, seenPaths, verdict>>

AcceptParallel ==
    /\ verdict = "deciding"
    /\ Len(proposed) > 1
    /\ work \notin DOMAIN proposed
    /\ Decided("as_proposed")

CanRunInParallel ==
    \/ \E w \in 1..MaxWorkstreams :
          RefuseUndeclared(w) \/ RefuseSeenPath(w) \/ NotePath(w)
              \/ NextWorkstream(w)
    \/ AcceptParallel

Next == InvokeDecomposer \/ KeepOnlyWorkstream \/ CanRunInParallel

Spec == Init /\ [][Next]_vars

----------------------------------------------------------------------------
(* Properties.                                                             *)

Parallel == verdict = "as_proposed" /\ Len(proposed) > 1

Places == {p \in (1..MaxWorkstreams) \X (1..MaxPaths) :
              p[1] \in DOMAIN proposed /\ p[2] \in DOMAIN proposed[p[1]]}

PathAt(place) == proposed[place[1]][place[2]]

NamedTwice == \E p, q \in Places : p # q /\ PathAt(p) = PathAt(q)

SomeUndeclared == \E w \in DOMAIN proposed : proposed[w] = <<>>

\* Workstreams run side by side have all said what they change, and no path
\* is named twice, be it by a workstream far down the list
\* (test_coordinator.py:81); and a decomposition is given up for one worker
\* only when one of them says nothing or a path is named twice.
VerdictIsRight ==
    /\ Parallel => ~SomeUndeclared /\ ~NamedTwice
    /\ verdict = "one_worker" => SomeUndeclared \/ NamedTwice
=============================================================================
