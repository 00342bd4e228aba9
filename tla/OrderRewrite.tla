---------------------------- MODULE OrderRewrite ----------------------------
(***************************************************************************)
(* The statements by which a transaction rewrites the public order,        *)
(* setTemporaryOrder and then setFinalOrder of internal/project: one       *)
(* UPDATE per project, each checked at once against the UNIQUE KEY on      *)
(* sort_order, each required to change exactly one row.  (The driver       *)
(* counts changed rows: the connection does not ask for found rows, so     *)
(* writing the value a row already has counts as zero.)                    *)
(* ProjectOrder takes the whole rewrite as one step; here it is shown that *)
(* it may.  Its variables are what others see, and wait while the          *)
(* transaction holds the lock.                                             *)
(***************************************************************************)
EXTENDS ProjectOrder

CONSTANT MaxSort   \* bound: places held when a rewrite begins

ASSUME RewriteAssumption == MaxSort \in Nat

VARIABLES
  goal,    \* the places to give, 0 for a project that is not public
  sort,    \* sort_order as the transaction has it, 0 for NULL
  phase,   \* "temporary", "final", "done" or "failed" (rolled back)
  index    \* place of the project whose turn it is

seen == <<rows, orderVersion, client>>
rewriteVars == <<rows, orderVersion, client, goal, sort, phase, index>>

PlacesOf(S, n) ==
  {f \in [Project -> 0 .. n] :
     /\ \A p \in Project : f[p] > 0 <=> p \in S
     /\ \A p, q \in S : f[p] = f[q] => p = q}

(* Any public set, in any order the UNIQUE KEY allows, with gaps, and any  *)
(* order to be given.  Versions and contents are of no account here.       *)
RewriteInit ==
  /\ \E S \in SUBSET Project :
       /\ sort \in PlacesOf(S, MaxSort)
       /\ goal \in PlacesOf(S, Cardinality(S))
       /\ \E content \in Verified :
            rows = [p \in Project |-> [status |-> IF p \in S THEN "public" ELSE "hidden",
                                       sort |-> sort[p], version |-> 2,
                                       content |-> content]]
  /\ orderVersion = MaxOrder
  /\ \E p \in Project : client = [c \in Client |-> Blank("closed", p)]
  /\ phase = "temporary"
  /\ index = 1

Count == Cardinality(Placed(goal))

(* One UPDATE: it fails on a value another row has, and when it changes    *)
(* nothing.                                                                *)
Set(p, value) ==
  IF \E q \in Project : sort[q] = value
  THEN /\ phase' = "failed"
       /\ UNCHANGED <<sort, index>>
  ELSE /\ sort' = [sort EXCEPT ![p] = value]
       /\ index' = index + 1
       /\ UNCHANGED phase

(* A wrong SetTemporary: straight to the final places.                     *)
SetInPlace ==
  /\ phase = "temporary"
  /\ \E p \in Project : goal[p] = index /\ Set(p, index)
  /\ UNCHANGED <<seen, goal>>

SetTemporary ==
  /\ phase = "temporary"
  /\ \E p \in Project : goal[p] = index /\ Set(p, Count + index)
  /\ UNCHANGED <<seen, goal>>

BeginFinal ==
  /\ phase = "temporary" /\ index > Count
  /\ phase' = "final"
  /\ index' = 1
  /\ UNCHANGED <<seen, goal, sort>>

SetFinal ==
  /\ phase = "final"
  /\ \E p \in Project : goal[p] = index /\ Set(p, index)
  /\ UNCHANGED <<seen, goal>>

Finish ==
  /\ phase = "final" /\ index > Count
  /\ phase' = "done"
  /\ UNCHANGED <<seen, goal, sort, index>>

RewriteNext == SetTemporary \/ BeginFinal \/ SetFinal \/ Finish

RewriteSpec == RewriteInit /\ [][RewriteNext]_rewriteVars

----------------------------------------------------------------------------
(* The statements end with the places asked for exactly when ProjectOrder  *)
(* says they can, and otherwise fail: ProjectOrder's one step is theirs.   *)
(* Reordering a dense order never fails, whichever permutation is asked.   *)
OutcomeIsAtomic ==
  /\ phase = "done" => sort = goal /\ Rewritable(goal)
  /\ phase = "failed" => ~ Rewritable(goal)
  /\ (\A p \in Project : rows[p].sort <= Count) => phase # "failed"
=============================================================================
