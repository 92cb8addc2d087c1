----------------------------- MODULE MCPlanLoop -----------------------------
(* Instances of PlanLoop for TLC: two files, two snippets.                 *)
EXTENDS PlanLoop, TLC

CONSTANTS a, b, x, y

MCPaths == {a, b}
MCSnippets == {x, y}

Once(s) == [t \in MCSnippets |-> IF t = s THEN 1 ELSE 0]

Twice(s) == [t \in MCSnippets |-> IF t = s THEN 2 ELSE 0]

MCTrees == {(a :> Once(x)) @@ (b :> Absent), (a :> Twice(x)) @@ (b :> Once(y))}

\* edits of one file, of both, twice of one file, and ops that cannot be done
MCPatches == {
  <<EditText(a, x, y)>>,
  <<Overwrite(b, Once(x)), EditText(a, x, y)>>,
  <<EditText(a, x, y), Create(b, Once(x))>>,
  <<Create(b, Once(x)), EditText(b, x, y)>>,
  <<Delete(a), Create(b, Once(y))>>,
  <<Overwrite(a, Once(y)), Unknown(b)>> }
=============================================================================
