------------------------------ MODULE FileOps ------------------------------
(***************************************************************************)
(* Structured edits of a tree (runtime/sandbox.py apply_file_ops, and the  *)
(* dry run of it, Runtime._check_file_ops).  A file is the bag of the      *)
(* snippets it contains: what an edit tests is how often its old text      *)
(* occurs.  Ops that are no dicts, name no path or lack their content are  *)
(* left out, and Paths are files of which none is below another and each   *)
(* has one spelling: a path below a file, './a' beside 'a' and directories *)
(* are left out too, although there the dry run accepts ops that the loop  *)
(* cannot do.                                                              *)
(***************************************************************************)
EXTENDS Integers, Sequences

CONSTANTS Paths, Snippets, Absent

Body == [Snippets -> Nat]
Tree == [Paths -> Body \union {Absent}]

\* action "unknown": any other word, and a path that leaves the root
Create(p, b) == [action |-> "create", path |-> p, body |-> b]
Overwrite(p, b) == [action |-> "replace", path |-> p, body |-> b]
EditText(p, x, y) == [action |-> "edit", path |-> p, old |-> x, new |-> y]
Delete(p) == [action |-> "delete", path |-> p]
Unknown(p) == [action |-> "unknown", path |-> p]

FileOp == [action : {"create", "replace"}, path : Paths, body : Body]
          \union [action : {"edit"}, path : Paths, old : Snippets, new : Snippets]
          \union [action : {"delete", "unknown"}, path : Paths]

(* Can op be done to tree t?  An edit needs its old text exactly once.     *)
Satisfiable(t, op) ==
  \/ op.action \in {"replace", "delete"}
  \/ op.action = "create" /\ t[op.path] = Absent
  \/ /\ op.action = "edit" /\ t[op.path] # Absent
     /\ t[op.path][op.old] = 1

Replaced(b, x, y) == LET less == [b EXCEPT ![x] = @ - 1] IN [less EXCEPT ![y] = @ + 1]

(* What the loop writes to the path of op.                                 *)
Written(t, op) ==
  IF op.action = "edit" THEN Replaced(t[op.path], op.old, op.new)
  ELSE IF op.action = "delete" THEN Absent ELSE op.body

Touched(t, op) == IF op.action = "delete" /\ t[op.path] = Absent THEN {} ELSE {op.path}

\* variant: the dry run takes an old text that occurs twice
CheckOccurs(t, ops) ==
  \A i \in DOMAIN ops :
    \/ Satisfiable(t, ops[i])
    \/ ops[i].action = "edit" /\ t[ops[i].path] # Absent /\ t[ops[i].path][ops[i].old] > 0

(* The dry run tests each op alone against the tree as it is.              *)
CheckFileOps(t, ops) == \A i \in DOMAIN ops : Satisfiable(t, ops[i])

(* No two ops name one path: then the dry run and the loop agree.          *)
OnePathEach(ops) == \A i, j \in DOMAIN ops : ops[i].path = ops[j].path => i = j

(* What such ops are for, op by op: the reference for the loop.            *)
Intended(t, ops) ==
  [p \in Paths |-> IF \E i \in DOMAIN ops : ops[i].path = p
                     THEN Written(t, ops[CHOOSE i \in DOMAIN ops : ops[i].path = p])
                     ELSE t[p]]
=============================================================================
