------------------------------ MODULE MCMutation ------------------------------
(* Small instances of Mutation: two runs, two files, proposals of up to two   *)
(* changes that meet on the same file in every combination of operations.     *)
EXTENDS Mutation

CONSTANTS r1, r2, t1, t2, c1, c2

Change(op, t, c) == [operation |-> op, target |-> t, content |-> c]
Request(cs, approved, allowed) ==
    [changes |-> cs, approved |-> approved, allowed |-> allowed]

\* Both approved and in scope; the second change can fail after the first.
ModifyThenCreate ==
    Request(<<Change("modify", t1, c1), Change("create", t2, c1)>>, {t1, t2}, {t1, t2})
\* The same targets in the opposite order.
ModifyBackwards ==
    Request(<<Change("modify", t2, c2), Change("modify", t1, c2)>>, {t1, t2}, {t1, t2})
\* One target twice; the preimage of the second is the first's content.
CreateThenModify ==
    Request(<<Change("create", t1, c2), Change("modify", t1, c1)>>, {t1}, {t1, t2})
\* The first change is not approved.
DeniedThenModify ==
    Request(<<Change("create", t2, c2), Change("modify", t1, c2)>>, {t1}, {t1, t2})
\* Approved on the command line, but outside the workspace.
OutOfScope ==
    Request(<<Change("modify", t1, c2), Change("modify", t2, c2)>>, {t1, t2}, {t1})
JustModify == Request(<<Change("modify", t1, c2)>>, {t1}, {t1})
JustCreate == Request(<<Change("create", t1, c1)>>, {t1}, {t1})
NoChange == Request(<<>>, {}, {t1, t2})

AllRequests ==
    {ModifyThenCreate, ModifyBackwards, CreateThenModify, DeniedThenModify, OutOfScope, NoChange}
SingleRequests == {JustModify, JustCreate}
===============================================================================
