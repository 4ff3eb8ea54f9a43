---------------------------- MODULE ApprovedChange ----------------------------
(***************************************************************************)
(* What the mutation executor promises the owner of a workspace: a file is *)
(* only changed by spending a recorded approval, each approval is spent at *)
(* most once, and spending it is a compare-and-swap: the file holds the    *)
(* very preimage the approval was bound to, and then the approved content. *)
(* README.md ("Mutation approvals bind the approved path, operation,       *)
(* content hash, and expected preimage") in the shape of a state machine.  *)
(***************************************************************************)
CONSTANTS
    Targets,        \* the files proposals can name
    States,         \* what a file can hold, absence included
    Approvals,      \* every approval that can be recorded
    Foreign         \* TRUE when other programs may write the files as well

VARIABLES
    disk,           \* disk[t]: what file t holds
    approvals,      \* the approvals recorded so far
    spent           \* the approvals already used to write

vars == <<disk, approvals, spent>>

Init ==
    /\ disk \in [Targets -> States]
    /\ approvals = {}
    /\ spent = {}

Approve ==
    /\ approvals \subseteq approvals' /\ approvals' \subseteq Approvals
    /\ UNCHANGED <<disk, spent>>

\* Compare-and-swap on the target of an unspent approval.
Apply(a) ==
    /\ a \in approvals \ spent
    /\ disk[a.target] = a.preimage
    /\ disk' = [disk EXCEPT ![a.target] = a.content]
    /\ spent' = spent \union {a}
    /\ UNCHANGED approvals

ForeignWrite(t) ==
    /\ Foreign
    /\ \E s \in States : disk' = [disk EXCEPT ![t] = s]
    /\ UNCHANGED <<approvals, spent>>

Next ==
    \/ Approve
    \/ \E a \in approvals : Apply(a)
    \/ \E t \in Targets : ForeignWrite(t)

Spec == Init /\ [][Next]_vars
===============================================================================
