------------------------------- MODULE Claims -------------------------------
(***************************************************************************)
(* What the repository's own texts say of the program and the program does *)
(* not do.  Each is checked by a run in which TLC finds it violated; the   *)
(* README discusses them.                                                  *)
(***************************************************************************)
EXTENDS Multisig

CanCancel(m, id, o) ==
    /\ Prepared(m, id, o, "Approved")
    /\ MaskCanVote(multisig[m].permissions[o])
    /\ BitmapSet(transaction[id].cancelled, transaction[id].owners_count,
                 Position(multisig[m].owners, o))

\* cancel.rs, "undoing that takes the same threshold that made it": as long as
\* an approved proposal waits for execution, its multisig has voters who can
\* vote to cancel it.  A config change leaves it executable and uncancellable.
ApprovedCanBeCancelled ==
    \A id \in DOMAIN transaction :
        /\ frame = NoFrame
        /\ transaction[id].status = "Approved"
        /\ transaction[id].multisig \in DOMAIN multisig
        => \E o \in Address : CanCancel(transaction[id].multisig, id, o)

\* config_action.rs on close_multisig, "refuses unless the only proposal still
\* open is the one carrying this action": no unfinished proposal outlives its
\* multisig.  A buffer closed as a proposal is counted in place of one.
CloseLeavesNoneUnfinished ==
    \A m \in created \ DOMAIN multisig :
        \A id \in Open(m) : transaction[id].status \in Terminal

\* transaction.rs, "`Approved` is latched by the vote that crosses the
\* threshold": as many people approved an Approved proposal as the rules it was
\* made under ask for.  Its creator can have the counts written over.
ApprovedByTheThreshold ==
    \A id \in DOMAIN transaction :
        transaction[id].status = "Approved" =>
            Cardinality(ballot[id].approvers) >= ballot[id].config.threshold
=============================================================================
