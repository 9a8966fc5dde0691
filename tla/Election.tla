------------------------------ MODULE Election ------------------------------
(***************************************************************************)
(* What the program promises of a proposal, without positions, bitmaps,    *)
(* counters, staleness or a changing configuration: a poll with a fixed    *)
(* electorate and a fixed quorum, in which each voter speaks once, the     *)
(* outcome is settled by the vote that makes it certain, an approval may   *)
(* be undone by as many as it took, and an approved proposal runs once.    *)
(*                                                                         *)
(* It says what may happen, never that it does: a poll may be abandoned at *)
(* any point, which is what staleness does to it, and it may be spoilt, an *)
(* end the program does not rule out, after which nothing is said of it.   *)
(***************************************************************************)
EXTENDS Integers, FiniteSets, Functions

CONSTANTS Proposal, Voter

VARIABLES
    poll,    \* the polls in being, by proposal
    spoilt   \* the proposals whose poll was spoilt

Poll == [voters: SUBSET Voter, quorum: Nat, yes: SUBSET Voter,
         no: SUBSET Voter, undo: SUBSET Voter,
         outcome: {"Active", "Approved", "Rejected", "Executed", "Cancelled"}]

Init == poll = <<>> /\ spoilt = {}

\* A poll nobody has spoken in, which its electorate can decide.
Fresh(q) ==
    /\ q \in Poll
    /\ q.quorum \in 1..Cardinality(q.voters)
    /\ q.yes \cup q.no \cup q.undo = {}
    /\ q.outcome = "Active"

Open(p) ==
    /\ p \notin DOMAIN poll \cup spoilt
    /\ DOMAIN poll' = DOMAIN poll \cup {p}
    /\ Fresh(poll'[p])
    /\ \A q \in DOMAIN poll : poll'[q] = poll[q]

\* Somebody entitled to speak on p, which stands at `outcome`.
Entitled(p, v, outcome) ==
    /\ poll[p].outcome = outcome
    /\ v \in poll[p].voters

Approve(p, v) ==
    LET yes == poll[p].yes \cup {v}
    IN  /\ Entitled(p, v, "Active")
        /\ v \notin poll[p].yes \cup poll[p].no
        /\ poll' = [poll EXCEPT
              ![p].yes = yes,
              ![p].outcome = IF Cardinality(yes) >= poll[p].quorum THEN "Approved" ELSE @]

\* Rejected once those who have not rejected are too few to approve.
Reject(p, v) ==
    LET no == poll[p].no \cup {v}
    IN  /\ Entitled(p, v, "Active")
        /\ v \notin poll[p].yes \cup poll[p].no
        /\ poll' = [poll EXCEPT
              ![p].no = no,
              ![p].outcome = IF Cardinality(poll[p].voters \ no) < poll[p].quorum
                             THEN "Rejected" ELSE @]

Undo(p, v) ==
    LET undo == poll[p].undo \cup {v}
    IN  /\ Entitled(p, v, "Approved")
        /\ v \notin poll[p].undo
        /\ poll' = [poll EXCEPT
              ![p].undo = undo,
              ![p].outcome = IF Cardinality(undo) >= poll[p].quorum THEN "Cancelled" ELSE @]

Withdraw(p) ==
    /\ poll[p].outcome = "Active"
    /\ poll' = [poll EXCEPT ![p].outcome = "Cancelled"]

Run(p) ==
    /\ poll[p].outcome = "Approved"
    /\ poll' = [poll EXCEPT ![p].outcome = "Executed"]

Forget(p) ==
    /\ poll[p].outcome \in {"Rejected", "Executed", "Cancelled"}
    /\ poll' = Restrict(poll, DOMAIN poll \ {p})

\* The poll is lost, whatever it stood at; the others go on.
Spoil(p) ==
    /\ spoilt' = spoilt \cup {p}
    /\ poll' = Restrict(poll, DOMAIN poll \ {p})

Next ==
    \/ /\ \/ \E p \in Proposal : Open(p)
          \/ \E p \in DOMAIN poll :
                \/ \E v \in Voter : Approve(p, v) \/ Reject(p, v) \/ Undo(p, v)
                \/ Withdraw(p)
                \/ Run(p)
                \/ Forget(p)
       /\ UNCHANGED spoilt
    \/ \E p \in DOMAIN poll : Spoil(p)

Spec == Init /\ [][Next]_<<poll, spoilt>>
=============================================================================
