------------------------------ MODULE Records ------------------------------
(***************************************************************************)
(* One multisig and one proposal of it as values: a set of owners with a   *)
(* mask each, and the sets of positions that voted.  This is how Multisig  *)
(* sees its accounts; Storage implements it in bytes.                      *)
(***************************************************************************)
EXTENDS Accounts

CONSTANT Actions   \* config actions: records with tag, address and value

VARIABLES config,  \* a member of Config
          votes    \* the last proposal: index, positions that voted, status, message

Latched == [approved |-> "Approved", rejected |-> "Rejected", cancelled |-> "Cancelled"]

\* Nobody has voted.
Fresh(v) ==
    /\ v.approved \cup v.rejected \cup v.cancelled = {}
    /\ v.status = "Active"

Init ==
    /\ config \in Config
    /\ MultisigInvariant(config)
    /\ config.voter_count = Cardinality(Voters(config))
    /\ Fresh(votes)

Outcomes(c) == {ApplyConfigAction(c, i) : i \in Actions}

Reconfigure ==
    /\ UNCHANGED votes
    /\ config' # Err
    /\ config' \in Outcomes(config)

\* The next proposal, with the same message.
Propose(a) ==
    /\ HasPermission(config, a, INITIATE)
    /\ config' = [config EXCEPT !.transaction_index = @ + 1]
    /\ Fresh(votes')
    /\ votes'.index = config'.transaction_index
    /\ votes'.message = votes.message

\* A vote of one of the three kinds, on a proposal not gone stale.
Vote(kind, a) ==
    LET c    == config
        p    == Position(c.owners, a)
        need == IF kind = "rejected" THEN Cutoff(c) ELSE c.threshold
        now  == votes[kind] \cup {p}
    IN  /\ votes.status = IF kind = "cancelled" THEN "Approved" ELSE "Active"
        /\ votes.index > c.stale_transaction_index
        /\ a \in Voters(c)
        /\ IF kind = "cancelled" THEN p \notin votes.cancelled ELSE ~HasVoted(votes, p)
        /\ votes' = [votes EXCEPT
              ![kind] = now,
              !.status = IF Cardinality(now) >= need THEN Latched[kind] ELSE @]
        /\ UNCHANGED config

Next ==
    \/ Reconfigure
    \/ \E a \in Address : Propose(a) \/ \E kind \in DOMAIN Latched : Vote(kind, a)

Spec == Init /\ [][Next]_<<config, votes>>
=============================================================================
