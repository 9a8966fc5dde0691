----------------------------- MODULE MCMultisig -----------------------------
(***************************************************************************)
(* Small instances of Multisig for TLC: the payloads, messages and actions *)
(* of each run.                                                            *)
(***************************************************************************)
EXTENDS Claims, FiniteSetsExt, TLC

Act(tag, a, n) == [tag |-> tag, address |-> a, value |-> n, accounts |-> 0]
Cpi == [tag |-> "Cpi", address |-> DEFAULT, value |-> 0, accounts |-> 1]
Wide(i) == [i EXCEPT !.accounts = MAX_CPI_ACCOUNTS + 1]

AddOwner4 == Act("AddOwner", 4, 0)
RemoveOwner2 == Act("RemoveOwner", 2, 0)
Close == Act("CloseMultisig", DEFAULT, 0)

Born(owners, threshold, authority) ==
    [owners |-> owners, threshold |-> threshold, config_authority |-> authority]

NoActions == {}

\* Create keys are only compared for equality.
Symmetry == Permutations(Keys)

\* Bound: a behaviour is not followed past an account taken for another kind
\* (the run mistakes is about those).
KindsKept == misread \cup miscount = {}

\* voting: two multisigs over overlapping people, every threshold, and payloads
\* init refuses.
VotingGenesis == {Born(<<1, 2, 3>>, n, DEFAULT) : n \in 0..4}
                   \cup {Born(<<2, 3, 4>>, 2, DEFAULT),
                         Born(<<2, 1>>, 1, DEFAULT), Born(<<1, 1>>, 1, DEFAULT),
                         Born(<<>>, 0, DEFAULT)}
VotingMessages == {<<Cpi>>}

\* reconfigure: each message changes the rules of the other proposal's ballot;
\* the swap keeps the owner count.
ReconfigureGenesis == {Born(<<1, 2, 3>>, 2, DEFAULT)}
ReconfigureMessages == {<<RemoveOwner2, AddOwner4>>,
                        <<Act("SetPermission", 2, INITIATE),
                          Act("ChangeThreshold", DEFAULT, 1)>>}

\* authority: a controlled multisig and an autonomous one; every action, the
\* delay set and pushed past its limit among them.
AuthorityGenesis == {Born(<<1, 2>>, 1, 3), Born(<<1, 2>>, 2, DEFAULT)}
AuthorityMessages == {<<Act("SetConfigAuthority", 3, 0)>>}
AllActions == {AddOwner4, RemoveOwner2,
               Act("SetPermission", 2, EXECUTE), Act("SetPermission", 2, VOTE),
               Act("SetPermission", 1, ALL + 1),
               Act("ChangeThreshold", DEFAULT, 2), Act("ChangeThreshold", DEFAULT, 3),
               Act("SetRentCollector", 1, 0),
               Act("ChangeTimeLock", DEFAULT, 0), Act("ChangeTimeLock", DEFAULT, 1),
               Act("ChangeTimeLock", DEFAULT, 2),
               Act("SetConfigAuthority", DEFAULT, 0), Close}

\* lifecycle: closing, alone and among other instructions.
LifecycleGenesis == {Born(<<1, 2>>, 1, DEFAULT), Born(<<1, 2>>, 2, 3)}
LifecycleMessages == {<<Cpi>>, <<Close>>, <<Close, Cpi>>, <<Close, AddOwner4>>,
                      <<Act("SetRentCollector", 2, 0), Close>>,
                      <<Cpi, Wide(Cpi)>>, <<Cpi, Act("Malformed", DEFAULT, 0)>>}
LifecycleActions == {Close, Act("ChangeThreshold", DEFAULT, 1)}

\* mistakes: one proposal written as a multisig beside one that is not.
MistakeGenesis == {Born(<<1, 2>>, 2, DEFAULT)}
MistakeMessages == {<<Act("ChangeThreshold", DEFAULT, 1)>>}
MistakeActions == {Act("SetRentCollector", 1, 0), Close}

\* Bounds: one account is mistaken, two votes are cast, and a proposal no vote
\* or execute accepts any more is not followed.
Votes(b) == Cardinality(b.approvers) + Cardinality(b.rejecters) + Cardinality(b.cancellers)
OneMistake ==
    /\ Cardinality(misread) + Cardinality(miscount) <= 1
    /\ MapThenSumSet(LAMBDA id : Votes(ballot[id]), DOMAIN ballot) <= 2
    /\ \A id \in misread \cap DOMAIN transaction : TransactionInvariant(transaction[id])

\* Claims.
ControlledGenesis == {Born(<<1, 2>>, 1, 3)}
ThresholdActions == {Act("ChangeThreshold", DEFAULT, 2)}
CollectorActions == {Act("SetRentCollector", 1, 0)}
=============================================================================
