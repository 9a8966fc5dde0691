------------------------------ MODULE Accounts ------------------------------
(***************************************************************************)
(* The program's accounts as values, with the methods of their own: a      *)
(* multisig's configuration and what each config action makes of it, and   *)
(* the vote bitmaps of a proposal.  No state here: Multisig keeps these    *)
(* values in accounts, Storage keeps them as bytes.                        *)
(***************************************************************************)
EXTENDS Integers, FiniteSets, Sequences, Functions

CONSTANTS
    Address,          \* signer addresses; their order is the order of bytes
    MAX_OWNER, MAX_TIME_LOCK,   \* the program's limits
    Err               \* the result of a refused config action

DEFAULT == 0          \* Address::default()

ConfigTags == {"AddOwner", "RemoveOwner", "ChangeThreshold", "ChangeTimeLock",
               "SetRentCollector", "SetPermission", "CloseMultisig",
               "SetConfigAuthority"}

ASSUME AddressAssumption == /\ Address \subseteq Nat /\ IsFiniteSet(Address)
                            /\ DEFAULT \in Address
ASSUME OwnerLimitAssumption == /\ {MAX_OWNER, MAX_TIME_LOCK} \subseteq Nat
                               /\ MAX_OWNER > 0

(***************************************************************************)
(* Stored records.                                                         *)
(***************************************************************************)
INITIATE == 1
VOTE     == 2
EXECUTE  == 4
ALL      == 7
Masks    == 0..ALL

\* The multisig account: header, owner set and permission bytes.  `owners` is
\* the ascending list as a set; the mask of an address that is not an owner is
\* not stored and reads 0 here.
Config == [config_authority: Address, rent_collector: Address,
           transaction_index: Nat, stale_transaction_index: Nat,
           closed_transaction_count: Nat, time_lock: Nat,
           owners: SUBSET Address, permissions: [Address -> Masks],
           voter_count: Nat, threshold: Nat]

(***************************************************************************)
(* The multisig account's own methods.                                     *)
(***************************************************************************)
OwnersCount(c) == Cardinality(c.owners)

\* An owner's index in the ascending list, which is the bit of its votes.
Position(owners, a) == Cardinality({x \in owners : x < a})

\* `mask & permission != 0`, with 0 read as every permission.
MaskAllows(mask, permission) == mask = 0 \/ (mask \div permission) % 2 = 1
MaskCanVote(mask) == MaskAllows(mask, VOTE)
HasPermission(c, a, permission) ==
    a \in c.owners /\ MaskAllows(c.permissions[a], permission)

\* The voters a recount would find; voter_count is maintained, never recounted.
Voters(c) == {a \in c.owners : MaskCanVote(c.permissions[a])}

\* Mutant: the cutoff without its last rejection.
Cutoff_Late(c) ==
    2 + IF c.voter_count > c.threshold THEN c.voter_count - c.threshold ELSE 0

\* Mutant: counts owners who may not vote.
Cutoff_OfOwners(c) == 1 + OwnersCount(c) - c.threshold
\* Rejections that make approval unreachable.
Cutoff(c) ==
    1 + IF c.voter_count > c.threshold THEN c.voter_count - c.threshold ELSE 0

\* Mutant: the staleness marker is left behind.
Invalidate_Forgotten(c) == c
Invalidate(c) == [c EXCEPT !.stale_transaction_index = c.transaction_index]

MultisigInvariant(c) ==
    /\ OwnersCount(c) \in 1..MAX_OWNER
    /\ c.voter_count \in 1..OwnersCount(c)
    /\ c.threshold \in 1..c.voter_count
    /\ c.stale_transaction_index <= c.transaction_index
    /\ c.closed_transaction_count <= c.transaction_index
    /\ c.time_lock <= MAX_TIME_LOCK

(***************************************************************************)
(* Config actions: from the stored configuration to the one they leave, or *)
(* Err.  All end by making every earlier proposal stale and by checking    *)
(* the header.                                                             *)
(***************************************************************************)
Settled(c) == IF MultisigInvariant(Invalidate(c)) THEN Invalidate(c) ELSE Err

AddOwner(c, a) ==
    IF a \in c.owners \/ OwnersCount(c) >= MAX_OWNER THEN Err
    ELSE Settled([c EXCEPT !.owners = @ \cup {a}, !.permissions[a] = 0,
                           !.voter_count = @ + 1])

\* Mutant: takes every removed owner for a voter.
RemoveOwner_AnyVoter(c, a) ==
    IF a \notin c.owners THEN Err
    ELSE Settled([c EXCEPT !.owners = @ \ {a}, !.permissions[a] = 0,
                           !.voter_count = @ - 1])
RemoveOwner(c, a) ==
    IF a \notin c.owners THEN Err
    ELSE Settled([c EXCEPT
            !.owners = @ \ {a}, !.permissions[a] = 0,
            !.voter_count = IF MaskCanVote(c.permissions[a]) THEN @ - 1 ELSE @])

\* Mutant: no test for undefined bits.
SetPermission_AnyMask(c, a, mask) ==
    IF a \notin c.owners THEN Err ELSE Settled([c EXCEPT !.permissions[a] = mask])
SetPermission(c, a, mask) ==
    IF mask > ALL \/ a \notin c.owners THEN Err
    ELSE LET was_voter == MaskCanVote(c.permissions[a])
             is_voter  == MaskCanVote(mask)
         IN  Settled([c EXCEPT
                !.permissions[a] = mask,
                !.voter_count = CASE ~was_voter /\ is_voter -> @ + 1
                                  [] was_voter /\ ~is_voter -> @ - 1
                                  [] OTHER -> @])

\* Closing has no configuration to leave and is a step of its own.
ApplyConfigAction(c, i) ==
    CASE i.tag = "AddOwner"           -> AddOwner(c, i.address)
      [] i.tag = "RemoveOwner"        -> RemoveOwner(c, i.address)
      [] i.tag = "ChangeThreshold"    -> Settled([c EXCEPT !.threshold = i.value])
      [] i.tag = "ChangeTimeLock"     -> Settled([c EXCEPT !.time_lock = i.value])
      [] i.tag = "SetRentCollector"   -> Settled([c EXCEPT !.rent_collector = i.address])
      [] i.tag = "SetPermission"      -> SetPermission(c, i.address, i.value)
      [] i.tag = "SetConfigAuthority" -> Settled([c EXCEPT !.config_authority = i.address])
      [] OTHER                        -> Err

\* Mutant: the executing proposal is excluded on both paths.
CloseAllowed_OneOpen(c, payer, via_proposal) ==
    /\ c.closed_transaction_count + 1 >= c.transaction_index
    /\ c.rent_collector # DEFAULT => c.rent_collector = payer
CloseAllowed(c, payer, via_proposal) ==
    /\ IF via_proposal
       THEN c.closed_transaction_count + 1 = c.transaction_index
       ELSE c.closed_transaction_count = c.transaction_index
    /\ c.rent_collector # DEFAULT => c.rent_collector = payer

(***************************************************************************)
(* A proposal account's own methods.                                       *)
(***************************************************************************)
Status == {"Active", "Approved", "Rejected", "Executed", "Cancelled"}
Terminal == {"Executed", "Rejected", "Cancelled"}

\* Whether a bitmap sized for n owners takes the bit at p: it is in the bytes
\* and was clear.
BitmapSet(bits, n, p) == p < 8 * ((n + 7) \div 8) /\ p \notin bits

\* Mutant: a rejection is not looked at.
HasVoted_Approvals(t, p) == p \in t.approved \cup t.cancelled
HasVoted(t, p) == p \in t.approved \cup t.rejected \cup t.cancelled

TransactionInvariant(t) ==
    /\ t.owners_count \in 1..MAX_OWNER
    /\ t.approved_count + t.rejected_count <= t.owners_count
    /\ t.cancelled_count <= t.owners_count
=============================================================================
