------------------------------ MODULE Storage ------------------------------
(***************************************************************************)
(* The bytes behind a multisig account and a proposal: a header and a tail *)
(* of cells.  The multisig's tail is its owners' addresses, W cells each,  *)
(* followed by one permission cell each; the proposal's is three bitmaps   *)
(* followed by the message.  Adding or removing an owner shifts both parts *)
(* of the first by overlapping copies, and an owner's index in it, found   *)
(* by binary search, is a bit of the second.                               *)
(*                                                                         *)
(* An offset counts from 0, as in the source.  W, BASE and BITS are 32,    *)
(* 256 and 8 in the program.                                               *)
(***************************************************************************)
EXTENDS Accounts

CONSTANTS
    W,         \* cells of an address
    BASE,      \* values of a cell of an address
    BITS,      \* bits of a cell of a bitmap
    Actions,   \* config actions, of the kinds modelled here
    Genesis,   \* payloads init_multisig is called with
    Message,   \* the proposal's message, a sequence of cells
    MaxIndex   \* bound on transaction_index

\* b ^ n, spelt out.
Power(b) ==
    LET power[n \in Nat] == IF n = 0 THEN 1 ELSE b * power[n - 1]
    IN  power

ASSUME LayoutAssumption ==
    /\ {W, BASE, BITS, MaxIndex} \subseteq Nat \ {0}
    /\ Address \subseteq 0..(Power(BASE)[W] - 1)

\* Payloads init_multisig accepts, and the values an instruction can carry.
ASSUME PayloadAssumption ==
    /\ \A g \in Genesis :
          /\ g.owners \in Seq(Address)
          /\ Len(g.owners) \in 1..MAX_OWNER
          /\ \A i \in 2..Len(g.owners) : g.owners[i - 1] < g.owners[i]
          /\ g.threshold \in 1..Len(g.owners)
    /\ Actions \subseteq [tag: {"AddOwner", "RemoveOwner", "SetPermission", "ChangeThreshold"},
                          address: Address, value: Nat]
    /\ Message \in Seq(Nat)

VARIABLES account,   \* the multisig account: header fields and tail
          proposal   \* the last proposal account: header fields and tail

vars == <<account, proposal>>

(***************************************************************************)
(* Slices.                                                                 *)
(***************************************************************************)
\* data.copy_within(from..to, at), which reads all before it writes.
CopyWithin(data, from, to, at) ==
    [k \in DOMAIN data |-> IF k - at \in 0..(to - from - 1) THEN data[from + k - at] ELSE data[k]]

\* data[at..at + Len(cells)].copy_from_slice(cells)
Write(data, at, cells) ==
    [k \in DOMAIN data |-> IF k - at + 1 \in DOMAIN cells THEN cells[k - at + 1] ELSE data[k]]

\* Growing appends zeros; shrinking cuts.
Resize(data, n) == [k \in 0..(n - 1) |-> IF k \in DOMAIN data THEN data[k] ELSE 0]

\* An address is compared byte by byte from the first, so its cells are digits.
Cells(a) == [k \in 1..W |-> (a \div Power(BASE)[W - k]) % BASE]
Number(cells) ==
    LET upTo[k \in 0..W] == IF k = 0 THEN 0 ELSE upTo[k - 1] * BASE + cells[k]
    IN  upTo[W]

AddressAt(data, at) == Number([k \in 1..W |-> data[at + k - 1]])

\* slice::binary_search: where the element is, or where it belongs.
BinarySearch(list, n, a) ==
    LET search[range \in (0..n) \X (0..n)] ==
            LET lo  == range[1]
                hi  == range[2]
                mid == (lo + hi) \div 2
            IN  IF lo >= hi THEN [found |-> FALSE, index |-> lo]
                ELSE IF list[mid] = a THEN [found |-> TRUE, index |-> mid]
                ELSE IF list[mid] < a THEN search[<<mid + 1, hi>>] ELSE search[<<lo, mid>>]
    IN  search[<<0, n>>]

(***************************************************************************)
(* The multisig account.                                                   *)
(***************************************************************************)
Space(n) == n * (W + 1)

\* An account with n owners, well typed; a refusal is not one.
Account(n) == [owners_count: {n}, voter_count: Nat, threshold: Nat, transaction_index: Nat,
               stale_transaction_index: Nat, tail: [0..(Space(n) - 1) -> Nat]]
ASSUME ErrAssumption == Err \notin Config /\ \A n \in 1..MAX_OWNER : Err \notin Account(n)

\* Whether Multisig::load accepts the account.
Loads(m) == DOMAIN m.tail = 0..(Space(m.owners_count) - 1)

Owners(m) == [k \in 0..(m.owners_count - 1) |-> AddressAt(m.tail, k * W)]
PermissionAt(m, k) == m.tail[m.owners_count * W + k]
IsOwner(m, a) == BinarySearch(Owners(m), m.owners_count, a)

\* Invalidate the earlier proposals, check the header.
Checked(m) ==
    IF /\ m.owners_count \in 1..MAX_OWNER
       /\ m.voter_count \in 1..m.owners_count
       /\ m.threshold \in 1..m.voter_count
    THEN [m EXCEPT !.stale_transaction_index = m.transaction_index]
    ELSE Err

\* Mutant: the owners are shifted before the permissions are out of the way.
OpenGap_OwnersFirst(tail, count, pos) ==
    LET old == count * W
        new == (count + 1) * W
        t1  == CopyWithin(tail, pos * W, count * W, (pos + 1) * W)
        t2  == CopyWithin(t1, old, old + count, new)
    IN  CopyWithin(t2, new + pos, new + count, new + pos + 1)
\* The copies of add_owner, in their order: the permissions clear of the owner
\* region, the owners apart, the permissions apart.
OpenGap(tail, count, pos) ==
    LET old == count * W
        new == (count + 1) * W
        t1  == CopyWithin(tail, old, old + count, new)
        t2  == CopyWithin(t1, pos * W, count * W, (pos + 1) * W)
    IN  CopyWithin(t2, new + pos, new + count, new + pos + 1)

\* Mutant: the last owner is not moved.
CloseGap_OneShort(tail, count, pos) ==
    LET old == count * W
        new == (count - 1) * W
        t1  == CopyWithin(tail, (pos + 1) * W, (count - 1) * W, pos * W)
        t2  == CopyWithin(t1, old + pos + 1, old + count, old + pos)
    IN  CopyWithin(t2, old, old + count - 1, new)
\* The copies of remove_owner: both gaps closed, then the permissions pulled
\* back.
CloseGap(tail, count, pos) ==
    LET old == count * W
        new == (count - 1) * W
        t1  == CopyWithin(tail, (pos + 1) * W, count * W, pos * W)
        t2  == CopyWithin(t1, old + pos + 1, old + count, old + pos)
    IN  CopyWithin(t2, old, old + count - 1, new)

\* The neighbours are the only ones an insertion can have disturbed.
InOrder(owners, n, pos) ==
    /\ pos > 0 => owners[pos - 1] < owners[pos]
    /\ pos + 1 < n => owners[pos] < owners[pos + 1]

AddOwnerBytes(m, a) ==
    LET count == m.owners_count
        at    == IsOwner(m, a)
        pos   == at.index
        gap   == OpenGap(Resize(m.tail, Space(count + 1)), count, pos)
        tail  == [Write(gap, pos * W, Cells(a)) EXCEPT ![(count + 1) * W + pos] = 0]
        grown == [m EXCEPT !.tail = tail, !.owners_count = count + 1, !.voter_count = @ + 1]
    IN  IF at.found \/ count >= MAX_OWNER \/ ~InOrder(Owners(grown), count + 1, pos)
        THEN Err ELSE Checked(grown)

\* Mutant: the permission is looked up where the next owner's has moved to.
RemoveOwnerBytes_LateLook(m, a) ==
    LET count  == m.owners_count
        at     == IsOwner(m, a)
        pos    == at.index
        tail   == CloseGap(m.tail, count, pos)
        voter  == MaskCanVote(tail[(count - 1) * W + IF pos < count - 1 THEN pos ELSE 0])
        shrunk == [m EXCEPT !.tail = Resize(tail, Space(count - 1)),
                            !.owners_count = count - 1,
                            !.voter_count = IF voter THEN @ - 1 ELSE @]
    IN  IF ~at.found \/ count = 1 THEN Err ELSE Checked(shrunk)
RemoveOwnerBytes(m, a) ==
    LET count  == m.owners_count
        at     == IsOwner(m, a)
        pos    == at.index
        voter  == MaskCanVote(PermissionAt(m, pos))
        shrunk == [m EXCEPT !.tail = Resize(CloseGap(m.tail, count, pos), Space(count - 1)),
                            !.owners_count = count - 1,
                            !.voter_count = IF voter THEN @ - 1 ELSE @]
    IN  IF ~at.found THEN Err ELSE Checked(shrunk)

SetPermissionBytes(m, a, mask) ==
    LET at  == IsOwner(m, a)
        pos == at.index
        was == MaskCanVote(PermissionAt(m, pos))
        is  == MaskCanVote(mask)
    IN  IF mask > ALL \/ ~at.found THEN Err
        ELSE Checked([m EXCEPT !.tail[m.owners_count * W + pos] = mask,
                               !.voter_count = CASE is /\ ~was -> @ + 1
                                                 [] was /\ ~is -> @ - 1
                                                 [] OTHER -> @])

\* The actions that touch the tail, and one of those that only set a field.
ApplyBytes(m, i) ==
    IF ~Loads(m) THEN Err
    ELSE CASE i.tag = "AddOwner"        -> AddOwnerBytes(m, i.address)
           [] i.tag = "RemoveOwner"     -> RemoveOwnerBytes(m, i.address)
           [] i.tag = "SetPermission"   -> SetPermissionBytes(m, i.address, i.value)
           [] i.tag = "ChangeThreshold" -> Checked([m EXCEPT !.threshold = i.value])
           [] OTHER                     -> Err

(***************************************************************************)
(* The proposal account.                                                   *)
(***************************************************************************)
LenFor(n) == (n + BITS - 1) \div BITS

\* Mutant: the cell begun by the last owners is not counted.
Offset_Short(t, kind) ==
    CASE kind = "approved"  -> 0
      [] kind = "rejected"  -> t.owners_count \div BITS
      [] kind = "cancelled" -> 2 * (t.owners_count \div BITS)
\* Where Transaction::load splits the tail; the message follows.
Offset(t, kind) ==
    CASE kind = "approved"  -> 0
      [] kind = "rejected"  -> LenFor(t.owners_count)
      [] kind = "cancelled" -> 2 * LenFor(t.owners_count)

\* bitmap::get: a position past the cells reads as clear.
Get(t, kind, p) ==
    /\ p \div BITS < LenFor(t.owners_count)
    /\ (t.tail[Offset(t, kind) + p \div BITS] \div Power(2)[p % BITS]) % 2 = 1

HasVotedBytes(t, p) == \E kind \in {"approved", "rejected", "cancelled"} : Get(t, kind, p)

\* bitmap::set: refused when the bit is set or past the cells.
Settable(t, kind, p) == p \div BITS < LenFor(t.owners_count) /\ ~Get(t, kind, p)
SetBit(t, kind, p) == [t EXCEPT !.tail[Offset(t, kind) + p \div BITS] = @ + Power(2)[p % BITS]]

Counter(kind) == CASE kind = "approved"  -> "approved_count"
                   [] kind = "rejected"  -> "rejected_count"
                   [] kind = "cancelled" -> "cancelled_count"
Latch(kind)   == CASE kind = "approved"  -> "Approved"
                   [] kind = "rejected"  -> "Rejected"
                   [] kind = "cancelled" -> "Cancelled"

(***************************************************************************)
(* Instructions.                                                           *)
(***************************************************************************)
\* init_multisig and create_transaction, which write the two accounts whole.
NewAccount(g) ==
    LET n == Len(g.owners)
    IN  [owners_count |-> n, voter_count |-> n, threshold |-> g.threshold,
         transaction_index |-> 1, stale_transaction_index |-> 0,
         tail |-> [k \in 0..(Space(n) - 1) |->
                     IF k < n * W THEN Cells(g.owners[(k \div W) + 1])[(k % W) + 1] ELSE 0]]

NewProposal(index, n) ==
    [index |-> index, owners_count |-> n, approved_count |-> 0, rejected_count |-> 0,
     cancelled_count |-> 0, message_len |-> Len(Message), status |-> "Active",
     tail |-> Write(Resize(<<>>, 3 * LenFor(n) + Len(Message)), 3 * LenFor(n), Message)]

Init ==
    \E g \in Genesis :
        /\ account = NewAccount(g)
        /\ proposal = NewProposal(1, Len(g.owners))

Reconfigure(i) ==
    /\ account' = ApplyBytes(account, i)
    /\ account' # Err
    /\ UNCHANGED proposal

\* The next proposal, by an owner who may initiate, sized for the owners there
\* are now.  Bound: it takes the place of one nobody has voted on.
Propose(a) ==
    /\ Loads(account)
    /\ IsOwner(account, a).found
    /\ MaskAllows(PermissionAt(account, IsOwner(account, a).index), INITIATE)
    /\ account.transaction_index < MaxIndex
    /\ \A kind \in {"approved", "rejected"} : proposal[Counter(kind)] = 0
    /\ account' = [account EXCEPT !.transaction_index = @ + 1]
    /\ proposal' = NewProposal(account.transaction_index + 1, account.owners_count)

\* approve, reject and the cancel vote, from the signer's address to the bit.
Vote(kind, a) ==
    LET at   == IsOwner(account, a)
        p    == at.index
        need == IF kind # "rejected" THEN account.threshold
                ELSE 1 + account.voter_count - account.threshold
        done == [SetBit(proposal, kind, p) EXCEPT ![Counter(kind)] = @ + 1]
    IN  /\ Loads(account)
        /\ at.found
        /\ MaskCanVote(PermissionAt(account, p))
        /\ proposal.status = IF kind = "cancelled" THEN "Approved" ELSE "Active"
        /\ proposal.index > account.stale_transaction_index
        /\ proposal.owners_count = account.owners_count
        /\ kind # "cancelled" => ~HasVotedBytes(proposal, p)
        /\ Settable(proposal, kind, p)
        /\ proposal' = IF done[Counter(kind)] >= need
                       THEN [done EXCEPT !.status = Latch(kind)] ELSE done
        /\ UNCHANGED account

Next ==
    \/ \E i \in Actions : Reconfigure(i)
    \/ \E a \in Address : Propose(a)
    \/ \E kind \in {"approved", "rejected", "cancelled"}, a \in Address : Vote(kind, a)

Spec == Init /\ [][Next]_vars

(***************************************************************************)
(* The values the bytes stand for.                                         *)
(***************************************************************************)
ConfigOf(m) ==
    LET owners == Owners(m)
    IN
    [config_authority |-> DEFAULT, rent_collector |-> DEFAULT,
     transaction_index |-> m.transaction_index,
     stale_transaction_index |-> m.stale_transaction_index,
     closed_transaction_count |-> 0, time_lock |-> 0,
     owners |-> Range(owners),
     permissions |-> [a \in Address |->
        IF a \in Range(owners)
        THEN PermissionAt(m, CHOOSE k \in DOMAIN owners : owners[k] = a) ELSE 0],
     voter_count |-> m.voter_count, threshold |-> m.threshold]

Marked(t, kind) == {p \in 0..(BITS * LenFor(t.owners_count) - 1) : Get(t, kind, p)}

VotesOf(t) ==
    [approved |-> Marked(t, "approved"), rejected |-> Marked(t, "rejected"),
     cancelled |-> Marked(t, "cancelled"), status |-> t.status, index |-> t.index,
     message |-> [k \in 1..t.message_len |-> t.tail[3 * LenFor(t.owners_count) + k - 1]]]

Values == INSTANCE Records WITH config <- ConfigOf(account), votes <- VotesOf(proposal)

\* Whatever owners come and go, each keeps its own permission, the list its
\* order, and each vote its bit: every step on the bytes is the step of
\* Records on what they stand for, the message behind the bitmaps included.
ImplementsRecords == Values!Spec

\* The account can always be loaded again, and binary search finds in it
\* exactly the owners, each where its permission is.
SearchFindsOwners ==
    /\ Loads(account)
    /\ LET owners == Range(Owners(account))
       IN  \A a \in Address :
              IsOwner(account, a) = [found |-> a \in owners, index |-> Position(owners, a)]

\* The handlers on bytes refuse an action exactly when the action on values is
\* refused: no order of copies, no neighbour check and no header check turns
\* away a change that is allowed or lets one pass that is not.
SameVerdicts ==
    LET config == ConfigOf(account)
    IN  \A i \in Actions :
            (ApplyBytes(account, i) = Err) = (ApplyConfigAction(config, i) = Err)

\* The counters kept beside the bitmaps are the bits set in them.
CountersMatchBits ==
    \A kind \in {"approved", "rejected", "cancelled"} :
        proposal[Counter(kind)] = Cardinality(Marked(proposal, kind))
=============================================================================
