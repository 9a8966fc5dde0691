------------------------------ MODULE Multisig ------------------------------
(***************************************************************************)
(* The multisig program's accounts and the instructions that change them:  *)
(* the configuration (owners, permissions, threshold), the proposals made  *)
(* against it, the votes on them, and their execution, which may change    *)
(* the configuration the other proposals are being voted under.            *)
(*                                                                         *)
(* The runtime runs one instruction at a time and undoes all of one that   *)
(* fails, so a handler is one action and a refused call is no step.  Only  *)
(* `execute` is cut finer: its loop over the inner instructions works on a *)
(* copy (`frame`) that EndExecute writes back and Abort forgets, so        *)
(* `multisig` and `transaction` always hold what is committed.             *)
(*                                                                         *)
(* Left out here: lamports and rent, account bytes and layout, the binary  *)
(* form of messages and the resolution of lookup tables, chunked upload.   *)
(***************************************************************************)
EXTENDS Accounts

CONSTANTS
    Keys,             \* create keys, each seeding one multisig address
    Genesis,          \* payloads init_multisig is called with
    Messages,         \* compiled messages proposals carry: inner instructions
    Ambiguous,        \* those whose proposal account loads as a multisig too
    AuthorityActions, \* actions a config authority sends to set_config
    MAX_CPI_ACCOUNTS, \* accounts one inner instruction may reference
    MAX_INDEX,        \* where transaction_index overflows (u64::MAX)
    MaxClock,         \* bound on the modelled time
    NoFrame           \* no execute is running

\* An inner instruction: a config action (the instruction targets this
\* program), one whose payload does not decode, or a call to another program.
\* `accounts` is the number of accounts it references.
Instruction == [tag: ConfigTags \cup {"Malformed", "Cpi"},
                address: Address, value: Nat, accounts: Nat]

ASSUME MessagesAssumption == /\ Messages \subseteq Seq(Instruction)
                             /\ Ambiguous \subseteq Messages
                             /\ AuthorityActions \subseteq Instruction
ASSUME GenesisAssumption ==
    Genesis \subseteq [owners: Seq(Address), threshold: Nat,
                       config_authority: Address]
ASSUME LimitAssumption == {MAX_CPI_ACCOUNTS, MAX_INDEX, MaxClock} \subseteq Nat

(***************************************************************************)
(* Stored records.                                                         *)
(***************************************************************************)
\* A proposal account.  The bitmaps are the sets of positions whose bit is set.
Transaction == [multisig: Keys, creator: Address, index: Nat,
                approved_at: Nat, owners_count: Nat,
                approved: SUBSET Nat, rejected: SUBSET Nat,
                cancelled: SUBSET Nat, approved_count: Nat,
                rejected_count: Nat, cancelled_count: Nat,
                status: Status, message: Seq(Instruction)]

Ids == Keys \X Nat    \* seeds of a proposal's address: its multisig, its index

\* The working state of a running execute: the accounts it was given, its
\* uncommitted copy of the multisig account, and the inner instructions left.
Frame == [multisig: Keys, transaction: Ids, executor: Address,
          config: Config, closed: BOOLEAN, rest: Seq(Instruction)]

\* What a reader of the ledger knows of a proposal and the account does not
\* store: the configuration it was made under, who voted, when it latched.
Ballot == [config: Config, approvers: SUBSET Address,
           rejecters: SUBSET Address, cancellers: SUBSET Address,
           latched: Nat]

VARIABLES
    multisig,     \* live multisig accounts, by create key
    transaction,  \* live proposal accounts, by seeds
    frame,        \* the execute in progress, or NoFrame
    clock,        \* the Clock sysvar's unix_timestamp
    created,      \* history: create keys ever used
    ballot,       \* history: the ballot of every live proposal
    misread,      \* history: proposals that were written as a multisig
    miscount      \* history: multisigs that count what they should not, or
                  \* miss a proposal, because of such a mistake

vars == <<multisig, transaction, frame, clock, created, ballot, misread, miscount>>

Put(f, x, y) == [z \in DOMAIN f \cup {x} |-> IF z = x THEN y ELSE f[z]]
Without(f, x) == Restrict(f, DOMAIN f \ {x})

(***************************************************************************)
(* Voting.                                                                 *)
(***************************************************************************)
\* Mutant: relies on the owner count alone to notice a changed owner set.
CheckVotable_CountOnly(t, m, c, expected) ==
    t.multisig = m /\ t.status = expected /\ t.owners_count = OwnersCount(c)

\* Mutant: any multisig account will do.
CheckVotable_AnyMultisig(t, m, c, expected) ==
    /\ t.status = expected
    /\ t.index > c.stale_transaction_index
    /\ t.owners_count = OwnersCount(c)
CheckVotable(t, m, c, expected) ==
    /\ t.multisig = m
    /\ t.status = expected
    /\ t.index > c.stale_transaction_index
    /\ t.owners_count = OwnersCount(c)

\* Mutant: does not stamp when the time lock starts.
LatchApproved_NoStamp(t) == [t EXCEPT !.status = "Approved"]
LatchApproved(t) == [t EXCEPT !.status = "Approved", !.approved_at = clock]

\* The proposal as each vote handler leaves it.
Approved(t, c, p) ==
    LET u == [t EXCEPT !.approved = @ \cup {p}, !.approved_count = @ + 1]
    IN  IF u.approved_count >= c.threshold THEN LatchApproved(u) ELSE u

Rejected(t, c, p) ==
    LET u == [t EXCEPT !.rejected = @ \cup {p}, !.rejected_count = @ + 1]
    IN  IF u.rejected_count >= Cutoff(c) THEN [u EXCEPT !.status = "Rejected"] ELSE u

CancelVoted(t, c, p) ==
    LET u == [t EXCEPT !.cancelled = @ \cup {p}, !.cancelled_count = @ + 1]
    IN  IF u.cancelled_count >= c.threshold THEN [u EXCEPT !.status = "Cancelled"] ELSE u

(***************************************************************************)
(* Instructions.  Parameters are the signer and the accounts passed in.    *)
(*                                                                         *)
(* An account says nowhere which kind it is: check_owner asks only whether *)
(* the program owns it, and the handler reads its bytes as the kind it     *)
(* expects.  The first actions are the handlers given the kind they        *)
(* expect, an account in the domain of the variable of that kind; the last *)
(* ones are set_config and close_transaction given another kind.           *)
(***************************************************************************)
Init ==
    /\ multisig = <<>>
    /\ transaction = <<>>
    /\ frame = NoFrame
    /\ clock = 0
    /\ created = {}
    /\ ballot = <<>>
    /\ misread = {}
    /\ miscount = {}

\* init_multisig: owners must be strictly ascending; everybody starts with
\* every permission.
NewConfig(g) ==
    [config_authority |-> g.config_authority, rent_collector |-> DEFAULT,
     transaction_index |-> 0, stale_transaction_index |-> 0,
     closed_transaction_count |-> 0, time_lock |-> 0,
     owners |-> Range(g.owners), permissions |-> [a \in Address |-> 0],
     voter_count |-> Len(g.owners), threshold |-> g.threshold]

InitMultisig(m, g) ==
    /\ frame = NoFrame
    /\ m \notin DOMAIN multisig
    /\ Len(g.owners) \in 1..MAX_OWNER
    /\ \A i \in 2..Len(g.owners) : g.owners[i - 1] < g.owners[i]
    /\ MultisigInvariant(NewConfig(g))
    /\ multisig' = Put(multisig, m, NewConfig(g))
    /\ created' = created \cup {m}
    /\ UNCHANGED <<transaction, frame, clock, ballot, misread, miscount>>

\* A create key is "ephemeral": a keypair made for one multisig and used once.
InitFresh(m, g) == m \notin created /\ InitMultisig(m, g)

\* create_transaction: reserve the next index, create the account it seeds.
NewTransaction(m, c, o, message) ==
    [multisig |-> m, creator |-> o, index |-> c.transaction_index + 1,
     approved_at |-> 0, owners_count |-> OwnersCount(c),
     approved |-> {}, rejected |-> {}, cancelled |-> {},
     approved_count |-> 0, rejected_count |-> 0, cancelled_count |-> 0,
     status |-> "Active", message |-> message]

NewBallot(c) ==
    [config |-> c, approvers |-> {}, rejecters |-> {}, cancellers |-> {},
     latched |-> 0]

\* Mutant: does not look whether the address is in use.
CreateTransaction_Overwrites(m, o, message) ==
    /\ frame = NoFrame
    /\ m \in DOMAIN multisig
    /\ HasPermission(multisig[m], o, INITIATE)
    /\ multisig[m].transaction_index < MAX_INDEX
    /\ LET c  == multisig[m]
           id == <<m, c.transaction_index + 1>>
       IN  /\ transaction' = Put(transaction, id, NewTransaction(m, c, o, message))
           /\ multisig' = [multisig EXCEPT ![m].transaction_index = @ + 1]
           /\ ballot' = Put(ballot, id, NewBallot(c))
    /\ UNCHANGED <<frame, clock, created, misread, miscount>>
CreateTransaction(m, o, message) ==
    /\ frame = NoFrame
    /\ m \in DOMAIN multisig
    /\ HasPermission(multisig[m], o, INITIATE)
    /\ multisig[m].transaction_index < MAX_INDEX
    /\ LET c  == multisig[m]
           id == <<m, c.transaction_index + 1>>
       IN  /\ id \notin DOMAIN transaction
           /\ TransactionInvariant(NewTransaction(m, c, o, message))
           /\ transaction' = Put(transaction, id, NewTransaction(m, c, o, message))
           /\ multisig' = [multisig EXCEPT ![m].transaction_index = @ + 1]
           /\ ballot' = Put(ballot, id, NewBallot(c))
    /\ UNCHANGED <<frame, clock, created, misread, miscount>>

\* What every vote asks of the accounts it is given (vote::prepare and
\* vote::check_votable).
Prepared(m, id, o, expected) ==
    /\ frame = NoFrame
    /\ m \in DOMAIN multisig
    /\ id \in DOMAIN transaction
    /\ o \in multisig[m].owners
    /\ CheckVotable(transaction[id], m, multisig[m], expected)

Approve(m, id, o) ==
    LET c == multisig[m]
        t == transaction[id]
        p == Position(c.owners, o)
    IN  /\ Prepared(m, id, o, "Active")
        /\ MaskCanVote(c.permissions[o])
        /\ ~HasVoted(t, p)
        /\ BitmapSet(t.approved, t.owners_count, p)
        /\ TransactionInvariant(Approved(t, c, p))
        /\ transaction' = [transaction EXCEPT ![id] = Approved(t, c, p)]
        /\ ballot' = [ballot EXCEPT
              ![id].approvers = @ \cup {o},
              ![id].latched = IF Approved(t, c, p).status = "Approved" THEN clock ELSE @]
        /\ UNCHANGED <<multisig, frame, clock, created, misread, miscount>>

Reject(m, id, o) ==
    LET c == multisig[m]
        t == transaction[id]
        p == Position(c.owners, o)
    IN  /\ Prepared(m, id, o, "Active")
        /\ MaskCanVote(c.permissions[o])
        /\ ~HasVoted(t, p)
        /\ BitmapSet(t.rejected, t.owners_count, p)
        /\ TransactionInvariant(Rejected(t, c, p))
        /\ transaction' = [transaction EXCEPT ![id] = Rejected(t, c, p)]
        /\ ballot' = [ballot EXCEPT ![id].rejecters = @ \cup {o}]
        /\ UNCHANGED <<multisig, frame, clock, created, misread, miscount>>

\* cancel, on a proposal still Active: its creator withdraws it.
CancelActive(m, id, o) ==
    /\ Prepared(m, id, o, "Active")
    /\ transaction[id].creator = o
    /\ TransactionInvariant(transaction[id])
    /\ transaction' = [transaction EXCEPT ![id].status = "Cancelled"]
    /\ UNCHANGED <<multisig, frame, clock, created, ballot, misread, miscount>>

\* cancel, on an Approved one: a vote, which may undo the voter's approval.
CancelApproved(m, id, o) ==
    LET c == multisig[m]
        t == transaction[id]
        p == Position(c.owners, o)
    IN  /\ Prepared(m, id, o, "Approved")
        /\ MaskCanVote(c.permissions[o])
        /\ BitmapSet(t.cancelled, t.owners_count, p)
        /\ TransactionInvariant(CancelVoted(t, c, p))
        /\ transaction' = [transaction EXCEPT ![id] = CancelVoted(t, c, p)]
        /\ ballot' = [ballot EXCEPT ![id].cancellers = @ \cup {o}]
        /\ UNCHANGED <<multisig, frame, clock, created, misread, miscount>>

\* The time lock read is the one in force now, not when the proposal latched.
TimeLockReleased(c, t) == c.time_lock > 0 => clock - t.approved_at >= c.time_lock

\* execute, up to its loop.  Staleness is deliberately not asked about.
BeginExecute(m, id, o) ==
    /\ frame = NoFrame
    /\ m \in DOMAIN multisig
    /\ id \in DOMAIN transaction
    /\ HasPermission(multisig[m], o, EXECUTE)
    /\ transaction[id].multisig = m
    /\ transaction[id].status = "Approved"
    /\ TimeLockReleased(multisig[m], transaction[id])
    /\ TransactionInvariant(transaction[id])
    /\ frame' = [multisig |-> m, transaction |-> id, executor |-> o,
                 config |-> multisig[m], closed |-> FALSE,
                 rest |-> transaction[id].message]
    /\ UNCHANGED <<multisig, transaction, clock, created, ballot, misread, miscount>>

\* The inner instruction execute's loop is at.
AtInstruction == frame # NoFrame /\ frame.rest # <<>>
Within(i) == i.accounts <= MAX_CPI_ACCOUNTS

\* An account already closed in this frame no longer loads.
ConfigStep ==
    /\ AtInstruction
    /\ LET i == Head(frame.rest)
           r == ApplyConfigAction(frame.config, i)
       IN  /\ Within(i)
           /\ ~frame.closed
           /\ r # Err
           /\ frame' = [frame EXCEPT !.config = r, !.rest = Tail(@)]
    /\ UNCHANGED <<multisig, transaction, clock, created, ballot, misread, miscount>>

CloseStep ==
    /\ AtInstruction
    /\ LET i == Head(frame.rest)
       IN  /\ Within(i)
           /\ i.tag = "CloseMultisig"
           /\ ~frame.closed
           /\ CloseAllowed(frame.config, frame.executor, TRUE)
           /\ frame' = [frame EXCEPT !.closed = TRUE, !.rest = Tail(@)]
    /\ UNCHANGED <<multisig, transaction, clock, created, ballot, misread, miscount>>

\* A call to another program, signed by the vault; it cannot write accounts of
\* this program, and the runtime does not let it call back.
CpiStep ==
    /\ AtInstruction
    /\ LET i == Head(frame.rest)
       IN  /\ Within(i)
           /\ i.tag = "Cpi"
           /\ frame' = [frame EXCEPT !.rest = Tail(@)]
    /\ UNCHANGED <<multisig, transaction, clock, created, ballot, misread, miscount>>

EndExecute ==
    /\ frame # NoFrame
    /\ frame.rest = <<>>
    /\ multisig' = IF frame.closed THEN Without(multisig, frame.multisig)
                   ELSE [multisig EXCEPT ![frame.multisig] = frame.config]
    /\ transaction' = [transaction EXCEPT ![frame.transaction].status = "Executed"]
    /\ frame' = NoFrame
    /\ UNCHANGED <<clock, created, ballot, misread, miscount>>

\* The inner instruction fails: it is refused here, the called program fails,
\* or the runtime does not let the rent of a resized owner set be moved.  All
\* is undone.
Refused(i) ==
    \/ ~Within(i)
    \/ i.tag \in {"Cpi", "AddOwner", "RemoveOwner"}
    \/ i.tag = "CloseMultisig" /\ ~CloseAllowed(frame.config, frame.executor, TRUE)
    \/ i.tag \notin {"Cpi", "CloseMultisig"} /\ ApplyConfigAction(frame.config, i) = Err
    \/ i.tag # "Cpi" /\ frame.closed

Abort ==
    /\ AtInstruction
    /\ Refused(Head(frame.rest))
    /\ frame' = NoFrame
    /\ UNCHANGED <<multisig, transaction, clock, created, ballot, misread, miscount>>

\* close_transaction: anybody may, since stored state fixes the destination.
RentDestination(c, t) ==
    IF c.rent_collector = DEFAULT THEN t.creator ELSE c.rent_collector

\* Mutant: only the proposal's account is looked at and changed.
CloseTransaction_Uncounted(m, id, destination) ==
    /\ frame = NoFrame
    /\ m \in DOMAIN multisig
    /\ id \in DOMAIN transaction
    /\ transaction[id].multisig = m
    /\ destination = RentDestination(multisig[m], transaction[id])
    /\ transaction[id].status \in Terminal
    /\ transaction' = Without(transaction, id)
    /\ ballot' = Without(ballot, id)
    /\ UNCHANGED <<multisig, frame, clock, created, misread, miscount>>

\* Mutant: closes a proposal in any status.
CloseTransaction_Unfinished(m, id, destination) ==
    /\ frame = NoFrame
    /\ m \in DOMAIN multisig
    /\ id \in DOMAIN transaction
    /\ MultisigInvariant([multisig[m] EXCEPT !.closed_transaction_count = @ + 1])
    /\ transaction[id].multisig = m
    /\ destination = RentDestination(multisig[m], transaction[id])
    /\ multisig' = [multisig EXCEPT ![m].closed_transaction_count = @ + 1]
    /\ transaction' = Without(transaction, id)
    /\ ballot' = Without(ballot, id)
    /\ UNCHANGED <<frame, clock, created, misread, miscount>>
CloseTransaction(m, id, destination) ==
    /\ frame = NoFrame
    /\ m \in DOMAIN multisig
    /\ id \in DOMAIN transaction
    /\ MultisigInvariant([multisig[m] EXCEPT !.closed_transaction_count = @ + 1])
    /\ transaction[id].multisig = m
    /\ destination = RentDestination(multisig[m], transaction[id])
    /\ transaction[id].status \in Terminal
    /\ multisig' = [multisig EXCEPT ![m].closed_transaction_count = @ + 1]
    /\ transaction' = Without(transaction, id)
    /\ ballot' = Without(ballot, id)
    /\ UNCHANGED <<frame, clock, created, misread, miscount>>

\* Mutant: the default address is an authority like any other.
Authorized_Default(m, a) ==
    /\ frame = NoFrame
    /\ m \in DOMAIN multisig
    /\ multisig[m].config_authority = a
\* set_config: the same actions on the config authority's signature.
Authorized(m, a) ==
    /\ frame = NoFrame
    /\ m \in DOMAIN multisig
    /\ multisig[m].config_authority # DEFAULT
    /\ multisig[m].config_authority = a

SetConfig(m, a, i) ==
    /\ Authorized(m, a)
    /\ ApplyConfigAction(multisig[m], i) # Err
    /\ multisig' = [multisig EXCEPT ![m] = ApplyConfigAction(multisig[m], i)]
    /\ UNCHANGED <<transaction, frame, clock, created, ballot, misread, miscount>>

SetConfigClose(m, a, i) ==
    /\ Authorized(m, a)
    /\ i.tag = "CloseMultisig"
    /\ CloseAllowed(multisig[m], a, FALSE)
    /\ multisig' = Without(multisig, m)
    /\ UNCHANGED <<transaction, frame, clock, created, ballot, misread, miscount>>

\* set_config given a proposal for a multisig.  Its creator is where the
\* config authority is read; the rent collector lies over index, approved_at,
\* owners_count and the three counts; what follows the header lies over the
\* message, and over the bitmaps of more than 16 owners.  The action's own
\* field is written, and the result has to load as a multisig still.  Results
\* that no longer load as a proposal are left out: no vote reads them.
Tallies(t) ==
    [index: 0..MAX_INDEX, approved_at: 0..MaxClock,
     owners_count: {n \in 0..MAX_OWNER : (n + 7) \div 8 = (t.owners_count + 7) \div 8},
     approved_count: 0..MAX_OWNER, rejected_count: 0..MAX_OWNER,
     cancelled_count: 0..MAX_OWNER]

Tails(t) ==
    LET Bitmap(bits) == IF t.owners_count > 16 THEN SUBSET (0..MAX_OWNER - 1) ELSE {bits}
    IN  [message: Ambiguous, approved: Bitmap(t.approved),
         rejected: Bitmap(t.rejected), cancelled: Bitmap(t.cancelled)]

Tallied(t, h) ==
    [t EXCEPT !.index = h.index, !.approved_at = h.approved_at,
              !.owners_count = h.owners_count, !.approved_count = h.approved_count,
              !.rejected_count = h.rejected_count, !.cancelled_count = h.cancelled_count]

Tailed(t, r) ==
    [t EXCEPT !.message = r.message, !.approved = r.approved,
              !.rejected = r.rejected, !.cancelled = r.cancelled]

Rewritten(t, i) ==
    CASE i.tag = "SetConfigAuthority" -> {[t EXCEPT !.creator = i.address]}
      [] i.tag = "SetRentCollector"   -> {Tallied(t, h) : h \in Tallies(t)}
      [] i.tag \in {"AddOwner", "RemoveOwner", "SetPermission",
                    "ChangeThreshold", "ChangeTimeLock"} -> {Tailed(t, r) : r \in Tails(t)}
      [] OTHER -> {}

Misread(id, a) ==
    /\ frame = NoFrame
    /\ id \in DOMAIN transaction
    /\ transaction[id].message \in Ambiguous
    /\ transaction[id].creator # DEFAULT
    /\ transaction[id].creator = a

SetConfigOnTransaction(id, a, i) ==
    /\ Misread(id, a)
    /\ \E t \in Rewritten(transaction[id], i) : transaction' = [transaction EXCEPT ![id] = t]
    /\ misread' = misread \cup {id}
    /\ UNCHANGED <<multisig, frame, clock, created, ballot, miscount>>

\* close_multisig asks for equal counts, read from the bitmaps and the message
\* on one side and from length, status and bumps on the other, and for the
\* rent collector as destination: some proposals have these, after a write as
\* above if need be.  The account goes, and the closure is counted nowhere.
SetConfigCloseOnTransaction(id, a, i) ==
    /\ Misread(id, a)
    /\ i.tag = "CloseMultisig"
    /\ transaction' = Without(transaction, id)
    /\ ballot' = Without(ballot, id)
    /\ misread' = misread \cup {id}
    /\ miscount' = miscount \cup {transaction[id].multisig}
    /\ UNCHANGED <<multisig, frame, clock, created>>

\* close_transaction given a buffer for a proposal; Buffer says which buffers
\* are taken for one.
CloseOther(m) ==
    /\ frame = NoFrame
    /\ m \in DOMAIN multisig
    /\ MultisigInvariant([multisig[m] EXCEPT !.closed_transaction_count = @ + 1])
    /\ multisig' = [multisig EXCEPT ![m].closed_transaction_count = @ + 1]
    /\ miscount' = miscount \cup {m}
    /\ UNCHANGED <<transaction, frame, clock, created, ballot, misread>>

Tick ==
    /\ frame = NoFrame
    /\ clock < MaxClock
    /\ clock' = clock + 1
    /\ UNCHANGED <<multisig, transaction, frame, created, ballot, misread, miscount>>

\* Everything but creating a multisig and closing a buffer as a proposal.
Step ==
    \/ \E m \in Keys, o \in Address, message \in Messages :
          CreateTransaction(m, o, message)
    \/ \E m \in Keys, id \in DOMAIN transaction, o \in Address :
          \/ Approve(m, id, o)
          \/ Reject(m, id, o)
          \/ CancelActive(m, id, o)
          \/ CancelApproved(m, id, o)
          \/ BeginExecute(m, id, o)
          \/ CloseTransaction(m, id, o)
    \/ \E m \in Keys, a \in Address, i \in AuthorityActions :
          \/ SetConfig(m, a, i)
          \/ SetConfigClose(m, a, i)
    \/ \E id \in DOMAIN transaction, a \in Address, i \in AuthorityActions :
          \/ SetConfigOnTransaction(id, a, i)
          \/ SetConfigCloseOnTransaction(id, a, i)
    \/ ConfigStep
    \/ CloseStep
    \/ CpiStep
    \/ EndExecute
    \/ Abort
    \/ Tick

Next ==
    \/ Step
    \/ \E m \in Keys : CloseOther(m)
    \/ \E m \in Keys, g \in Genesis : InitFresh(m, g)
Spec == Init /\ [][Next]_vars

\* The same program when a create key signs a second time.
ReuseNext ==
    \/ Step
    \/ \E m \in Keys : CloseOther(m)
    \/ \E m \in Keys, g \in Genesis : InitMultisig(m, g)
ReuseSpec == Init /\ [][ReuseNext]_vars

(***************************************************************************)
(* Safety.  What is said of a proposal is said of those that were never    *)
(* written as a multisig, whatever was done to the others; what is said of *)
(* a multisig's count of closures, of those never given another account to *)
(* close.  Claims shows that neither can be left out.                      *)
(***************************************************************************)
Genuine == DOMAIN transaction \ misread

\* The stored accounts, the running execute and the history are well formed.
TypeOK ==
    /\ DOMAIN multisig \subseteq Keys
    /\ \A m \in DOMAIN multisig : multisig[m] \in Config
    /\ DOMAIN transaction \subseteq Ids
    /\ \A id \in DOMAIN transaction : transaction[id] \in Transaction
    /\ frame \in Frame \cup {NoFrame}
    /\ clock \in Nat
    /\ created \subseteq Keys
    /\ DOMAIN ballot = DOMAIN transaction
    /\ \A id \in DOMAIN ballot : ballot[id] \in Ballot
    /\ misread \subseteq Ids
    /\ miscount \subseteq Keys

\* voter_count, which config actions maintain by adding and subtracting and
\* never recount, is the number of owners who may vote, and the threshold is
\* within it.
CountsVoters(c) ==
    /\ c.voter_count = Cardinality(Voters(c))
    /\ c.threshold \in 1..Cardinality(Voters(c))

\* Whatever sequence of config actions has run, also half way through an
\* execute, the threshold can be reached by the owners who may vote.
VoterCountExact ==
    /\ \A m \in DOMAIN multisig : CountsVoters(multisig[m])
    /\ frame # NoFrame => CountsVoters(frame.config)

SameRules(c, d) ==
    /\ c.owners = d.owners
    /\ c.permissions = d.permissions
    /\ c.threshold = d.threshold
    /\ c.voter_count = d.voter_count

\* A proposal that can still be voted on was made under the rules in force:
\* every change of owners, permissions or threshold makes it stale, so a
\* position in its bitmaps names one person throughout.
VotableUnderItsRules ==
    \A id \in Genuine :
        LET t == transaction[id]
        IN  t.multisig \in DOMAIN multisig =>
                LET c == multisig[t.multisig]
                IN  t.index > c.stale_transaction_index => SameRules(c, ballot[id].config)

Bits(b, people) == {Position(b.config.owners, a) : a \in people}

\* The bits and counters of a proposal are exactly the votes cast on it, read
\* against the owner set it was made under, however the set changed since;
\* nobody both approved and rejected, and only voters did either.
VotesNameTheirVoters ==
    \A id \in Genuine :
        LET t == transaction[id]
            b == ballot[id]
        IN  /\ t.approved = Bits(b, b.approvers)
            /\ t.rejected = Bits(b, b.rejecters)
            /\ t.cancelled = Bits(b, b.cancellers)
            /\ t.approved_count = Cardinality(b.approvers)
            /\ t.rejected_count = Cardinality(b.rejecters)
            /\ t.cancelled_count = Cardinality(b.cancellers)
            /\ b.approvers \cap b.rejecters = {}
            /\ b.approvers \cup b.rejecters \cup b.cancellers \subseteq Voters(b.config)

\* "Votes cast under one rule cannot settle under another": an outcome is the
\* one the rules at the proposal's creation give for the people who voted.
SettledByItsOwnRules ==
    \A id \in Genuine :
        LET b == ballot[id]
            yes  == Cardinality(b.approvers)
            undo == Cardinality(b.cancellers)
            need == b.config.threshold
        IN  CASE transaction[id].status = "Active" -> yes < need /\ undo = 0
              [] transaction[id].status \in {"Approved", "Executed"} ->
                    yes >= need /\ undo < need
              [] transaction[id].status = "Rejected" ->
                    Cardinality(Voters(b.config) \ b.rejecters) < need
              [] transaction[id].status = "Cancelled" ->
                    IF yes >= need THEN undo >= need ELSE undo = 0

\* While a current proposal is Active there are voters left who can approve
\* it: the cutoff latches it the moment that stops being so.
NoDeadBallot ==
    \A id \in Genuine :
        LET t == transaction[id]
        IN  /\ t.status = "Active"
            /\ t.multisig \in DOMAIN multisig
            /\ t.index > multisig[t.multisig].stale_transaction_index
            => LET c    == multisig[t.multisig]
                   left == {v \in Voters(c) : ~HasVoted(t, Position(c.owners, v))}
               IN  t.approved_count < c.threshold
                   /\ t.approved_count + Cardinality(left) >= c.threshold

Open(m) == {id \in DOMAIN transaction : transaction[id].multisig = m}

\* closed_transaction_count, the only thing close_multisig looks at, is right:
\* the proposals still open are exactly the ones made and not closed.
ClosedCountExact ==
    \A m \in DOMAIN multisig \ miscount :
        multisig[m].closed_transaction_count + Cardinality(Open(m))
            = multisig[m].transaction_index

\* A closed multisig leaves no proposal behind but the executed one that
\* carried the close.
CloseStrandsNothing ==
    \A m \in created \ (DOMAIN multisig \cup miscount) :
        /\ Cardinality(Open(m)) <= 1
        /\ \A id \in Open(m) : transaction[id].status = "Executed"

(***************************************************************************)
(* Action properties: what a step may never do.                            *)
(***************************************************************************)
RunsNow(id) ==
    /\ id \in DOMAIN transaction /\ id \in DOMAIN transaction'
    /\ transaction[id].status = "Approved"
    /\ transaction'[id].status = "Executed"

\* The configuration, proposal and closure counters aside.
Rules(c) == [c EXCEPT !.transaction_index = 0, !.closed_transaction_count = 0]

Reconfigured(m) ==
    /\ m \in DOMAIN multisig
    /\ m \in DOMAIN multisig' => Rules(multisig'[m]) # Rules(multisig[m])

\* Nothing changes or closes an autonomous multisig but the execution of a
\* proposal of its own that a quorum of its voters approved, unless that
\* proposal was written as a multisig.
AutonomousNeedsAVote ==
    [][\A m \in Keys :
          Reconfigured(m) /\ multisig[m].config_authority = DEFAULT =>
              \E id \in DOMAIN transaction :
                  /\ RunsNow(id)
                  /\ transaction[id].multisig = m
                  /\ id \in Genuine =>
                        Cardinality(ballot[id].approvers) >= ballot[id].config.threshold]_vars

\* No proposal runs before the time lock in force has passed since the vote
\* that latched it.
TimeLockRespected ==
    [][\A id \in Genuine :
          RunsNow(id) =>
              clock - ballot[id].latched >= multisig[transaction[id].multisig].time_lock]_vars

\* A proposal that goes stale while Active is never touched again, by anybody,
\* as long as it is taken for a proposal: it cannot be voted on, withdrawn or
\* closed, and while it stands a multisig that counts right is not closed.
StaleActiveFrozen ==
    [][\A id \in Genuine :
          LET t == transaction[id]
          IN  /\ t.status = "Active"
              /\ t.multisig \in DOMAIN multisig
              /\ t.index <= multisig[t.multisig].stale_transaction_index
              => /\ id \notin misread' => id \in DOMAIN transaction' /\ transaction'[id] = t
                 /\ t.multisig \in DOMAIN multisig' \cup miscount]_vars

(***************************************************************************)
(* What is promised of a proposal, and that the program keeps it.          *)
(***************************************************************************)
\* A proposal as a poll: its electorate and quorum are those it was made
\* under, its votes those of the people who cast them.
Polls ==
    [id \in Genuine |->
        [voters  |-> Voters(ballot[id].config),
         quorum  |-> ballot[id].config.threshold,
         yes     |-> ballot[id].approvers,
         no      |-> ballot[id].rejecters,
         undo    |-> ballot[id].cancellers,
         outcome |-> transaction[id].status]]

Promise == INSTANCE Election
    WITH Proposal <- Keys \X (1..MAX_INDEX), Voter <- Address,
         poll <- Polls, spoilt <- misread

\* Every step of the program is a step of the polls or leaves them alone: the
\* handlers, which read positions, counters and the configuration of the
\* moment, give each proposal the votes, the outcome and the single run that
\* people and rules at its creation would give it, until the day its account
\* is written as a multisig.
ImplementsElection == Promise!Spec

(***************************************************************************)
(* Liveness.  The runtime runs a started execute to its end; and, for the  *)
(* ballots, every owner who may vote keeps sending a vote until it is      *)
(* taken (strong fairness, because the steps of an execute are in between).*)
(***************************************************************************)
Execution == ConfigStep \/ CloseStep \/ CpiStep \/ EndExecute \/ Abort

Vote(id, o) == \E m \in Keys : Approve(m, id, o) \/ Reject(m, id, o)

Fairness == /\ WF_vars(Execution)
            /\ \A id \in Keys \X (1..MAX_INDEX), o \in Address : SF_vars(Vote(id, o))
FairSpec == Spec /\ Fairness

Votable(id) ==
    /\ id \in DOMAIN transaction
    /\ transaction[id].status = "Active"
    /\ transaction[id].multisig \in DOMAIN multisig
    /\ transaction[id].index > multisig[transaction[id].multisig].stale_transaction_index

\* "Latches to Rejected rather than sitting Active forever": if every voter
\* votes, one way or the other, a proposal is settled, or made stale by a
\* change of the configuration, or written as a multisig.
BallotSettles ==
    \A id \in Keys \X (1..MAX_INDEX) : Votable(id) ~> ~Votable(id) \/ id \in misread
=============================================================================
