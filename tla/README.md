# A TLA+ model of the multisig program

This directory models the on-chain program of the repository: a multisig
account with its owners, the proposals made against it, the votes on them, and
their execution, which may change the very configuration other proposals are
being voted under. TLC checks small instances, TLAPS proves the
invariants, action properties and refinements for every instance.

| file | what it is |
|---|---|
| `Accounts.tla` | the values of the two main accounts and the methods on them: permissions, cutoff, config actions, header checks |
| `Multisig.tla` | the program: instructions over live accounts, properties |
| `Election.tla` | what a proposal promises its voters; `Multisig` implements it |
| `Buffer.tla` | chunked upload, composed with `Multisig` |
| `Storage.tla`, `Records.tla` | one multisig and one proposal as bytes, and as the values those bytes implement |
| `CompiledMessage.tla` | the message: client encoding, parsing, account checks, calls |
| `Claims.tla` | sentences of the repository's texts that the program does not keep |
| `MCMultisig.tla`, `MCBuffer.tla`, `MCStorage.tla`, `MCMessage.tla`, `*.cfg` | the instances TLC runs |
| `MultisigProofs.tla`, `BallotProofs.tla`, `LifecycleProofs.tla` | theorems about `Multisig`, with proofs: types and rules; votes and outcomes; closing, authority and time lock |
| `ElectionProofs.tla` | `Multisig` implements `Election`, proved |
| `BufferProofs.tla` | theorems about `Buffer`, with proofs |
| `StorageProofs.tla` | theorems about `Storage`, with proofs, the refinement of `Records` included |
| `MessageProofs.tla` | theorems about `CompiledMessage`, with proofs |
| `AccountsProofs.tla` | facts about positions and ascending lists that the others share |
| `PROJECT.json` | components, runs, mutants, source map, findings, hazards, theorems |

`Accounts` has no variables and is extended by `Multisig`, `Records` and
`Storage`; `Buffer` extends `Multisig`; `CompiledMessage` stands alone.

## Inventory

| component | source | state | operations |
|---|---|---|---|
| Multisig account | `state/multisig.rs`, `state/permission.rs` | owners ascending, a permission byte each, voter count, threshold, time lock, proposal, staleness and closure counters, authority, rent collector | `cutoff`, `has_permission`, `invalidate_prior_transactions`, `invariant` |
| Creation | `instruction/init_multisig.rs` | | writes a fresh header |
| Proposal account | `state/transaction.rs`, `state/bitmap.rs` | status, three vote bitmaps with counters, owner-count snapshot, latch time, message | `has_voted`, `invariant` |
| Proposal creation | `instruction/create_transaction.rs` | | reserves the next index, creates the account |
| Voting | `instruction/vote.rs`, `approve.rs`, `reject.rs`, `cancel.rs` | | set a bit, count, latch |
| Execution | `instruction/execute.rs` | | marks Executed, runs the inner instructions |
| Config actions | `instruction/config_action.rs` | | eight changes of the multisig account, closing included |
| Config authority | `instruction/set_config.rs` | | the same actions without a vote |
| Closing proposals | `instruction/close_transaction.rs` | | counts the closure, frees the account |
| Owner tail | `state/multisig.rs`, `config_action.rs` | raw bytes of owners and permissions | shifts and resizes |
| Compiled message | `state/message.rs` | | parse, privilege boundaries |
| Lookup tables | `execute.rs` | external tables, which only grow and are then retired | resolve and compare |
| Message buffer | `state/buffer.rs`, `instruction/buffer.rs`, `create_from_buffer.rs` | partial message, committed length and hash | create, extend, close, convert |
| Rent | several handlers | lamports | fund, refund |
| Client | `client.rs` | none | encodes messages, lists accounts for `execute`, builds instructions |
| Dispatch, errors, helpers | `entrypoint.rs`, `error.rs`, `helper.rs` | none | stateless |

How they interact. All state is in accounts; instructions share nothing else.
Votes read the multisig account (position of the voter, threshold, cutoff,
staleness marker) and write the proposal. Execution writes the proposal and,
through config actions applied in place, the multisig. Config actions move the
staleness marker over every earlier proposal. Closing a proposal writes the
closure counter that closing the multisig relies on. A buffer becomes a proposal
through the same function as a direct one, long after its creator's right to
propose was first tested. A message is written by the client, read when it is
proposed and read again when it runs, against lookup tables that belong to
another program and change meanwhile. Any caller chooses which accounts an
instruction is given, and no account says which kind it is: `check_owner`
(`helper.rs`) compares the owning program, the rest is what the bytes read as.

What is hard to get right here:

* a vote is a *position*, so it must never be read against another owner set;
* configuration changes and votes interleave freely, on several proposals;
* counters (`voter_count`, `closed_transaction_count`) are kept by increments
  and never recounted, and later decisions trust them;
* one execute runs several inner instructions, may change or close the account
  it runs under, and may fail half way;
* approval, time lock and cancellation are decided at three different times;
* the cutoff arithmetic decides whether a ballot can get stuck;
* owners and permissions share one run of bytes, shifted by overlapping copies;
* an account's privilege is its position, counted separately by the client, the
  parser and the loop that compares accounts;
* an account may be handed over as another kind than it is, and load.

What correctness means for each part: the voter count is exact and the threshold
reachable; votes name their voters and outcomes are those of the rules at
creation; a ballot cannot be undecidable and open; statuses follow the
documented transitions; the time lock holds; only a quorum changes an
autonomous multisig; closing leaves no unfinished proposal behind; the bytes
stand for the values; what is uploaded, approved and run is one and the same
content. The list in
`PROJECT.json` under `hazards` names the lines.

## The model

### State

| variable | in the program |
|---|---|
| `multisig` | the live multisig accounts, by create key (`["multisig", create_key]`) |
| `transaction` | the live proposal accounts, by seeds (multisig, index) |
| `frame` | the locals of a running `process_execute` and its uncommitted copy of the multisig account |
| `clock` | `unix_timestamp` of the Clock sysvar |
| `created`, `ballot` | history: keys ever used; for each proposal the configuration at its creation, who voted, when it latched |
| `misread` | history: proposals that `set_config` wrote as a multisig |
| `miscount` | history: multisigs whose closure count has missed a proposal or counted another kind of account |

The history variables are only written by the actions and read by properties
(and by `InitFresh`, below); no handler's guard depends on them.

Abstractions. The ascending owner list is a set: `Position` recovers the index
`binary_search` returns. Bitmaps are sets of positions, with the capacity of
the bytes behind them. A message is the sequence of its inner instructions, of
which only the target, the decoded action and the number of referenced accounts
matter. Addresses are numbers so that they are ordered; 0 is the default
address. Signer checks appear as the ranges of the parameters.

### Steps of the program

The runtime runs one instruction at a time on the accounts it touches and
undoes all of it when it fails. So every handler is one action (`InitMultisig`,
`CreateTransaction`, `Approve`, `Reject`, `CancelActive`, `CancelApproved`,
`CloseTransaction`, `SetConfig`, `SetConfigClose`) and a refused call is no
step. `execute` alone is cut into `BeginExecute`, one of `ConfigStep`,
`CloseStep`, `CpiStep` per inner instruction, and `EndExecute` or `Abort`,
because its loop is where state is read once and used later and where failure
comes half way. It works on `frame`; `multisig` and `transaction` hold what is
committed, and no other instruction runs meanwhile. Inside `execute` the status
is written before the loop; since nobody can see it before the end, the model
writes it in `EndExecute`.

### Accounts taken for another kind

Ownership is not kind. The handlers above are given the kind they expect, a
member of the domain of its variable. Three more actions are handlers that
accept another kind and change what a property is about:

| action | in the program |
|---|---|
| `SetConfigOnTransaction` | `set_config` on a proposal. Its `creator` is read as `config_authority`. `SetConfigAuthority` writes the creator, `SetRentCollector` writes index, latch time, owner count and the three counts (`Tallies`), the other actions write bytes of the message or, with more than 16 owners, of the bitmaps (`Tails`) |
| `SetConfigCloseOnTransaction` | the same call with `CloseMultisig`: the proposal's account goes and no closure is counted |
| `CloseTransactionOnBuffer` (`Buffer`) | `close_transaction` on a buffer. `final_hash` is read as the counts, `written` as the status; with an owner count of zero the lengths agree, and `Transaction::invariant`, which would refuse it, is not called. `Multisig`'s part of it is `CloseOther` |

Which proposals load as a multisig depends on lengths and bytes of the message;
the constant `Ambiguous` is the set of messages for which they do, any set of
them. Which hashes read as no owners is `NoOwnerHashes`. What a written proposal
holds is any value its fields can take that still loads as a proposal, so these
actions allow at least what the code does; in particular `AddOwner` and
`RemoveOwner` are taken to write the tail, although they also resize the account
and mostly leave one that loads as nothing.

What the program promises is therefore said of the others: of a proposal never
written as a multisig (`Genuine`), of the closure count of a multisig not in
`miscount`, whatever was done to the rest. These are conclusions about a program
in which the mistakes do happen, not an assumption that they do not: a written
proposal may still be voted on and executed, and what it then does to its
multisig is a step like any other. That neither restriction can be dropped is
shown by `claim_latch` and `claim_strand`.

Other confusions of kind exist and are not modelled. The properties named are
to be read as leaving them out:

* The creator of a buffer that loads as a multisig may use `set_config` on it
  and change their own upload, the committed hash included, without sending a
  chunk (`UploadIntact`, `CommittedBecomesProposal`); nobody else can, and what
  is converted still has the hash the account then holds.
* A config authority may use `buffer_extend` or `close_buffer` on its own
  multisig when `transaction_index` happens to equal the bytes behind the first
  112, that is 32 + 33n with n owners (`VoterCountExact`, `FundedIndexBlocks`,
  the closure count): it writes the header and the owners past the checks of
  `config_action.rs`. The authority decides the configuration in any case; an
  autonomous multisig has no such key.
* A proposal that loads as a multisig may be given as the `multisig` of any
  other handler. A proposal made under it raises what is read as its
  `transaction_index`, its message length, after which it loads as a proposal no
  more; a buffer made under it and closed as a proposal changes bytes of its
  bitmaps or message. Both are further ways into `misread`, open to the owners
  its bytes spell.
* The marker `invalidate_prior_transactions` moves lies over the number and the
  bumps of a proposal's ephemeral signers, which the model does not have.

### Create keys

`Spec` assumes that a create key is used for one multisig (`InitFresh`). The
source calls it ephemeral but nothing stops its holder from signing again after
the multisig was closed; `ReuseSpec` drops the assumption, and `Buffer` builds on
it.

### The poll a proposal is (`Election`)

`Election` knows nothing of positions, bitmaps, counters, staleness or a
configuration that changes. A poll has a fixed electorate and quorum; each
voter speaks once; a rejection settles it when those who have not rejected are
too few; as many as approved may undo an approval; an approved poll runs once
and only a finished one is forgotten. A poll may also be spoilt, after which
nothing is said of it: that is what being written as a multisig does to a
proposal, and it does it to no other. `Multisig` implements it under the
mapping `Polls`, with `misread` as the spoilt ones: electorate and quorum are those of the configuration at
creation, the voters are the *people* the ballot recorded, and the outcome is
the status in the account, written from bits and counters. The mapping lets the
poll see nothing of later configurations, so a vote counted by a bit that now
belongs to somebody else, or against a threshold changed since, is a step
`Election` does not have.

### Uploads (`Buffer`)

| variable | in the program |
|---|---|
| `buffer` | the live buffer accounts, by seeds (multisig, creator, buffer index) |
| `funded` | proposal addresses that hold lamports and no account |
| `uploads`, `converted` | history: uploads ever begun, and the proposals they became |

Actions are `BufferCreate`, `BufferExtend`, `BufferClose`, `CreateFromBuffer`,
`CloseTransactionOnBuffer` and `Deposit`, by which anybody puts lamports at an address that is not in use
yet. They interleave with every step of `Multisig` (`MultisigStep`), under
`ReuseNext`: a multisig may be closed and made again with other owners while a
buffer made for its predecessor waits. `CreateFromBuffer` calls the
`CreateTransaction` of `Multisig`, as the code calls `init_proposal`. A hash is
represented by what it is the hash of, so SHA-256 is taken to be injective.

### Bytes (`Storage` implements `Records`)

`Storage` holds a multisig and its last proposal as a header and a tail of
cells. An address is `W` cells of `BASE` values (32 and 256), a bitmap cell has
`BITS` bits (8). `AddOwnerBytes` and `RemoveOwnerBytes` are the `copy_within`
calls in their order, with the resize before or after them as in the code;
`IsOwner` is the binary search; `Vote` goes from the signer's address through
the search to a bit, and `Propose` starts the next proposal, so that votes are
also cast on lists that have been shifted. Bound: it replaces one without votes,
up to `MaxIndex`. `Records` is the same pair of accounts as a `Config` and
three sets of positions, with the config actions of `Accounts`, which are the
ones `Multisig` uses. `ImplementsRecords` is the refinement under `ConfigOf` and
`VotesOf`, so what `Multisig` assumes of its accounts is what the bytes give.

### Messages (`CompiledMessage`)

| variable | in the program |
|---|---|
| `table` | the lookup tables: entries are only appended; a retired table is one deactivated or closed |
| `proposal` | the blob submitted, how it was read, and, as history, the message it was made from and the tables as they stood |
| `calls` | what `execute` invoked, with the accounts and privileges of each call |

`Submit` is the parse in `init_proposal`; `Execute` the second parse, the
comparison of accounts with its two cursors, and the list of calls. Blobs are
what the client encodes, one cell of it moved up or down, every prefix of it and
every extension by a cell; accounts are the client's list, with one replaced,
two neighbours exchanged, a tail missing or one more. A call is what the program
asks the runtime for; what the callee does, and its failure, are in `Multisig`.

`ReadAll` is the walk of `parse` over the items of a kind, one `ReadItem` at a
time. `Total` is a running sum of lengths: it gives the counts `parse` adds up,
and where the two cursors of `execute` stand before each table. `Approved` and
`Intended`, which the properties use, describe the accounts and the calls by
group, without indexes, sums or cursors. Bound (`Open`): tables rest once the
proposal is refused or has run, as nothing reads them any more.

## Runs

All limits of the program are constants; the runs take small values at which
each limit is reached.

| run | instance | properties | distinct states |
|---|---|---|---|
| `voting` | 2 multisigs with overlapping owners, thresholds 0 to 4 and malformed payloads, a proposal each | `VotesNameTheirVoters`, `SettledByItsOwnRules`, `NoDeadBallot` | 1.6 million, up to renaming of create keys |
| `reconfigure` | 3 owners, 2 proposals from two messages that change the rules | `VotableUnderItsRules`, the three above, `ImplementsElection` | 1.8 million |
| `authority` | controlled and autonomous, thirteen actions, up to 3 owners, the clock running | `TypeOK`, `VoterCountExact`, `AutonomousNeedsAVote`, `TimeLockRespected` | 1.1 million |
| `lifecycle` | 2 proposals, seven messages with closes and failures | `ClosedCountExact`, `CloseStrandsNothing`, `ImplementsElection`, `StaleActiveFrozen` | 1.3 million |
| `mistakes` | 2 owners, 2 proposals with a message that changes the threshold, one account mistaken | `VotesNameTheirVoters`, `SettledByItsOwnRules`, `AutonomousNeedsAVote` | 208 thousand |
| `liveness` | 3 owners, 1 proposal | `BallotSettles` | 1.9 thousand |
| `buffer` | 1 owner, an authority, 2 uploads of up to 2 cells, 2 proposals, reuse of the key | `BufferTypeOK`, `UploadIntact`, `OneProposalPerUpload`, `CommittedBecomesProposal`, `ProposedByRight`, `ContentFixed`, `FundedIndexBlocks` | 480 thousand |
| `storage` | 4 addresses of 2 cells, up to 4 owners, bitmap cells of 2 bits, 2 proposals | `SearchFindsOwners`, `SameVerdicts`, `CountersMatchBits`, `ImplementsRecords` | 34 thousand |
| `message` | cells of 8 values, 7 messages and what damage makes of them, 2 tables of up to 2 entries | `ParseIsTotal`, `ClientAndProgramAgree`, `NoSubstitution`, `ClientAccountsServe` | 243 thousand |

Votes are tried with any multisig and any proposal. `voting`, `reconfigure`,
`authority` and `lifecycle` do not follow a behaviour past the first account
taken for another kind (`KindsKept`), which keeps them small; `buffer` goes on
after a buffer was closed as a proposal but not after a proposal was written as a
multisig (`NoneMisread`), `liveness` has no message that loads as a multisig and
goes on after a false closure. `mistakes` goes on after one mistake of any kind, up to two votes, and leaves out written proposals no handler
accepts any more (`OneMistake`): a forged count lets one vote execute a change of
the threshold while the other proposal is open, and the votes and the outcome of
that one are still right. What happens after any number of mistakes is in the
theorems, which have no such bound.

What the last three show. `buffer`: a buffer holds what its creator sent, and
what becomes a proposal is the content committed to, by somebody who may
propose at that moment, once; a live proposal's content never changes. A
deposit at the address of the next proposal stops its multisig's counter for
good (`FundedIndexBlocks` states it as what the program does: such a multisig
runs what is already proposed and takes no new proposal).
`storage`: see above; `SameVerdicts` adds that the bytes refuse exactly what the
values refuse. `message`: a blob that is let in has one reading and every index
in it is in range; the client's messages are read as meant whenever their counts
fit a byte; nothing but the accounts approved, with the privileges approved,
reaches a call; and the client's list of accounts is one `execute` accepts, with
the same writable flags.

Why the bounds are enough. Interference needs one proposal to execute while
another collects votes, hence two proposals; an owner swap that keeps the count
needs one outsider; the cutoff is exercised at every distance between three
voters and their threshold by `voting`, and with owners who may not vote by
`reconfigure`; a vote against the wrong account needs two multisigs whose
owners overlap. A lock of one tick and a clock of two values distinguish
before the release from at it.
Four owners of two cells move every part of the tail over every other, and two
bits to a cell put a boundary between owners and a bitmap with a spare bit.
Chunks and prefixes of two cells include the empty, the short and the exact
upload, and a content that ends in the zero a new account holds, which a hash
alone would accept unsent. The message named `Everything` has an account in each
of the six privilege groups, two tables, an index not filled yet at first, and a
program that comes from a table and may turn out to be this one.
The counters are compared with exact values in every state, so an error in one
increment shows within the first two proposals. Deadlock is not checked: the
bounded model ends when the indices and the clock are used up, and the program
itself may rest in any state.

`BallotSettles` assumes weak fairness of a running execute (the runtime finishes
what it started) and strong fairness of each owner's vote on each proposal.
The second is an assumption about the owners, not the code: it reads "if
everybody who may vote keeps voting until the vote is taken". It is strong
because a running execute disables votes for its duration. The property then
says that the program never leaves such owners with an open ballot.

`StaleActiveFrozen` describes a consequence of two checks together: a proposal
that goes stale while Active can no longer be voted on, withdrawn or closed,
and holds its multisig open for good, unless an account is taken for another
kind. No text of the repository says
otherwise, so it is stated as what the program does.

### Where the texts and the program disagree

Each of these has a run in which TLC exhibits the disagreement.

| run | text | program |
|---|---|---|
| `claim_cancel` | undoing an approval "takes the same threshold that made it" (`cancel.rs`) | after any config change no cancel vote is accepted, and the proposal still runs |
| `claim_latch` | "`Approved` is latched by the vote that crosses the threshold" (`state/transaction.rs`) | `set_config` takes a proposal for a multisig and its creator writes the counts; one vote then latches it |
| `claim_strand` | closing "refuses unless the only proposal still open is the one carrying this action" (`config_action.rs`) | `close_transaction` takes a buffer for a finished proposal and counts it, and the multisig is closed while a proposal is Active |

Noticed on the way and visible in the model, without a run of their own:

* "Once approvals reach the threshold anyone may execute it" (the repository's
  README): `execute` asks for an owner with the execute permission.
* "That key alone decides the configuration" (`set_config.rs`): `execute` applies
  the config actions of a proposal whatever `config_authority` holds.
* With a reused create key `close_transaction` counts a finished proposal of the
  predecessor as one of the new multisig's, a second way to close a multisig
  over an unfinished proposal.
* `transaction_index` is "never reused" (`state/multisig.rs`), but it is when a
  create key signs again: the new multisig is refused the index at which the
  account of the old closing proposal still stands, until that account is
  closed. If it stands at index 1 it never is: closing it would count one
  closure of no proposals, which `Multisig::invariant` refuses, so the new
  multisig can propose nothing.
* The executed proposal that closed its multisig can never be closed itself,
  since `close_transaction` needs the multisig account. `CloseStrandsNothing`
  makes room for it.
* Only voters are counted, so every owner can be limited to voting; nobody can
  then propose or execute, and without an authority nobody can repair it.
* `rent_collector` is where rent goes "when a proposal or buffer is closed"
  (`state/multisig.rs`), but `close_buffer` always refunds the creator.
* `Message::encode` writes counts with `as u8`: 256 keys or indexes are written
  as none, and the rest of the blob is then read as something else or refused.
  `ClientAndProgramAgree` is stated for counts that fit.
* An index past the end of a table is let in and approved, and means whatever
  the table's authority appends there afterwards; `NoSubstitution` speaks of
  such an entry as it stands at execution.
* `execute` calls the proposal account and the tables "never one of the accounts
  passed" to the calls; nothing refuses a message that names them.
* What marks a config action is the program it names (`execute.rs`), not that it
  references no accounts, as the comment in `client.rs` has it; a program loaded
  from a table counts.
* The test `a_config_proposal_carrying_accounts_is_refused` (`tests/config.rs`)
  never executes its proposal; `execute` does not look at the accounts of an
  inner instruction that targets this program.

## Proofs

The theorems hold for every choice of the constants that satisfies the named
assumptions of `Accounts`, `Multisig`, `Buffer`, `Storage` and `CompiledMessage`
(addresses are finitely many numbers with 0 among them that fit their cells,
messages, actions and payloads have their types, contents are sequences of
cells, limits are natural numbers and `MAX_OWNER` is positive; for `Storage`
also that payloads are ones `init_multisig` accepts and that `Err` is no
account; for `CompiledMessage` that messages have the client's types and that
`Err` is nothing a reader yields). In particular for any number of owners,
multisigs, proposals and inner instructions, where a run has two or three, and
for the widths of the program, 32 cells of 256 values and 8 bits, where a run
has 2, 3 and 2.

`MultisigProofs`:

* `TypeCorrect`: `Spec => []TypeOK`. `TypeOK` is inductive; the work is in
  `ConfigActionType` (what each config action leaves) and `VoteTypes`.
* `VotersCounted`: `Spec => []VoterCountExact`. Inductive together with
  `TypeOK`: each adjustment of `voter_count` is compared with the change of the
  set of voters (`ConfigActionCounts`), and creation with the length of an
  ascending list (`AscendingCount`, which rests on `Ascending`: a list that
  ascends between neighbours has no repetition). The threshold part comes from
  the header check that ends every action.
* `RulesHeld`: `Spec => []VotableUnderItsRules`. Not inductive alone. `RulesInv`
  adds `Ledger`: a proposal stays with the multisig that made it, and the index
  of a genuine one was handed out by that multisig, so a marker
  set to `transaction_index` is past it; a multisig's key is among those ever
  used, so a fresh multisig has no proposals yet; and a running execute has
  either left the configuration alone or moved the marker to the last index.
  Steps fall into three kinds: those that touch neither configuration nor
  ballot rules (`RulesKept`), those that change a configuration by a config
  action or outside the rules (`RulesMoved`), and the two creations. A proposal
  written as a multisig leaves the genuine ones and changes no other
  (`RewrittenType`, `MistakesKept`).

Theorems about proposals are about `Genuine` ones and say nothing of the others,
which their proofs let do anything a handler allows. A proposal leaves `Genuine`
for good, so each invariant below has one more case for the step that takes it
out, and the cases of the other handlers when they are given one that is out:
that a vote on it, its execution or its closing disturbs no genuine one
(`VoteOthers`, `PollsUntouched`).

`BallotProofs`: `VotesNamed`, `SettledRight`, `NoneDead`. The inductive
invariant is `BallotInv`: `RulesInv`, `VoterCountExact`, `Running` (an execute
runs an Approved proposal of its own multisig) and, for every genuine proposal,
`Sound`, which relates account and ballot: bits and counters are the positions
and the number of the people recorded (`Names`), and the status is the verdict
of the rules at creation (`Verdict`). A vote sets the bit at a position of the
*current* owner list; that it is the voter's position in the list at creation
is `VotableUnderItsRules`, that no two people share it is the injectivity of
`Position`, and that the cutoff computed from `voter_count` is the one of the
electorate is `VoterCountExact`. So none of the three properties is inductive
without the other two and without `RulesInv`. Each kind of vote has a lemma
saying that it keeps `Sound`; a stale proposal keeps it because nothing writes
to it.

`ElectionProofs`: `ElectionImplemented`, `Spec => ImplementsElection`. The
refinement mapping is `Polls`; with `BallotInv` before and after a step, every
handler is a step of `Election` on the poll of the proposal it writes
(approving, rejecting, undoing, withdrawing, running, forgetting, opening,
spoiling) or leaves all polls alone.

`LifecycleProofs`: `ClosedCounted` and `NothingStranded` from `ClosingInv`, and
`StaleFrozen`. The count is not inductive alone: an execute works on a copy of
the multisig, and writes it back over the committed one at its end, so
`FrameCounts` has to say that the copy still has the committed counters, and
that a close inside it found its own proposal to be the only one open. All this
is said of multisigs outside `miscount`; a proposal written as a multisig still
counts as one (`ClosingInv` is about every account), one closed as a multisig
does not, which is what puts its multisig into `miscount` (`ClosingLost`). The two
properties need each other: what a close strands is what the count missed.
`StaleFrozen` is an action property; its part about closing follows from the
count.

Also in `LifecycleProofs`: `AutonomyKept` needs of `BallotInv` that the running
proposal is Approved and therefore, if genuine, had its quorum. `LocksRespected` rests on
`LockInv`, which adds that an execute under way passed the test of the time
lock, and that the time in the account is the one at which the vote latched,
not in the future (`Stamped`): the property compares with the history of the
ballot, the code with the account.

`BufferProofs`, for the composition, where create keys may sign again:

* `UploadsConservative`: `BufferSpec => ReuseSpec`. What uploads and deposits do
  to the accounts of `Multisig` is what its own handlers do, a buffer closed as a
  proposal being its `CloseOther`, so what is proved of
  `ReuseSpec` holds in the composition; `ComposedVotersCounted` carries the voter
  count over. The proofs above that rest on `RulesInv` use that a key is
  used once, as `Spec` says; with reuse the closure count is no longer exact.
* `BufferTypeCorrect`, `UploadsIntact`, `ConvertedOnce` from `UploadInv`. An
  upload holds what was sent and zeros behind it (`Intact`); that appending a
  chunk at `length` keeps this is `CopyAppends`. `ConvertedOnce` needs that no two live
  buffers are the same upload (`Numbered`).
* `CommittedProposed`, `AllProposedByRight`, `ContentsFixed`: action properties
  from `UploadInv`.
* `FundedBlocks` needs `FrameIndex`: the copy an execute writes back has the
  committed index.

`StorageProofs`, in the order of the module:

* Digits and bits. `CellsSpell`: the cells of an address spell it. `SetsOneBit`:
  adding the weight of a clear bit sets that bit and no other, within one cell;
  `BitPlaces` and `SetBitSets`: over the three bitmaps and the message.
* The search. `SearchParts`: on an ascending list the recursion of
  `BinarySearch` ends where the list is parted by the address. `SearchFinds`:
  that place is the owner's `Position`.
* The copies. `OpensGap` and `ClosesGap` say cell by cell what the three copies
  leave, from which `GrownLays` and `ShrunkLays`: a tail laid out for a list of
  owners and one of permissions (`Lays`) is laid out for the lists with one entry
  inserted or deleted.
* The handlers. `ActionAgrees`: on an account that holds owners and permissions
  (`Holds`: laid out, ascending, header in range) a handler and the action of
  `Accounts` refuse together or leave the same configuration, held again.
* `SearchAlwaysFinds`, `VerdictsAlwaysSame` from `LaidOut`, which says that there
  are such lists for the account and is inductive by `ActionAgrees`;
  `CountersAlwaysMatch` from `Tallied`, which adds the types of the proposal and
  that the message behind the bitmaps is intact; `BytesImplementRecords`,
  `Spec => ImplementsRecords`, from both. `LaidOut` quantifies over the lists a
  tail was written from, which is why it is inductive where
  `SearchFindsOwners`, a statement about what is read, is not.

`MessageProofs`, in the order of the module:

* Running sums and concatenations. `TotalSteps` is the equation of `Total`,
  `FlattenAt` says that entry `k` of group `i` is at `Total[i - 1] + k` of the
  concatenation, and `TotalSplits` that every place in it is one of these.
* Writing and reading. `ItemForward` and `ItemBack`: reading what was written
  for an item gives the item and the cells behind it, and an item that was read,
  written again, gives the cells it was read from. `ReadAllForward` and
  `ReadAllBack` carry this over any number of items, `ParseForward` and
  `ParseBack` over a whole blob. `ParseForward` is about every message whose
  counts fit their cells, `ParseBack` about every sequence of cells, not only
  those a step submits. `SoundIsInRange`: the bound `parse` compares indexes
  with is the number of accounts listed and loaded.
* The invariant. `MInv` says that the tables are typed, that the proposal's
  message is the parse of a sequence of cells, that what was shown of a table is
  a prefix of it (`StillShown`), and that only a stored proposal has run. From
  it `ParseTotal` and `EndsAgree` by the lemmas above.
* Places. `NamedPlace` and `ViewsAreNamed`: accounts that pass the comparison of
  `execute` are, at every place below `NumAllKeys`, the ones the message names;
  `ClientServes`: the client's list passes it, from which `AccountsServe`.
* `Substitution`. `ApprovedAt`: at index `i` the six groups of `Approved` have
  the account named there, with the privileges `IsWritable` and `IsSigner` give
  it, which is where the boundaries of the header meet the grouping.
  `ExecuteIntends`: with any accounts that pass the comparison, the calls are the
  `Intended` ones for the tables as they stand, and by `StillShown` these are
  the tables as shown and what was added since. No step after the execution
  disturbs this because of `Open`.

What a recursive definition computes (powers, digits, the search, sums, the walk
over a blob) is proved without an induction rule: of the places where it would
differ from its claim, take the least (`LeastNatural`, `Least`) and derive a
contradiction. A recursive function also has to be shown to exist before its
equation can be used (`PowerExists`, `RunExists`, and inside `CellsSpell` and
`SearchParts`).

TLC checked each inductive invariant before it was proved: `ClosingInv` and
`LockInv` on the instances of `reconfigure`, `lifecycle`, `authority` and
`mistakes`, `UploadInv` and `FrameIndex` on that of `buffer`, `MInv` on that of
`message`. They are not part of the runs, where the properties they imply are. `LaidOut`
and `Tallied` quantify over lists and are not for TLC to evaluate; the `storage`
run checks what follows from them.

Only model-checked: `BallotSettles`, because liveness under fairness is out of
the prover's reach; and the claims, which are violations. Every other property
of a passing run is a theorem.

## Not modelled

Amounts of lamports and their refunds: what depends on them is kept (a resize
that cannot be paid fails, destinations are checked, a deposit makes an address
count as used), the sums are not. Of a buffer's address, that a deposit there
blocks its creation too. Vault and ephemeral signer seeds, bumps and address
derivation, which the runtime checks. A called program calling back, which the
runtime refuses. The stateless dispatch, error codes and helpers, and the
client's builders of instructions, which copy their arguments behind a tag.

## Plan

The modules of the plan are in place and what the runs check is proved but for
liveness. Left: `Rent`, a module with the lamports of every account, their
conservation and their destinations.
