-------------------------- MODULE CompiledMessage --------------------------
(***************************************************************************)
(* What a proposal carries: a compiled message, written by the client,     *)
(* parsed when it is proposed and again when it is executed.  It names     *)
(* accounts by position: its own keys in four privilege groups, then the   *)
(* writable entries of every lookup table, then the readonly entries.      *)
(* The tables belong to another program and change while owners vote; the  *)
(* executor chooses the accounts passed in.                                *)
(*                                                                         *)
(* A cell is a byte, of BYTE values, and an address is a single cell.      *)
(* Positions and table indexes count from 0, as in the source; a cell      *)
(* sequence is a TLA+ sequence.                                            *)
(***************************************************************************)
EXTENDS Integers, Sequences, FiniteSets, SequencesExt

CONSTANTS
    BYTE,               \* values of a cell: 256 in the program
    SYSTEM, PROGRAM,    \* the system program and this program
    Tables,             \* addresses of the lookup tables
    Listed,             \* addresses a table may be extended with
    MaxTable,           \* bound: entries of a table
    ClientMessages,     \* messages handed to the client to encode
    MAX_CPI_ACCOUNTS,
    Err, None

Cell == 0..(BYTE - 1)
Instruction == [program_id_index : Cell, account_indexes : Seq(Cell), data : Seq(Cell)]
Lookup == [account_key : Cell, writable_indexes : Seq(Cell), readonly_indexes : Seq(Cell)]
Message ==
    [num_signers : Cell, num_writable_signers : Cell, num_writable_non_signers : Cell,
     account_keys : Seq(Cell), instructions : Seq(Instruction), lookups : Seq(Lookup)]

ASSUME CellAssumption ==
    /\ {BYTE, MaxTable, MAX_CPI_ACCOUNTS} \subseteq Nat
    /\ Tables \cup Listed \cup {SYSTEM, PROGRAM} \subseteq Cell
    /\ ClientMessages \subseteq Message

\* An error is not a value that was read.
ASSUME ErrAssumption ==
    /\ Err \notin [item : Instruction \cup Lookup, rest : Seq(Cell)]
    /\ Err \notin [items : Seq(Instruction) \cup Seq(Lookup), rest : Seq(Cell)]

VARIABLES
    table,      \* the lookup tables, owned by another program
    proposal,   \* the blob submitted and what became of it
    calls       \* what execute invoked, None before it succeeded

vars == <<table, proposal, calls>>

(***************************************************************************)
(* The client.                                                             *)
(***************************************************************************)
Length(s) == Len(s) % BYTE   \* len() as u8

\* Mutant: the two cells of a data length swapped.
DataLength_BigEndian(s) == <<(Len(s) \div BYTE) % BYTE, Length(s)>>

DataLength(s) == <<Length(s), (Len(s) \div BYTE) % BYTE>>   \* (len() as u16).to_le_bytes()

EncodeItem(kind, x) ==
    IF kind = "instruction"
    THEN <<x.program_id_index, Length(x.account_indexes)>> \o x.account_indexes
         \o DataLength(x.data) \o x.data
    ELSE <<x.account_key, Length(x.writable_indexes)>> \o x.writable_indexes
         \o <<Length(x.readonly_indexes)>> \o x.readonly_indexes

EncodeAll(kind, items) == FlattenSeq([i \in DOMAIN items |-> EncodeItem(kind, items[i])])

Encode(m) ==
    <<m.num_signers, m.num_writable_signers, m.num_writable_non_signers,
      Length(m.account_keys), Length(m.instructions), Length(m.lookups)>>
    \o m.account_keys
    \o EncodeAll("instruction", m.instructions)
    \o EncodeAll("lookup", m.lookups)

Transfer(vault, destination, lamports) ==
    [num_signers |-> 1, num_writable_signers |-> 1, num_writable_non_signers |-> 1,
     account_keys |-> <<vault, destination, SYSTEM>>,
     instructions |-> <<[program_id_index |-> 2, account_indexes |-> <<0, 1>>,
                         data |-> <<2, lamports>>]>>,
     lookups |-> <<>>]

ConfigActionMessage(action, payload) ==
    [num_signers |-> 0, num_writable_signers |-> 0, num_writable_non_signers |-> 0,
     account_keys |-> <<PROGRAM, SYSTEM>>,
     instructions |-> <<[program_id_index |-> 0, account_indexes |-> <<>>,
                         data |-> <<action>> \o payload]>>,
     lookups |-> <<>>]

\* Mutant: the writable non-signers are taken to start the list.
ClientIsWritable_NoOffset(m, index) ==
    \/ index < m.num_writable_signers
    \/ index >= m.num_signers /\ index < m.num_writable_non_signers

ClientIsWritable(m, index) ==
    \/ index < m.num_writable_signers
    \/ index >= m.num_signers /\ index - m.num_signers < m.num_writable_non_signers

\* What the lookups ask of their tables, and how much the first of them ask for.
Writables(m) == [i \in DOMAIN m.lookups |-> m.lookups[i].writable_indexes]
Readonlys(m) == [i \in DOMAIN m.lookups |-> m.lookups[i].readonly_indexes]
Total(groups) ==
    LET total[i \in 0..Len(groups)] == IF i = 0 THEN 0 ELSE total[i - 1] + Len(groups[i])
    IN  total

\* The accounts the client passes to execute, with the privilege it asks for.
ExecuteAccounts(m, resolved) ==
    LET writableFromLookups == Total(Writables(m))[Len(m.lookups)]
        Meta(address, writable) == [address |-> address, writable |-> writable]
    IN  [i \in DOMAIN m.account_keys |-> Meta(m.account_keys[i], ClientIsWritable(m, i - 1))]
        \o [i \in DOMAIN resolved |-> Meta(resolved[i], i - 1 < writableFromLookups)]
        \o [i \in DOMAIN m.lookups |-> Meta(m.lookups[i].account_key, FALSE)]

(***************************************************************************)
(* Parsing.  A reader takes the cells left and yields an item and the      *)
(* cells after it, or Err when a length runs past the end.                 *)
(***************************************************************************)
Take(cells, from, n) == SubSeq(cells, from, from + n - 1)
After(cells, n) == SubSeq(cells, n + 1, Len(cells))

ReadInstruction(cells) ==
    LET indexes == cells[2]
        data == cells[3 + indexes] + BYTE * cells[4 + indexes]
    IN  IF Len(cells) < 2 \/ Len(cells) < 4 + indexes \/ Len(cells) < 4 + indexes + data
        THEN Err
        ELSE [item |-> [program_id_index |-> cells[1],
                        account_indexes |-> Take(cells, 3, indexes),
                        data |-> Take(cells, 5 + indexes, data)],
              rest |-> After(cells, 4 + indexes + data)]

ReadLookup(cells) ==
    LET writable == cells[2]
        readonly == cells[3 + writable]
    IN  IF Len(cells) < 2 \/ Len(cells) < 3 + writable \/ Len(cells) < 3 + writable + readonly
        THEN Err
        ELSE [item |-> [account_key |-> cells[1],
                        writable_indexes |-> Take(cells, 3, writable),
                        readonly_indexes |-> Take(cells, 4 + writable, readonly)],
              rest |-> After(cells, 3 + writable + readonly)]

ReadItem(kind, cells) ==
    IF kind = "instruction" THEN ReadInstruction(cells) ELSE ReadLookup(cells)

ReadNext(kind, got) ==
    IF got = Err THEN Err
    ELSE LET r == ReadItem(kind, got.rest)
         IN  IF r = Err THEN Err ELSE [items |-> Append(got.items, r.item), rest |-> r.rest]

\* n items of a kind one after the other.
ReadAll(kind, n, cells) ==
    LET read[k \in 0..n] ==
            IF k = 0 THEN [items |-> <<>>, rest |-> cells] ELSE ReadNext(kind, read[k - 1])
    IN  read[n]

NumWritableLookupKeys(m) == Total(Writables(m))[Len(m.lookups)]

NumAllKeys(m) ==
    Len(m.account_keys) + Total(Writables(m))[Len(m.lookups)] + Total(Readonlys(m))[Len(m.lookups)]

HeaderSound(blob) ==
    /\ Len(blob) >= 6
    /\ blob[1] <= blob[4]             \* signers among the keys
    /\ blob[2] <= blob[1]             \* writable signers among the signers
    /\ blob[3] <= blob[4] - blob[1]   \* writable non-signers among the rest
    /\ Len(blob) >= 6 + blob[4]

\* Every index an instruction uses names one of the message's accounts.
IndexesSound(m) ==
    \A i \in DOMAIN m.instructions :
        \A x \in {m.instructions[i].program_id_index} \cup ToSet(m.instructions[i].account_indexes) :
            x < NumAllKeys(m)

\* Mutant: what is left after the last lookup is ignored.
Consumed_Anyhow(lookups) == TRUE

\* The blob must be consumed exactly.
Consumed(lookups) == lookups.rest = <<>>

\* TransactionMessage::parse
Parse(blob) ==
    IF ~HeaderSound(blob) THEN Err
    ELSE
    LET instructions == ReadAll("instruction", blob[5], After(blob, 6 + blob[4]))
        lookups == ReadAll("lookup", blob[6], instructions.rest)
        message == [num_signers |-> blob[1], num_writable_signers |-> blob[2],
                    num_writable_non_signers |-> blob[3],
                    account_keys |-> Take(blob, 7, blob[4]),
                    instructions |-> instructions.items,
                    lookups |-> lookups.items]
    IN  IF instructions = Err \/ lookups = Err THEN Err
        ELSE IF Consumed(lookups) /\ IndexesSound(message) THEN message ELSE Err

IsWritable(m, index) ==
    IF index >= Len(m.account_keys)
    THEN index - Len(m.account_keys) < NumWritableLookupKeys(m)
    ELSE \/ index < m.num_writable_signers
         \/ index >= m.num_signers /\ index - m.num_signers < m.num_writable_non_signers

IsSigner(m, index) == index < m.num_signers

(***************************************************************************)
(* Executing.                                                              *)
(***************************************************************************)
\* Mutant: the accounts from the tables are the runtime's business.
AccountsMatch_TrustRuntime(m, views) ==
    /\ Len(views) >= NumAllKeys(m) + Len(m.lookups)
    /\ \A i \in DOMAIN m.account_keys : views[i] = m.account_keys[i]

\* Owned by the table program and without a deactivation slot.
Usable(t) == t \in Tables /\ table[t].state = "active"

\* The accounts passed are those the message names, in order: two cursors
\* walk the tables' writable and readonly entries.
AccountsMatch(m, views) ==
    LET writableAt == Len(m.account_keys)
        readonlyAt == writableAt + NumWritableLookupKeys(m)
        Named(t, indexes, at) ==
            \A k \in DOMAIN indexes :
                /\ indexes[k] < Len(table[t].addresses)
                /\ views[at + k] = table[t].addresses[indexes[k] + 1]
    IN  /\ Len(views) >= NumAllKeys(m) + Len(m.lookups)
        /\ \A i \in DOMAIN m.account_keys : views[i] = m.account_keys[i]
        /\ \A i \in DOMAIN m.lookups :
              LET t == m.lookups[i].account_key
              IN  /\ views[NumAllKeys(m) + i] = t
                  /\ Usable(t)
                  /\ Named(t, Writables(m)[i], writableAt + Total(Writables(m))[i - 1])
                  /\ Named(t, Readonlys(m)[i], readonlyAt + Total(Readonlys(m))[i - 1])

\* One instruction: applied in place when it names this program, invoked with
\* the accounts at its indexes otherwise.
Call(m, views, x) ==
    IF views[x.program_id_index + 1] = PROGRAM
    THEN [program |-> PROGRAM, accounts |-> <<>>, data |-> x.data]
    ELSE [program |-> views[x.program_id_index + 1],
          accounts |-> [k \in DOMAIN x.account_indexes |->
              LET index == x.account_indexes[k]
              IN  [address |-> views[index + 1], writable |-> IsWritable(m, index),
                   signer |-> IsSigner(m, index)]],
          data |-> x.data]

WithinLimit(m) ==
    \A i \in DOMAIN m.instructions : Len(m.instructions[i].account_indexes) <= MAX_CPI_ACCOUNTS

(***************************************************************************)
(* Actions.                                                                *)
(***************************************************************************)
Init ==
    /\ table = [t \in Tables |-> [addresses |-> <<>>, state |-> "active"]]
    /\ proposal = None
    /\ calls = None

AddressesNow == [t \in Tables |-> table[t].addresses]

\* A blob is proposed: message is how it is read, Err when it is refused, meant
\* the message it was made from, if any, and seen what an owner who resolves
\* the tables now is shown.
Submit(blob, meant) ==
    /\ proposal = None
    /\ proposal' = [blob |-> blob, meant |-> meant, message |-> Parse(blob),
                    seen |-> AddressesNow]
    /\ UNCHANGED <<table, calls>>

Stored == proposal # None /\ proposal.message # Err

Execute(views) ==
    /\ Stored /\ calls = None
    /\ LET m == Parse(proposal.blob)
       IN  /\ AccountsMatch(m, views)
           /\ WithinLimit(m)
           /\ calls' = [i \in DOMAIN m.instructions |-> Call(m, views, m.instructions[i])]
    /\ UNCHANGED <<table, proposal>>

\* The table program: entries are appended and never change.
ExtendTable(t, a) ==
    /\ table[t].state = "active"
    /\ Len(table[t].addresses) < MaxTable
    /\ table' = [table EXCEPT ![t].addresses = Append(@, a)]
    /\ UNCHANGED <<proposal, calls>>

\* Deactivated, then closed; execute refuses both, by its slot and its owner.
RetireTable(t) ==
    /\ table[t].state = "active"
    /\ table' = [table EXCEPT ![t].state = "retired"]
    /\ UNCHANGED <<proposal, calls>>

(***************************************************************************)
(* What is submitted and passed in: what the client encodes, one cell of   *)
(* it one up or down, every cut and extension of it; the right accounts,   *)
(* one replaced, two neighbours swapped, the last dropped or one added.    *)
(***************************************************************************)
Damaged(blob) ==
    {[blob EXCEPT ![i] = (@ + d) % BYTE] : i \in DOMAIN blob, d \in {1, BYTE - 1}}
    \cup {SubSeq(blob, 1, n) : n \in 0..(Len(blob) - 1)}
    \cup {Append(blob, v) : v \in 0..(BYTE - 1)}

\* The entry of a table, and SYSTEM where it has none yet.
Entry(addresses, t, index) ==
    IF t \in Tables /\ index < Len(addresses[t]) THEN addresses[t][index + 1] ELSE SYSTEM

EntriesOf(m, groups, addresses) ==
    [i \in DOMAIN m.lookups |->
        [k \in DOMAIN groups[i] |-> Entry(addresses, m.lookups[i].account_key, groups[i][k])]]

\* What the tables yield, writables first.
Resolved(m, addresses) ==
    FlattenSeq(EntriesOf(m, Writables(m), addresses))
    \o FlattenSeq(EntriesOf(m, Readonlys(m), addresses))

ClientAccounts(m) == ExecuteAccounts(m, Resolved(m, AddressesNow))

ClientViews(m) ==
    LET accounts == ClientAccounts(m)
    IN  [i \in DOMAIN accounts |-> accounts[i].address]

Views(m) ==
    LET right == ClientViews(m)
    IN  {right, Append(right, PROGRAM)}
        \cup {[right EXCEPT ![i] = a] : i \in DOMAIN right, a \in Listed}
        \cup {SubSeq(right, 1, n) : n \in 0..(Len(right) - 1)}
        \cup {[right EXCEPT ![i] = right[i + 1], ![i + 1] = right[i]] : i \in 1..(Len(right) - 1)}

\* Bound: the tables rest once the proposal is refused or has run.
Open == proposal # None => (Stored /\ calls = None)

Next ==
    \/ \E m \in ClientMessages :
           \/ Submit(Encode(m), m)
           \/ \E blob \in Damaged(Encode(m)) : Submit(blob, None)
    \/ Stored /\ \E views \in Views(proposal.message) : Execute(views)
    \/ Open /\ \E t \in Tables : (\E a \in Listed : ExtendTable(t, a)) \/ RetireTable(t)

Spec == Init /\ [][Next]_vars

(***************************************************************************)
(* Properties.                                                             *)
(***************************************************************************)
\* Every index of an instruction is that of an account listed or loaded.
InRange(m) ==
    LET keys == Len(m.account_keys) + Len(Resolved(m, AddressesNow))
    IN  \A i \in DOMAIN m.instructions :
            /\ m.instructions[i].program_id_index < keys
            /\ ToSet(m.instructions[i].account_indexes) \subseteq 0..(keys - 1)

\* A blob that parse lets in says nothing beyond what it is read as: written
\* out again it is the same cells, and every index an instruction uses names
\* one of the accounts the message lists or loads (state/message.rs,
\* "validation is total").
ParseIsTotal ==
    Stored =>
        Encode(proposal.message) = proposal.blob /\ InRange(proposal.message)

\* Every count fits the cell it is written to, and the privileges and indexes
\* are about accounts that exist.
Fits(m) ==
    /\ \A s \in {m.account_keys, m.instructions, m.lookups} : Len(s) < BYTE
    /\ \A i \in DOMAIN m.instructions :
           /\ Len(m.instructions[i].account_indexes) < BYTE
           /\ Len(m.instructions[i].data) < BYTE * BYTE
    /\ \A i \in DOMAIN m.lookups :
           /\ Len(m.lookups[i].writable_indexes) < BYTE
           /\ Len(m.lookups[i].readonly_indexes) < BYTE
Sound(m) ==
    /\ m.num_writable_signers <= m.num_signers
    /\ m.num_signers + m.num_writable_non_signers <= Len(m.account_keys)
    /\ InRange(m)

\* The two ends of the layout agree: a message the client encodes is let in
\* exactly when its header and indexes are sound, and is read as it was meant,
\* as long as its counts fit a byte (client.rs and state/message.rs).
ClientAndProgramAgree ==
    (proposal # None /\ proposal.meant # None /\ Fits(proposal.meant)) =>
        proposal.message = IF Sound(proposal.meant) THEN proposal.meant ELSE Err

\* The tables as an owner knows them: what the proposal showed, and what was
\* added since.
AddressesShown ==
    [t \in Tables |->
        proposal.seen[t]
        \o SubSeq(table[t].addresses, Len(proposal.seen[t]) + 1, Len(table[t].addresses))]

\* The accounts of a message, by privilege group, as the layout describes it,
\* the tables holding these addresses.
Approved(m, addresses) ==
    LET Group(accounts, writable, signer) ==
            [i \in DOMAIN accounts |->
                [address |-> accounts[i], writable |-> writable, signer |-> signer]]
        Keys(from, to) == SubSeq(m.account_keys, from + 1, to)
        ws == m.num_writable_signers
        s == m.num_signers
        wn == s + m.num_writable_non_signers
    IN  Group(Keys(0, ws), TRUE, TRUE) \o Group(Keys(ws, s), FALSE, TRUE)
        \o Group(Keys(s, wn), TRUE, FALSE) \o Group(Keys(wn, Len(m.account_keys)), FALSE, FALSE)
        \o Group(FlattenSeq(EntriesOf(m, Writables(m), addresses)), TRUE, FALSE)
        \o Group(FlattenSeq(EntriesOf(m, Readonlys(m), addresses)), FALSE, FALSE)

\* The calls a message stands for when its accounts are these.
Intended(m, addresses) ==
    LET approved == Approved(m, addresses)
        Expected(x) ==
            [program |-> approved[x.program_id_index + 1].address,
             accounts |-> IF approved[x.program_id_index + 1].address = PROGRAM THEN <<>>
                          ELSE [k \in DOMAIN x.account_indexes |->
                                   approved[x.account_indexes[k] + 1]],
             data |-> x.data]
    IN  [i \in DOMAIN m.instructions |-> Expected(m.instructions[i])]

\* Whatever accounts the executor passes and whatever became of the tables in
\* between, what runs is what was approved: each call has the program, the
\* accounts and the privileges its message names, an entry of a table that
\* existed at proposal time being the one shown then (instruction/execute.rs).
NoSubstitution == calls # None => calls = Intended(proposal.message, AddressesShown)

\* The client's list of accounts serves: while the tables a message names are
\* active and hold its entries, execute takes the list the client makes, and
\* an account is writable in the outer transaction exactly when the program
\* asks for it writable (Message::execute_accounts against execute).
ClientAccountsServe ==
    Stored =>
        LET m == proposal.message
            accounts == ClientAccounts(m)
            loadable == \A i \in DOMAIN m.lookups :
                LET l == m.lookups[i]
                IN  /\ l.account_key \in Tables
                    /\ table[l.account_key].state = "active"
                    /\ \A x \in ToSet(l.writable_indexes) \cup ToSet(l.readonly_indexes) :
                           x < Len(table[l.account_key].addresses)
        IN  loadable =>
                /\ AccountsMatch(m, ClientViews(m))
                /\ \A i \in 1..NumAllKeys(m) : accounts[i].writable = IsWritable(m, i - 1)
=============================================================================
