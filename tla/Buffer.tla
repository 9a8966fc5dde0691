------------------------------- MODULE Buffer -------------------------------
(***************************************************************************)
(* Chunked upload of a message, composed with Multisig: a message too long *)
(* for one transaction is sent in pieces to a buffer account, which names  *)
(* its length and hash up front, and becomes a proposal in a last call.    *)
(* Between the calls anything else may happen to the multisig.             *)
(*                                                                         *)
(* A message is a sequence of cells.  SHA-256 is taken to be free of       *)
(* collisions, so a hash is represented by the content it is the hash of.  *)
(* Vault index, bumps and ephemeral signers are carried along unread and   *)
(* left out.                                                               *)
(***************************************************************************)
EXTENDS Multisig

CONSTANTS
    Cell,              \* contents of a cell; 0 is what a new account holds
    Compiled,          \* the contents that parse, and the messages they are
    Commitments,       \* contents whose hash clients commit to
    NoOwnerHashes,     \* those whose hash reads as no owners where a proposal
                       \* keeps its owners_count
    BufferIndexes,     \* buffer_index: tells one creator's buffers apart
    MAX_MESSAGE_SIZE,
    MaxUploads         \* bound on the buffers ever created

ASSUME CompiledAssumption ==
    /\ 0 \in Cell /\ Cell \subseteq Nat
    /\ DOMAIN Compiled \subseteq Seq(Cell)
    /\ Range(Compiled) \subseteq Messages
    /\ Commitments \subseteq Seq(Cell)
    /\ NoOwnerHashes \subseteq Commitments
ASSUME UploadAssumption == {MAX_MESSAGE_SIZE, MaxUploads} \subseteq Nat

Content(n) == [1..n -> Cell]
Contents == UNION {Content(n) : n \in 0..MAX_MESSAGE_SIZE}

\* Seeds of a buffer's address.
BufferIds == Keys \X Address \X BufferIndexes

\* `serial` and `sent` are history: which upload this is, and the cells its
\* creator has sent so far.
TransactionBuffer == [multisig: Keys, creator: Address, final_hash: Seq(Cell),
                      final_size: Nat, written: Nat, region: Contents,
                      serial: Nat, sent: Contents]

VARIABLES
    buffer,    \* live buffer accounts, by seeds
    funded,    \* proposal addresses that hold a deposit and no account
    uploads,   \* history: buffers ever created
    converted  \* history: the proposals made of uploads, <<serial, seeds>>

bufferVars == <<buffer, funded, uploads, converted>>
allVars == <<vars, bufferVars>>

Zeros(n) == [i \in 1..n |-> 0]

\* region[at..at + Len(chunk)].copy_from_slice(chunk)
CopyInto(region, at, chunk) ==
    [i \in DOMAIN region |-> IF i - at \in DOMAIN chunk THEN chunk[i - at] ELSE region[i]]

(***************************************************************************)
(* The account's own methods.                                              *)
(***************************************************************************)
\* Mutant: only the hash is compared.
IsComplete_Assumed(b) == TRUE
IsComplete(b) == b.written = b.final_size

BufferInvariant(b) == b.final_size <= MAX_MESSAGE_SIZE /\ b.written <= b.final_size

(***************************************************************************)
(* Instructions.                                                           *)
(***************************************************************************)
BufferInit ==
    /\ Init
    /\ buffer = <<>>
    /\ funded = {}
    /\ uploads = 0
    /\ converted = {}

NewBuffer(m, o, hash, size, chunk) ==
    [multisig |-> m, creator |-> o, final_hash |-> hash, final_size |-> size,
     written |-> Len(chunk), region |-> CopyInto(Zeros(size), 0, chunk),
     serial |-> uploads + 1, sent |-> chunk]

\* buffer_create: an owner who may propose; the first chunk may be empty.
BufferCreate(m, o, index, hash, size, chunk) ==
    /\ frame = NoFrame
    /\ uploads < MaxUploads
    /\ m \in DOMAIN multisig
    /\ <<m, o, index>> \notin DOMAIN buffer
    /\ size <= MAX_MESSAGE_SIZE
    /\ Len(chunk) <= size
    /\ HasPermission(multisig[m], o, INITIATE)
    /\ BufferInvariant(NewBuffer(m, o, hash, size, chunk))
    /\ buffer' = Put(buffer, <<m, o, index>>, NewBuffer(m, o, hash, size, chunk))
    /\ uploads' = uploads + 1
    /\ UNCHANGED <<vars, funded, converted>>

\* What an extension leaves of the buffer.  The history takes only what the
\* creator sends.
Extended(b, signer, chunk) ==
    [b EXCEPT !.region = CopyInto(@, b.written, chunk),
              !.written = @ + Len(chunk),
              !.sent = IF signer = b.creator THEN @ \o chunk ELSE @]

\* Mutant: anybody may add a chunk.
BufferExtend_AnySigner(id, signer, chunk) ==
    /\ frame = NoFrame
    /\ id \in DOMAIN buffer
    /\ chunk # <<>>
    /\ buffer[id].written + Len(chunk) <= buffer[id].final_size
    /\ buffer' = [buffer EXCEPT ![id] = Extended(buffer[id], signer, chunk)]
    /\ UNCHANGED <<vars, funded, uploads, converted>>

\* Mutant: the end is not compared with the committed length.
BufferExtend_PastEnd(id, signer, chunk) ==
    /\ frame = NoFrame
    /\ id \in DOMAIN buffer
    /\ chunk # <<>>
    /\ buffer[id].creator = signer
    /\ buffer' = [buffer EXCEPT ![id] = Extended(buffer[id], signer, chunk)]
    /\ UNCHANGED <<vars, funded, uploads, converted>>
\* buffer_extend: neither the multisig nor the creator's rights are looked at.
BufferExtend(id, signer, chunk) ==
    /\ frame = NoFrame
    /\ id \in DOMAIN buffer
    /\ chunk # <<>>
    /\ buffer[id].creator = signer
    /\ buffer[id].written + Len(chunk) <= buffer[id].final_size
    /\ BufferInvariant(Extended(buffer[id], signer, chunk))
    /\ buffer' = [buffer EXCEPT ![id] = Extended(buffer[id], signer, chunk)]
    /\ UNCHANGED <<vars, funded, uploads, converted>>

BufferClose(id, signer) ==
    /\ frame = NoFrame
    /\ id \in DOMAIN buffer
    /\ buffer[id].creator = signer
    /\ buffer' = Without(buffer, id)
    /\ UNCHANGED <<vars, funded, uploads, converted>>

NextId(m) == <<m, multisig[m].transaction_index + 1>>

\* Mutant: the right to propose, tested when the buffer was made, is not tested
\* again.
CreateFromBuffer_Trusting(id, m, signer) ==
    /\ frame = NoFrame
    /\ m \in DOMAIN multisig
    /\ id \in DOMAIN buffer
    /\ buffer[id].creator = signer
    /\ buffer[id].multisig = m
    /\ IsComplete(buffer[id])
    /\ buffer[id].region = buffer[id].final_hash
    /\ buffer[id].region \in DOMAIN Compiled
    /\ NextId(m) \notin funded \cup DOMAIN transaction
    /\ multisig[m].transaction_index < MAX_INDEX
    /\ LET t == NewTransaction(m, multisig[m], signer, Compiled[buffer[id].region])
       IN  transaction' = Put(transaction, NextId(m), t)
    /\ ballot' = Put(ballot, NextId(m), NewBallot(multisig[m]))
    /\ multisig' = [multisig EXCEPT ![m].transaction_index = @ + 1]
    /\ buffer' = Without(buffer, id)
    /\ converted' = converted \cup {<<buffer[id].serial, NextId(m)>>}
    /\ UNCHANGED <<frame, clock, created, misread, miscount, funded, uploads>>

\* Mutant: the buffer is left in place.
CreateFromBuffer_Kept(id, m, signer) ==
    /\ m \in DOMAIN multisig
    /\ id \in DOMAIN buffer
    /\ buffer[id].creator = signer
    /\ buffer[id].multisig = m
    /\ IsComplete(buffer[id])
    /\ buffer[id].region = buffer[id].final_hash
    /\ buffer[id].region \in DOMAIN Compiled
    /\ NextId(m) \notin funded
    /\ CreateTransaction(m, signer, Compiled[buffer[id].region])
    /\ converted' = converted \cup {<<buffer[id].serial, NextId(m)>>}
    /\ UNCHANGED <<buffer, funded, uploads>>
\* create_from_buffer: the content committed to, all of it, goes through the
\* same init_proposal as create_transaction, and the buffer is closed.
CreateFromBuffer(id, m, signer) ==
    /\ m \in DOMAIN multisig
    /\ id \in DOMAIN buffer
    /\ buffer[id].creator = signer
    /\ buffer[id].multisig = m
    /\ IsComplete(buffer[id])
    /\ buffer[id].region = buffer[id].final_hash
    /\ buffer[id].region \in DOMAIN Compiled
    /\ NextId(m) \notin funded
    /\ CreateTransaction(m, signer, Compiled[buffer[id].region])
    /\ buffer' = Without(buffer, id)
    /\ converted' = converted \cup {<<buffer[id].serial, NextId(m)>>}
    /\ UNCHANGED <<funded, uploads>>

\* close_transaction given a buffer for a proposal.  The two headers have the
\* same length: final_size is read as the length of the message, the hash as
\* the counts, the low byte of `written` as the status.  Without owners there
\* are no bitmaps and the lengths agree; that no proposal is without owners is
\* not asked here.
ReadStatus(b) ==
    LET byte == b.written % 256
    IN  CASE byte = 0 -> "Active"    [] byte = 1 -> "Approved"
          [] byte = 2 -> "Rejected"  [] byte = 3 -> "Executed"
          [] byte = 4 -> "Cancelled" [] OTHER -> Err

CloseTransactionOnBuffer(m, id, destination) ==
    /\ CloseOther(m)
    /\ id \in DOMAIN buffer
    /\ buffer[id].final_hash \in NoOwnerHashes
    /\ buffer[id].multisig = m
    /\ destination = RentDestination(multisig[m], buffer[id])
    /\ ReadStatus(buffer[id]) \in Terminal
    /\ buffer' = Without(buffer, id)
    /\ UNCHANGED <<funded, uploads, converted>>

\* Anybody may send lamports to the address of a proposal not made yet.
Deposit(id) ==
    /\ frame = NoFrame
    /\ id \notin DOMAIN transaction
    /\ funded' = funded \cup {id}
    /\ UNCHANGED <<vars, buffer, uploads, converted>>

\* Mutant: an address counts as free when it holds no data.
AddressFree_DataOnly == TRUE
\* A proposal's account is created where there is neither data nor lamports.
AddressFree == (DOMAIN transaction' \ DOMAIN transaction) \cap funded = {}

\* A step of Multisig that has no part in the buffers.
MultisigStep ==
    /\ Step \/ \E m \in Keys, g \in Genesis : InitMultisig(m, g)
    /\ AddressFree
    /\ UNCHANGED bufferVars

BufferStep ==
    \/ \E m \in Keys, o \in Address, index \in BufferIndexes, hash \in Commitments,
          size \in 0..MAX_MESSAGE_SIZE, chunk \in Contents :
          BufferCreate(m, o, index, hash, size, chunk)
    \/ \E id \in DOMAIN buffer, signer \in Address :
          \/ \E chunk \in Contents : BufferExtend(id, signer, chunk)
          \/ BufferClose(id, signer)
          \/ \E m \in Keys : CreateFromBuffer(id, m, signer)
          \/ \E m \in Keys : CloseTransactionOnBuffer(m, id, signer)
    \/ \E id \in Keys \X (1..MAX_INDEX) : Deposit(id)

BufferNext == MultisigStep \/ BufferStep
BufferSpec == BufferInit /\ [][BufferNext]_allVars

(***************************************************************************)
(* Properties.                                                             *)
(***************************************************************************)
\* Buffers are well formed; neither what is stored nor what was sent exceeds
\* the largest message.
BufferTypeOK ==
    /\ DOMAIN buffer \subseteq BufferIds
    /\ \A id \in DOMAIN buffer : buffer[id] \in TransactionBuffer
    /\ funded \subseteq Ids
    /\ uploads \in 0..MaxUploads
    /\ converted \subseteq (1..uploads) \X Ids

\* A buffer holds what its creator sent, in the order it was sent, and zeros
\* behind it, whoever else called and whatever became of the multisig.
UploadIntact ==
    \A id \in DOMAIN buffer :
        LET b == buffer[id]
        IN  /\ b.written = Len(b.sent)
            /\ b.region = CopyInto(Zeros(b.final_size), 0, b.sent)

\* What becomes a proposal is the content the creator committed to before the
\* first chunk, all of it sent by the creator, under the creator's name and
\* for the multisig the buffer was made for.
CommittedBecomesProposal ==
    [][\A x \in converted' \ converted :
          \E id \in DOMAIN buffer :
              LET b == buffer[id]
                  t == transaction'[x[2]]
              IN  /\ b.serial = x[1]
                  /\ b.sent = b.final_hash
                  /\ t.message = Compiled[b.final_hash]
                  /\ t.creator = b.creator
                  /\ t.multisig = b.multisig]_allVars

\* An upload becomes one proposal at most, and is over when it has.
OneProposalPerUpload ==
    /\ \A x, y \in converted : x[1] = y[1] => x = y
    /\ \A x \in converted, id \in DOMAIN buffer : buffer[id].serial # x[1]

\* Whoever makes a proposal may propose at that moment, although the buffer it
\* comes from may be older than the loss of that right, or than the multisig
\* that now lives at the address.
ProposedByRight ==
    [][\A id \in DOMAIN transaction' \ DOMAIN transaction :
          LET t == transaction'[id]
          IN  /\ t.multisig \in DOMAIN multisig
              /\ HasPermission(multisig[t.multisig], t.creator, INITIATE)]_allVars

\* An address names one proposal as long as it lives: of two calls prepared for
\* the same next index, or by two multisigs made from one create key, the
\* second never replaces what owners are voting on.  Only its own creator can
\* change it, by having it written as a multisig.
ContentFixed ==
    [][\A id \in (DOMAIN transaction \cap DOMAIN transaction') \ misread' :
          /\ transaction'[id].message = transaction[id].message
          /\ transaction'[id].creator = transaction[id].creator
          /\ ballot'[id].config = ballot[id].config]_allVars

\* A deposit at the address of the next proposal stops the counter there for as
\* long as the multisig lives: an address that holds lamports counts as in use
\* and the index cannot step over it.
FundedIndexBlocks ==
    [][\A m \in DOMAIN multisig \cap DOMAIN multisig' :
          NextId(m) \in funded =>
              multisig'[m].transaction_index = multisig[m].transaction_index]_allVars
=============================================================================
