---------------------------- MODULE BufferProofs ----------------------------
(***************************************************************************)
(* Theorems about chunked uploads, for every instance: a buffer holds what *)
(* its creator sent, an upload becomes one proposal at most and with the   *)
(* content committed to, and the composed system is a Multisig whose       *)
(* create keys may be used again, and which may count a buffer as a closed *)
(* proposal.                                                               *)
(***************************************************************************)
EXTENDS Buffer, BallotProofs

(***************************************************************************)
(* Contents.                                                               *)
(***************************************************************************)
\* Contents are the sequences of cells that are not too long.
LEMMA ContentsAreSeqs ==
    ASSUME NEW s
    PROVE  s \in Contents <=> s \in Seq(Cell) /\ Len(s) <= MAX_MESSAGE_SIZE
<1>0. MAX_MESSAGE_SIZE \in Nat
  BY UploadAssumption
<1>1. ASSUME s \in Contents PROVE s \in Seq(Cell) /\ Len(s) <= MAX_MESSAGE_SIZE
  <2>1. PICK n \in 0..MAX_MESSAGE_SIZE : s \in [1..n -> Cell]
    BY <1>1 DEF Contents, Content
  <2>2. s \in Seq(Cell) /\ Len(s) = n
    BY <1>0, <2>1
  <2> QED BY <1>0, <2>1, <2>2
<1>2. ASSUME s \in Seq(Cell), Len(s) <= MAX_MESSAGE_SIZE PROVE s \in Contents
  <2>1. Len(s) \in 0..MAX_MESSAGE_SIZE /\ s \in [1..Len(s) -> Cell]
    BY <1>0, <1>2
  <2> QED BY <2>1 DEF Contents, Content
<1> QED BY <1>1, <1>2

\* Copying a chunk keeps the region's length and puts only cells into it.
LEMMA CopyType ==
    ASSUME NEW n \in Nat, NEW region \in [1..n -> Cell], NEW at \in Nat, NEW chunk \in Seq(Cell)
    PROVE  CopyInto(region, at, chunk) \in [1..n -> Cell]
<1>1. DOMAIN chunk = 1..Len(chunk) /\ \A i \in DOMAIN chunk : chunk[i] \in Cell
  OBVIOUS
<1>2. DOMAIN region = 1..n
  OBVIOUS
<1> QED BY <1>1, <1>2 DEF CopyInto

\* Copying a chunk behind what was sent is sending both at once.
LEMMA CopyAppends ==
    ASSUME NEW n \in Nat, NEW sent \in Seq(Cell), NEW chunk \in Seq(Cell)
    PROVE  CopyInto(CopyInto(Zeros(n), 0, sent), Len(sent), chunk)
              = CopyInto(Zeros(n), 0, sent \o chunk)
<1> DEFINE one == CopyInto(Zeros(n), 0, sent)
           two == CopyInto(one, Len(sent), chunk)
           all == CopyInto(Zeros(n), 0, sent \o chunk)
<1>1. /\ DOMAIN sent = 1..Len(sent) /\ DOMAIN chunk = 1..Len(chunk)
      /\ Len(sent) \in Nat /\ Len(chunk) \in Nat
      /\ DOMAIN (sent \o chunk) = 1..(Len(sent) + Len(chunk))
  OBVIOUS
<1>2. \A i \in 1..(Len(sent) + Len(chunk)) :
         (sent \o chunk)[i] = IF i <= Len(sent) THEN sent[i] ELSE chunk[i - Len(sent)]
  OBVIOUS
<1>3. one = [i \in 1..n |-> IF i - 0 \in DOMAIN sent THEN sent[i - 0] ELSE 0]
  BY DEF CopyInto, Zeros
<1>4. two = [i \in 1..n |-> IF i - Len(sent) \in DOMAIN chunk THEN chunk[i - Len(sent)]
                            ELSE one[i]]
  BY <1>3 DEF CopyInto
<1>5. all = [i \in 1..n |-> IF i - 0 \in DOMAIN (sent \o chunk) THEN (sent \o chunk)[i - 0] ELSE 0]
  BY DEF CopyInto, Zeros
<1> HIDE DEF one, two, all
<1>6. ASSUME NEW i \in 1..n PROVE two[i] = all[i]
  <2>0. i - 0 = i /\ i \in Nat /\ i > 0
    OBVIOUS
  <2>1. one[i] = IF i \in DOMAIN sent THEN sent[i] ELSE 0
    BY <1>3, <2>0
  <2>2. all[i] = IF i \in DOMAIN (sent \o chunk) THEN (sent \o chunk)[i] ELSE 0
    BY <1>5, <2>0
  <2>3. CASE i <= Len(sent)
    <3>1. i - Len(sent) \notin DOMAIN chunk /\ i \in DOMAIN sent /\ i \in DOMAIN (sent \o chunk)
      BY <1>1, <2>0, <2>3
    <3> QED BY <1>1, <1>2, <1>4, <2>1, <2>2, <2>3, <3>1
  <2>4. CASE i > Len(sent) /\ i <= Len(sent) + Len(chunk)
    <3>1. i - Len(sent) \in DOMAIN chunk /\ i \in DOMAIN (sent \o chunk) /\ ~(i <= Len(sent))
      BY <1>1, <2>0, <2>4
    <3> QED BY <1>1, <1>2, <1>4, <2>2, <3>1
  <2>5. CASE i > Len(sent) + Len(chunk)
    <3>1. i - Len(sent) \notin DOMAIN chunk /\ i \notin DOMAIN sent
          /\ i \notin DOMAIN (sent \o chunk)
      BY <1>1, <2>0, <2>5
    <3> QED BY <1>4, <2>1, <2>2, <3>1
  <2> QED BY <1>1, <2>0, <2>3, <2>4, <2>5
<1>7. two = all
  BY <1>4, <1>5, <1>6
<1> QED BY <1>7 DEF one, two, all

\* A region of which everything was sent is what was sent.
LEMMA CopyAll ==
    ASSUME NEW sent \in Seq(Cell)
    PROVE  CopyInto(Zeros(Len(sent)), 0, sent) = sent
<1>1. DOMAIN sent = 1..Len(sent) /\ Len(sent) \in Nat
  OBVIOUS
<1>2. CopyInto(Zeros(Len(sent)), 0, sent)
         = [i \in 1..Len(sent) |-> IF i - 0 \in DOMAIN sent THEN sent[i - 0] ELSE 0]
  BY DEF CopyInto, Zeros
<1>3. CopyInto(Zeros(Len(sent)), 0, sent) = [i \in 1..Len(sent) |-> sent[i]]
  BY <1>1, <1>2
<1> QED BY <1>1, <1>3

(***************************************************************************)
(* The composition.                                                        *)
(***************************************************************************)
\* A proposal made of a buffer is made by create_transaction, with a message
\* that is one.
LEMMA FromBufferCreates ==
    ASSUME NEW id \in DOMAIN buffer, NEW m \in Keys, NEW signer \in Address,
           CreateFromBuffer(id, m, signer)
    PROVE  /\ Compiled[buffer[id].region] \in Messages
           /\ CreateTransaction(m, signer, Compiled[buffer[id].region])
           /\ ReuseNext
<1>1. CreateTransaction(m, signer, Compiled[buffer[id].region])
  BY DEF CreateFromBuffer
<1>2. Compiled[buffer[id].region] \in Messages
  BY CompiledAssumption DEF CreateFromBuffer, Range
<1> QED BY <1>1, <1>2 DEF ReuseNext, Step

\* The steps by what they do to the multisigs and proposals.
LEMMA BufferSteps ==
    ASSUME BufferNext
    PROVE  \/ UNCHANGED vars
           \/ MultisigStep
           \/ \E id \in DOMAIN buffer, m \in Keys, signer \in Address :
                 CreateFromBuffer(id, m, signer) \/ CloseTransactionOnBuffer(m, id, signer)
<1>1. \A m, o, index, hash, size, chunk :
         BufferCreate(m, o, index, hash, size, chunk) => UNCHANGED vars
  BY DEF BufferCreate
<1>2. \A id, signer, chunk : BufferExtend(id, signer, chunk) => UNCHANGED vars
  BY DEF BufferExtend
<1>3. \A id, signer : BufferClose(id, signer) => UNCHANGED vars
  BY DEF BufferClose
<1>4. \A id : Deposit(id) => UNCHANGED vars
  BY DEF Deposit
<1> QED BY <1>1, <1>2, <1>3, <1>4 DEF BufferNext, BufferStep

\* Every step of the composed system is a step of Multisig or leaves it alone.
LEMMA BufferSimulates ==
    ASSUME BufferNext PROVE ReuseNext \/ UNCHANGED vars
<1>1. ASSUME NEW id \in DOMAIN buffer, NEW m \in Keys, NEW signer \in Address,
             CreateFromBuffer(id, m, signer)
      PROVE  ReuseNext
  BY <1>1, FromBufferCreates
<1>2. ASSUME NEW id \in DOMAIN buffer, NEW m \in Keys, NEW signer \in Address,
             CloseTransactionOnBuffer(m, id, signer)
      PROVE  ReuseNext
  BY <1>2 DEF CloseTransactionOnBuffer, ReuseNext
<1>3. MultisigStep => ReuseNext
  BY DEF MultisigStep, ReuseNext
<1> QED BY <1>1, <1>2, <1>3, BufferSteps

\* Uploads do to multisigs and proposals what Multisig says and nothing else:
\* the composed system, in which a buffer may be closed as a proposal,
\* implements Multisig with create keys that may sign again.  The count that
\* such a close falsifies is all it touches (CloseOther).
THEOREM UploadsConservative == BufferSpec => ReuseSpec
<1>1. BufferInit => Init
  BY DEF BufferInit
<1>2. [BufferNext]_allVars => [ReuseNext]_vars
  BY BufferSimulates DEF allVars, vars
<1> QED BY <1>1, <1>2, PTL DEF BufferSpec, ReuseSpec

\* So every state of the composed system is well formed and counts its voters
\* exactly, whatever create keys sign and whatever is uploaded.
THEOREM ComposedVotersCounted == BufferSpec => [](TypeOK /\ VoterCountExact)
<1> DEFINE I == TypeOK /\ VoterCountExact
<1>1. Init => I
  BY DEF Init, TypeOK, VoterCountExact
<1>2. I /\ [ReuseNext]_vars => I'
  <2>1. ASSUME I, ReuseNext PROVE I'
    BY <2>1, TypeStep, VoterCountStep
  <2>2. ASSUME I, UNCHANGED vars PROVE I'
    <3>1. TypeOK'
      BY <2>2 DEF vars, TypeOK
    <3>2. VoterCountExact'
      BY <2>2 DEF vars, VoterCountExact, CountsVoters, Voters
    <3> QED BY <3>1, <3>2
  <2> QED BY <2>1, <2>2
<1> HIDE DEF I
<1>3. ReuseSpec => []I
  BY <1>1, <1>2, PTL DEF ReuseSpec
<1> QED BY <1>3, UploadsConservative, PTL DEF I

(***************************************************************************)
(* The buffers.                                                            *)
(***************************************************************************)
\* UploadIntact of one buffer, and its header check.
Intact(b) ==
    /\ BufferInvariant(b)
    /\ b.written = Len(b.sent)
    /\ b.region = CopyInto(Zeros(b.final_size), 0, b.sent)

\* Every live buffer is a different upload.
Numbered ==
    /\ \A id \in DOMAIN buffer : buffer[id].serial \in 1..uploads
    /\ \A i, j \in DOMAIN buffer : buffer[i].serial = buffer[j].serial => i = j

UploadInv ==
    /\ TypeOK
    /\ BufferTypeOK
    /\ \A id \in DOMAIN buffer : Intact(buffer[id])
    /\ Numbered
    /\ OneProposalPerUpload

LEMMA ZerosType ==
    ASSUME NEW n \in Nat PROVE Zeros(n) \in [1..n -> Cell]
BY CompiledAssumption DEF Zeros

\* What buffer_create leaves.
LEMMA NewIntact ==
    ASSUME NEW m \in Keys, NEW o \in Address, NEW hash \in Commitments,
           NEW size \in 0..MAX_MESSAGE_SIZE, NEW chunk \in Contents, uploads \in Nat,
           Len(chunk) <= size
    PROVE  /\ NewBuffer(m, o, hash, size, chunk) \in TransactionBuffer
           /\ Intact(NewBuffer(m, o, hash, size, chunk))
<1> DEFINE b == NewBuffer(m, o, hash, size, chunk)
           r == CopyInto(Zeros(size), 0, chunk)
<1>1. /\ chunk \in Seq(Cell) /\ Len(chunk) \in Nat
      /\ size \in Nat /\ size <= MAX_MESSAGE_SIZE
  BY ContentsAreSeqs, UploadAssumption
<1>2. r \in [1..size -> Cell]
  BY <1>1, ZerosType, CopyType
<1>3. r \in Contents
  BY <1>2 DEF Contents, Content
<1>4. hash \in Seq(Cell)
  BY CompiledAssumption
<1>5. b = [multisig |-> m, creator |-> o, final_hash |-> hash, final_size |-> size,
           written |-> Len(chunk), region |-> r, serial |-> uploads + 1, sent |-> chunk]
  BY DEF NewBuffer
<1> HIDE DEF r
<1>6. b \in TransactionBuffer
  BY <1>1, <1>3, <1>4, <1>5 DEF TransactionBuffer
<1>7. /\ b.final_size = size /\ b.written = Len(chunk) /\ b.sent = chunk /\ b.region = r
  BY <1>5
<1> HIDE DEF b
<1>8. Intact(b)
  BY <1>1, <1>7 DEF Intact, BufferInvariant, r
<1> QED BY <1>6, <1>8 DEF b

\* What buffer_extend leaves: the creator's chunk behind the creator's others.
LEMMA ExtendIntact ==
    ASSUME NEW b \in TransactionBuffer, Intact(b), NEW signer, signer = b.creator,
           NEW chunk \in Contents, b.written + Len(chunk) <= b.final_size
    PROVE  /\ Extended(b, signer, chunk) \in TransactionBuffer
           /\ Intact(Extended(b, signer, chunk))
           /\ Extended(b, signer, chunk).serial = b.serial
<1> DEFINE e == Extended(b, signer, chunk)
           r == CopyInto(b.region, b.written, chunk)
           s == b.sent \o chunk
           w == b.written + Len(chunk)
<1>1. /\ chunk \in Seq(Cell) /\ Len(chunk) \in Nat
      /\ b.sent \in Seq(Cell) /\ Len(b.sent) \in Nat
      /\ b.final_size \in Nat /\ MAX_MESSAGE_SIZE \in Nat
      /\ b.final_size <= MAX_MESSAGE_SIZE /\ b.written = Len(b.sent)
      /\ b.region = CopyInto(Zeros(b.final_size), 0, b.sent)
  BY ContentsAreSeqs, UploadAssumption DEF TransactionBuffer, Intact, BufferInvariant
<1>2. r = CopyInto(Zeros(b.final_size), 0, s)
  BY <1>1, CopyAppends
<1>3. s \in Seq(Cell) /\ Len(s) = w /\ w \in Nat /\ w <= MAX_MESSAGE_SIZE
  BY <1>1
<1>4. s \in Contents
  BY <1>3, ContentsAreSeqs
<1>5. r \in [1..b.final_size -> Cell]
  BY <1>1, <1>2, <1>3, ZerosType, CopyType
<1>6. r \in Contents
  <2>1. b.final_size \in 0..MAX_MESSAGE_SIZE
    BY <1>1
  <2> QED BY <1>5, <2>1 DEF Contents, Content
<1>7. e = [b EXCEPT !.region = r, !.written = w, !.sent = s]
  BY DEF Extended
<1> HIDE DEF r, s, w, e
<1>8. e \in TransactionBuffer
  BY <1>3, <1>4, <1>6, <1>7 DEF TransactionBuffer
<1>9. /\ e.region = r /\ e.written = w /\ e.sent = s
      /\ e.final_size = b.final_size /\ e.serial = b.serial
  BY <1>7 DEF TransactionBuffer
<1>10. Intact(e)
  BY <1>1, <1>2, <1>3, <1>9 DEF Intact, BufferInvariant, w
<1> QED BY <1>8, <1>9, <1>10 DEF e

LEMMA UploadStep ==
    ASSUME UploadInv, BufferNext PROVE UploadInv'
<1>0. TypeOK /\ BufferTypeOK /\ Numbered /\ OneProposalPerUpload /\ uploads \in Nat
      /\ MaxUploads \in Nat /\ \A id \in DOMAIN buffer : Intact(buffer[id])
  BY UploadAssumption DEF UploadInv, BufferTypeOK
<1>1. TypeOK'
  <2>1. UNCHANGED vars => TypeOK'
    BY <1>0 DEF vars, TypeOK
  <2> QED BY <1>0, <2>1, BufferSimulates, TypeStep
<1>2. CASE MultisigStep
  <2>1. UNCHANGED <<buffer, uploads, converted, funded>>
    BY <1>2 DEF MultisigStep, bufferVars
  <2>2. BufferTypeOK' /\ Numbered' /\ OneProposalPerUpload'
    BY <1>0, <2>1 DEF BufferTypeOK, Numbered, OneProposalPerUpload
  <2> QED BY <1>0, <1>1, <2>1, <2>2 DEF UploadInv
<1>3. ASSUME NEW m \in Keys, NEW o \in Address, NEW index \in BufferIndexes,
             NEW hash \in Commitments, NEW size \in 0..MAX_MESSAGE_SIZE,
             NEW chunk \in Contents, BufferCreate(m, o, index, hash, size, chunk)
      PROVE  UploadInv'
  <2> DEFINE id == <<m, o, index>>
             b == NewBuffer(m, o, hash, size, chunk)
  <2>1. /\ id \notin DOMAIN buffer /\ Len(chunk) <= size /\ uploads < MaxUploads
        /\ buffer' = Put(buffer, id, b) /\ uploads' = uploads + 1
        /\ UNCHANGED <<funded, converted>>
    BY <1>3 DEF BufferCreate
  <2>2. b \in TransactionBuffer /\ Intact(b)
    BY <1>0, <2>1, NewIntact
  <2>3. b.serial = uploads + 1
    BY DEF NewBuffer
  <2>4. id \in BufferIds
    BY DEF BufferIds
  <2> HIDE DEF id, b
  <2>5. /\ DOMAIN buffer' = DOMAIN buffer \cup {id} /\ buffer'[id] = b
        /\ \A x \in DOMAIN buffer : buffer'[x] = buffer[x] /\ x # id
    BY <2>1 DEF Put
  <2>6. BufferTypeOK'
    <3>1. uploads' \in 0..MaxUploads
      BY <1>0, <2>1
    <3>2. converted' \subseteq (1..uploads') \X Ids
      <4>1. 1..uploads \subseteq 1..uploads'
        BY <1>0, <2>1
      <4> QED BY <1>0, <2>1, <4>1 DEF BufferTypeOK
    <3> QED BY <1>0, <2>1, <2>2, <2>4, <2>5, <3>1, <3>2 DEF BufferTypeOK
  <2>7. /\ \A x \in DOMAIN buffer : buffer[x].serial \in 1..uploads /\ buffer[x].serial # b.serial
        /\ \A x \in converted : x[1] \in 1..uploads /\ x[1] # b.serial
    BY <1>0, <2>3 DEF Numbered, BufferTypeOK
  <2>8. Numbered'
    <3>1. b.serial \in 1..uploads' /\ \A k \in 1..uploads : k \in 1..uploads'
      BY <1>0, <2>1, <2>3
    <3> QED BY <1>0, <2>5, <2>7, <3>1 DEF Numbered
  <2>9. OneProposalPerUpload'
    BY <1>0, <2>1, <2>5, <2>7 DEF OneProposalPerUpload
  <2> QED BY <1>0, <1>1, <2>2, <2>5, <2>6, <2>8, <2>9 DEF UploadInv
<1>4. ASSUME NEW id \in DOMAIN buffer, NEW signer \in Address, NEW chunk \in Contents,
             BufferExtend(id, signer, chunk)
      PROVE  UploadInv'
  <2> DEFINE e == Extended(buffer[id], signer, chunk)
  <2>1. /\ signer = buffer[id].creator
        /\ buffer[id].written + Len(chunk) <= buffer[id].final_size
        /\ buffer' = [buffer EXCEPT ![id] = e] /\ UNCHANGED <<funded, uploads, converted>>
    BY <1>4 DEF BufferExtend
  <2>2. e \in TransactionBuffer /\ Intact(e) /\ e.serial = buffer[id].serial
    <3>1. buffer[id] \in TransactionBuffer /\ Intact(buffer[id])
      BY <1>0 DEF BufferTypeOK
    <3> QED BY <2>1, <3>1, ExtendIntact
  <2> HIDE DEF e
  <2>3. /\ DOMAIN buffer' = DOMAIN buffer /\ buffer'[id] = e
        /\ \A x \in DOMAIN buffer : buffer'[x] # buffer[x] => x = id
        /\ \A x \in DOMAIN buffer : buffer'[x].serial = buffer[x].serial
    BY <2>1, <2>2
  <2>4. BufferTypeOK'
    <3>1. \A x \in DOMAIN buffer : buffer'[x] \in TransactionBuffer
      BY <1>0, <2>2, <2>3 DEF BufferTypeOK
    <3> QED BY <1>0, <2>1, <2>3, <3>1 DEF BufferTypeOK
  <2>5. \A x \in DOMAIN buffer : Intact(buffer'[x])
    BY <1>0, <2>2, <2>3
  <2>6. Numbered' /\ OneProposalPerUpload'
    BY <1>0, <2>1, <2>3 DEF Numbered, OneProposalPerUpload
  <2> QED BY <1>1, <2>3, <2>4, <2>5, <2>6 DEF UploadInv
<1>5. ASSUME NEW id \in DOMAIN buffer, NEW signer \in Address, BufferClose(id, signer)
      PROVE  UploadInv'
  <2>1. buffer' = Without(buffer, id) /\ UNCHANGED <<funded, uploads, converted>>
    BY <1>5 DEF BufferClose
  <2>2. /\ DOMAIN buffer' = DOMAIN buffer \ {id}
        /\ \A x \in DOMAIN buffer' : x \in DOMAIN buffer /\ buffer'[x] = buffer[x]
    BY <2>1 DEF Without, Restrict
  <2>3. BufferTypeOK' /\ Numbered' /\ OneProposalPerUpload'
    BY <1>0, <2>1, <2>2 DEF BufferTypeOK, Numbered, OneProposalPerUpload
  <2> QED BY <1>0, <1>1, <2>2, <2>3 DEF UploadInv
<1>6. ASSUME NEW id \in DOMAIN buffer, NEW m \in Keys, NEW signer \in Address,
             CreateFromBuffer(id, m, signer)
      PROVE  UploadInv'
  <2> DEFINE k == buffer[id].serial
             x == <<k, NextId(m)>>
  <2>1. /\ m \in DOMAIN multisig /\ buffer' = Without(buffer, id)
        /\ converted' = converted \cup {x} /\ UNCHANGED <<funded, uploads>>
    BY <1>6 DEF CreateFromBuffer
  <2>2. /\ DOMAIN buffer' = DOMAIN buffer \ {id}
        /\ \A y \in DOMAIN buffer' : y \in DOMAIN buffer /\ y # id /\ buffer'[y] = buffer[y]
    BY <2>1 DEF Without, Restrict
  <2>3. x \in (1..uploads) \X Ids /\ x[1] = k
    <3>1. NextId(m) \in Ids
      BY <1>0, <2>1 DEF NextId, Ids, TypeOK, Config
    <3> QED BY <1>0, <3>1 DEF Numbered
  <2> HIDE DEF x
  <2>4. BufferTypeOK' /\ Numbered'
    BY <1>0, <2>1, <2>2, <2>3 DEF BufferTypeOK, Numbered
  <2>5. /\ \A y \in converted : y[1] # k
        /\ \A y \in DOMAIN buffer' : buffer'[y].serial # k
    BY <1>0, <2>2 DEF OneProposalPerUpload, Numbered
  <2>6. OneProposalPerUpload'
    BY <1>0, <2>1, <2>2, <2>3, <2>5 DEF OneProposalPerUpload
  <2> QED BY <1>0, <1>1, <2>2, <2>4, <2>6 DEF UploadInv
<1>7. ASSUME NEW id \in Keys \X (1..MAX_INDEX), Deposit(id) PROVE UploadInv'
  <2>1. funded' = funded \cup {id} /\ UNCHANGED <<buffer, uploads, converted>>
    BY <1>7 DEF Deposit
  <2>2. id \in Ids
    BY LimitAssumption DEF Ids
  <2>3. BufferTypeOK' /\ Numbered' /\ OneProposalPerUpload'
    BY <1>0, <2>1, <2>2 DEF BufferTypeOK, Numbered, OneProposalPerUpload
  <2> QED BY <1>0, <1>1, <2>1, <2>3 DEF UploadInv
<1>8. ASSUME NEW m \in Keys, NEW id \in DOMAIN buffer, NEW signer \in Address,
             CloseTransactionOnBuffer(m, id, signer)
      PROVE  UploadInv'
  <2>1. buffer' = Without(buffer, id) /\ UNCHANGED <<funded, uploads, converted>>
    BY <1>8 DEF CloseTransactionOnBuffer
  <2>2. /\ DOMAIN buffer' = DOMAIN buffer \ {id}
        /\ \A x \in DOMAIN buffer' : x \in DOMAIN buffer /\ buffer'[x] = buffer[x]
    BY <2>1 DEF Without, Restrict
  <2>3. BufferTypeOK' /\ Numbered' /\ OneProposalPerUpload'
    BY <1>0, <2>1, <2>2 DEF BufferTypeOK, Numbered, OneProposalPerUpload
  <2> QED BY <1>0, <1>1, <2>2, <2>3 DEF UploadInv
<1> QED BY <1>2, <1>3, <1>4, <1>5, <1>6, <1>7, <1>8 DEF BufferNext, BufferStep

\* The inductive invariant of the uploads.
LEMMA UploadsSound == BufferSpec => []UploadInv
<1>1. BufferInit => UploadInv
  BY UploadAssumption DEF BufferInit, Init, UploadInv, TypeOK, BufferTypeOK, Numbered,
     OneProposalPerUpload
<1>2. UploadInv /\ [BufferNext]_allVars => UploadInv'
  <2>1. ASSUME UploadInv, UNCHANGED allVars PROVE UploadInv'
    BY <2>1 DEF allVars, vars, bufferVars, UploadInv, TypeOK, BufferTypeOK, Numbered,
       OneProposalPerUpload
  <2> QED BY <2>1, UploadStep
<1> QED BY <1>1, <1>2, PTL DEF BufferSpec

\* Buffers are well formed, and neither what is stored nor what was sent
\* exceeds the largest message.
THEOREM BufferTypeCorrect == BufferSpec => []BufferTypeOK
<1>1. UploadInv => BufferTypeOK
  BY DEF UploadInv
<1> QED BY <1>1, UploadsSound, PTL

\* A buffer holds what its creator sent, in order, and zeros behind it.
THEOREM UploadsIntact == BufferSpec => []UploadIntact
<1>1. UploadInv => UploadIntact
  BY DEF UploadInv, Intact, UploadIntact
<1> QED BY <1>1, UploadsSound, PTL

\* An upload becomes one proposal at most, and is over when it has.
THEOREM ConvertedOnce == BufferSpec => []OneProposalPerUpload
<1>1. UploadInv => OneProposalPerUpload
  BY DEF UploadInv
<1> QED BY <1>1, UploadsSound, PTL

(***************************************************************************)
(* What a step may never do.                                               *)
(***************************************************************************)
\* A proposal made of a buffer has the content committed to, all of it sent by
\* the creator, and the creator's name.
LEMMA FromBufferFaithful ==
    ASSUME UploadInv, NEW id \in DOMAIN buffer, NEW m \in Keys, NEW signer \in Address,
           CreateFromBuffer(id, m, signer)
    PROVE  LET b == buffer[id]
               t == transaction'[NextId(m)]
           IN  /\ converted' \ converted \subseteq {<<b.serial, NextId(m)>>}
               /\ b.sent = b.final_hash
               /\ t.message = Compiled[b.final_hash]
               /\ t.creator = b.creator
               /\ t.multisig = b.multisig
<1> DEFINE b == buffer[id]
           c == Compiled[b.region]
<1>1. /\ b.creator = signer /\ b.multisig = m
      /\ b.written = b.final_size /\ b.region = b.final_hash
      /\ converted' = converted \cup {<<b.serial, NextId(m)>>}
  BY DEF CreateFromBuffer, IsComplete
<1>2. b \in TransactionBuffer /\ Intact(b)
  BY DEF UploadInv, BufferTypeOK
<1>3. /\ b.sent \in Seq(Cell) /\ b.final_size = Len(b.sent)
      /\ b.region = CopyInto(Zeros(b.final_size), 0, b.sent)
  BY <1>1, <1>2, ContentsAreSeqs DEF TransactionBuffer, Intact
<1>4. b.sent = b.final_hash
  BY <1>1, <1>3, CopyAll
<1>5. transaction'[NextId(m)] = NewTransaction(m, multisig[m], signer, c)
  <2>1. c \in Messages /\ CreateTransaction(m, signer, c)
    BY FromBufferCreates
  <2>2. TypeOK
    BY DEF UploadInv
  <2> HIDE DEF c
  <2> QED BY <2>1, <2>2, CreateStep DEF NextId
<1>6. /\ transaction'[NextId(m)].message = c /\ transaction'[NextId(m)].creator = signer
      /\ transaction'[NextId(m)].multisig = m
  BY <1>5 DEF NewTransaction
<1> QED BY <1>1, <1>4, <1>6

\* What becomes a proposal is the content its creator committed to before the
\* first chunk, all of it sent by the creator, under the creator's name and
\* for the multisig the buffer was made for.
THEOREM CommittedProposed == BufferSpec => CommittedBecomesProposal
<1> DEFINE Kept ==
       \A x \in converted' \ converted :
          \E id \in DOMAIN buffer :
              LET b == buffer[id]
                  t == transaction'[x[2]]
              IN  /\ b.serial = x[1]
                  /\ b.sent = b.final_hash
                  /\ t.message = Compiled[b.final_hash]
                  /\ t.creator = b.creator
                  /\ t.multisig = b.multisig
<1>1. ASSUME UploadInv, BufferNext PROVE Kept
  <2>1. ASSUME NEW id \in DOMAIN buffer, NEW m \in Keys, NEW signer \in Address,
               CreateFromBuffer(id, m, signer)
        PROVE  Kept
    <3> DEFINE b == buffer[id]
               t == transaction'[NextId(m)]
    <3>1. /\ converted' \ converted \subseteq {<<b.serial, NextId(m)>>}
          /\ b.sent = b.final_hash
          /\ t.message = Compiled[b.final_hash]
          /\ t.creator = b.creator
          /\ t.multisig = b.multisig
      BY <1>1, <2>1, FromBufferFaithful
    <3>2. \A x \in converted' \ converted : x[1] = b.serial /\ x[2] = NextId(m)
      BY <3>1
    <3> QED BY <3>1, <3>2
  <2>2. \A m, o, index, hash, size, chunk :
           BufferCreate(m, o, index, hash, size, chunk) => UNCHANGED converted
    BY DEF BufferCreate
  <2>3. \A id, signer, chunk : BufferExtend(id, signer, chunk) => UNCHANGED converted
    BY DEF BufferExtend
  <2>4. \A id, signer : BufferClose(id, signer) => UNCHANGED converted
    BY DEF BufferClose
  <2>5. \A id : Deposit(id) => UNCHANGED converted
    BY DEF Deposit
  <2>6. MultisigStep => UNCHANGED converted
    BY DEF MultisigStep, bufferVars
  <2>7. UNCHANGED converted => Kept
    OBVIOUS
  <2>8. \A m, id, signer : CloseTransactionOnBuffer(m, id, signer) => UNCHANGED converted
    BY DEF CloseTransactionOnBuffer
  <2> HIDE DEF Kept
  <2> QED BY <1>1, <2>1, <2>2, <2>3, <2>4, <2>5, <2>6, <2>7, <2>8 DEF BufferNext, BufferStep
<1>2. UploadInv /\ [BufferNext]_allVars => [Kept]_allVars
  BY <1>1
<1> QED BY <1>2, UploadsSound, PTL DEF BufferSpec, CommittedBecomesProposal

\* Only create_transaction makes a proposal, and it asks for the right.
LEMMA CreatorMayPropose ==
    ASSUME TypeOK, ReuseNext, NEW id \in DOMAIN transaction' \ DOMAIN transaction
    PROVE  /\ transaction'[id].multisig \in DOMAIN multisig
           /\ HasPermission(multisig[transaction'[id].multisig], transaction'[id].creator, INITIATE)
<1>1. PICK m \in Keys, o \in Address, message \in Messages : CreateTransaction(m, o, message)
  <2>1. \A m, x, o : Approve(m, x, o) \/ Reject(m, x, o) => DOMAIN transaction' = DOMAIN transaction
    BY DEF Approve, Reject
  <2>2. \A m, x, o : CancelActive(m, x, o) \/ CancelApproved(m, x, o) =>
           DOMAIN transaction' = DOMAIN transaction
    BY DEF CancelActive, CancelApproved
  <2>3. \A m, x, o : CloseTransaction(m, x, o) => DOMAIN transaction' \subseteq DOMAIN transaction
    BY DEF CloseTransaction, Without, Restrict
  <2>4. EndExecute => DOMAIN transaction' = DOMAIN transaction
    BY DEF EndExecute
  <2>5. \A x, a, i : SetConfigOnTransaction(x, a, i) \/ SetConfigCloseOnTransaction(x, a, i) =>
           DOMAIN transaction' \subseteq DOMAIN transaction
    BY DEF SetConfigOnTransaction, SetConfigCloseOnTransaction, Without, Restrict
  <2> QED BY <2>1, <2>2, <2>3, <2>4, <2>5, ProposalSteps
<1>2. /\ m \in DOMAIN multisig /\ HasPermission(multisig[m], o, INITIATE)
  BY <1>1 DEF CreateTransaction
<1>3. transaction'[id] = NewTransaction(m, multisig[m], o, message)
  <2> DEFINE new == <<m, multisig[m].transaction_index + 1>>
  <2>1. /\ DOMAIN transaction' = DOMAIN transaction \cup {new}
        /\ transaction'[new] = NewTransaction(m, multisig[m], o, message)
    BY <1>1, CreateStep
  <2> HIDE DEF new
  <2> QED BY <2>1
<1>4. transaction'[id].multisig = m /\ transaction'[id].creator = o
  BY <1>3 DEF NewTransaction
<1> QED BY <1>2, <1>4

\* Whoever makes a proposal, directly or of a buffer however old, may propose
\* at that moment.
THEOREM AllProposedByRight == BufferSpec => ProposedByRight
<1> DEFINE ByRight ==
       \A id \in DOMAIN transaction' \ DOMAIN transaction :
          LET t == transaction'[id]
          IN  /\ t.multisig \in DOMAIN multisig
              /\ HasPermission(multisig[t.multisig], t.creator, INITIATE)
<1>1. ASSUME UploadInv, BufferNext PROVE ByRight
  <2>1. UNCHANGED vars => ByRight
    BY DEF vars
  <2>2. ReuseNext => ByRight
    BY <1>1, CreatorMayPropose DEF UploadInv
  <2> QED BY <1>1, <2>1, <2>2, BufferSimulates
<1>2. UploadInv /\ [BufferNext]_allVars => [ByRight]_allVars
  BY <1>1
<1> QED BY <1>2, UploadsSound, PTL DEF BufferSpec, ProposedByRight

\* A vote and an execution change neither message nor creator.
LEMMA VoteKeepsContent ==
    ASSUME NEW t \in Transaction, NEW c, NEW p
    PROVE  /\ Approved(t, c, p).message = t.message /\ Approved(t, c, p).creator = t.creator
           /\ Rejected(t, c, p).message = t.message /\ Rejected(t, c, p).creator = t.creator
           /\ CancelVoted(t, c, p).message = t.message /\ CancelVoted(t, c, p).creator = t.creator
           /\ \A s : /\ [t EXCEPT !.status = s].message = t.message
                     /\ [t EXCEPT !.status = s].creator = t.creator
<1>1. Approved(t, c, p).message = t.message /\ Approved(t, c, p).creator = t.creator
  BY DEF Approved, LatchApproved, Transaction
<1>2. Rejected(t, c, p).message = t.message /\ Rejected(t, c, p).creator = t.creator
  BY DEF Rejected, Transaction
<1>3. CancelVoted(t, c, p).message = t.message /\ CancelVoted(t, c, p).creator = t.creator
  BY DEF CancelVoted, Transaction
<1>4. \A s : /\ [t EXCEPT !.status = s].message = t.message
             /\ [t EXCEPT !.status = s].creator = t.creator
  BY DEF Transaction
<1> QED BY <1>1, <1>2, <1>3, <1>4

SameContent(id) ==
    /\ transaction'[id].message = transaction[id].message
    /\ transaction'[id].creator = transaction[id].creator
    /\ ballot'[id].config = ballot[id].config

LEMMA ContentStep ==
    ASSUME TypeOK, ReuseNext, NEW id \in (DOMAIN transaction \cap DOMAIN transaction') \ misread'
    PROVE  SameContent(id)
<1>0. /\ DOMAIN ballot = DOMAIN transaction
      /\ \A x \in DOMAIN transaction : transaction[x] \in Transaction /\ ballot[x] \in Ballot
  BY DEF TypeOK
<1>1. CASE UNCHANGED <<transaction, ballot, misread>>
  BY <1>1 DEF SameContent
<1>2. ASSUME NEW m \in Keys, NEW o \in Address, NEW message \in Messages,
             CreateTransaction(m, o, message)
      PROVE  SameContent(id)
  <2>1. transaction'[id] = transaction[id] /\ ballot'[id] = ballot[id]
    BY <1>2, CreateStep
  <2> QED BY <2>1 DEF SameContent
<1>3. ASSUME NEW m \in Keys, NEW x \in DOMAIN transaction, NEW o \in Address, Approve(m, x, o)
      PROVE  SameContent(id)
  <2> DEFINE u == Approved(transaction[x], multisig[m], Position(multisig[m].owners, o))
  <2>1. transaction' = [transaction EXCEPT ![x] = u]
    BY <1>3 DEF Approve
  <2>2. u.message = transaction[x].message /\ u.creator = transaction[x].creator
    BY <1>0, VoteKeepsContent
  <2>3. ballot'[id].config = ballot[id].config
    BY <1>0, <1>3 DEF Approve, Ballot
  <2> HIDE DEF u
  <2> QED BY <2>1, <2>2, <2>3 DEF SameContent
<1>4. ASSUME NEW m \in Keys, NEW x \in DOMAIN transaction, NEW o \in Address, Reject(m, x, o)
      PROVE  SameContent(id)
  <2> DEFINE u == Rejected(transaction[x], multisig[m], Position(multisig[m].owners, o))
  <2>1. transaction' = [transaction EXCEPT ![x] = u]
    BY <1>4 DEF Reject
  <2>2. u.message = transaction[x].message /\ u.creator = transaction[x].creator
    BY <1>0, VoteKeepsContent
  <2>3. ballot'[id].config = ballot[id].config
    BY <1>0, <1>4 DEF Reject, Ballot
  <2> HIDE DEF u
  <2> QED BY <2>1, <2>2, <2>3 DEF SameContent
<1>5. ASSUME NEW m \in Keys, NEW x \in DOMAIN transaction, NEW o \in Address, CancelApproved(m, x, o)
      PROVE  SameContent(id)
  <2> DEFINE u == CancelVoted(transaction[x], multisig[m], Position(multisig[m].owners, o))
  <2>1. transaction' = [transaction EXCEPT ![x] = u]
    BY <1>5 DEF CancelApproved
  <2>2. u.message = transaction[x].message /\ u.creator = transaction[x].creator
    BY <1>0, VoteKeepsContent
  <2>3. ballot'[id].config = ballot[id].config
    BY <1>0, <1>5 DEF CancelApproved, Ballot
  <2> HIDE DEF u
  <2> QED BY <2>1, <2>2, <2>3 DEF SameContent
<1>6. ASSUME NEW x, NEW s, UNCHANGED ballot,
             transaction' = [transaction EXCEPT ![x].status = s]
      PROVE  SameContent(id)
  <2>1. \/ transaction'[id] = transaction[id]
        \/ transaction'[id] = [transaction[id] EXCEPT !.status = s]
    BY <1>6
  <2>2. /\ [transaction[id] EXCEPT !.status = s].message = transaction[id].message
        /\ [transaction[id] EXCEPT !.status = s].creator = transaction[id].creator
    BY <1>0, VoteKeepsContent
  <2> QED BY <1>6, <2>1, <2>2 DEF SameContent
<1>7. ASSUME NEW m \in Keys, NEW x \in DOMAIN transaction, NEW o \in Address,
             CancelActive(m, x, o)
      PROVE  SameContent(id)
  BY <1>6, <1>7 DEF CancelActive
<1>8. CASE EndExecute
  BY <1>6, <1>8 DEF EndExecute
<1>9. ASSUME NEW m \in Keys, NEW x \in DOMAIN transaction, NEW o \in Address,
             CloseTransaction(m, x, o)
      PROVE  SameContent(id)
  <2>1. transaction'[id] = transaction[id] /\ ballot'[id] = ballot[id]
    BY <1>0, <1>9 DEF CloseTransaction, Without, Restrict
  <2> QED BY <2>1 DEF SameContent
<1>10. ASSUME NEW x \in DOMAIN transaction, NEW a \in Address, NEW i \in AuthorityActions,
              SetConfigOnTransaction(x, a, i) \/ SetConfigCloseOnTransaction(x, a, i)
       PROVE  SameContent(id)
  <2>1. transaction'[id] = transaction[id] /\ ballot'[id] = ballot[id]
    BY <1>0, <1>10 DEF SetConfigOnTransaction, SetConfigCloseOnTransaction, Without, Restrict
  <2> QED BY <2>1 DEF SameContent
<1> QED BY <1>1, <1>2, <1>3, <1>4, <1>5, <1>7, <1>8, <1>9, <1>10, ProposalSteps

\* An address names one proposal as long as it lives and is not written as a
\* multisig.
THEOREM ContentsFixed == BufferSpec => ContentFixed
<1> DEFINE Fixed ==
       \A id \in (DOMAIN transaction \cap DOMAIN transaction') \ misread' :
          /\ transaction'[id].message = transaction[id].message
          /\ transaction'[id].creator = transaction[id].creator
          /\ ballot'[id].config = ballot[id].config
<1>1. ASSUME UploadInv, BufferNext PROVE Fixed
  <2>1. UNCHANGED vars => Fixed
    BY DEF vars
  <2>2. ReuseNext => Fixed
    BY <1>1, ContentStep DEF UploadInv, SameContent
  <2> QED BY <1>1, <2>1, <2>2, BufferSimulates
<1>2. UploadInv /\ [BufferNext]_allVars => [Fixed]_allVars
  BY <1>1
<1> QED BY <1>2, UploadsSound, PTL DEF BufferSpec, ContentFixed

\* A running execute works on a copy that has the multisig's own index: no
\* proposal is made while it runs, and no config action moves the index.
FrameIndex ==
    frame # NoFrame =>
        /\ frame.multisig \in DOMAIN multisig
        /\ frame.config.transaction_index = multisig[frame.multisig].transaction_index

LEMMA FrameIndexStep ==
    ASSUME TypeOK, FrameIndex, ReuseNext PROVE FrameIndex'
<1>1. CASE frame' = NoFrame
  BY <1>1 DEF FrameIndex
<1>2. ASSUME NEW m \in Keys, NEW id \in DOMAIN transaction, NEW o \in Address,
             BeginExecute(m, id, o)
      PROVE  FrameIndex'
  BY <1>2 DEF BeginExecute, FrameIndex
<1>3. ASSUME frame # NoFrame, frame' # NoFrame PROVE FrameIndex'
  <2>1. ConfigStep \/ CloseStep \/ CpiStep
    BY <1>3, ExecuteAlone DEF Execution, EndExecute, Abort
  <2>2. /\ AtInstruction /\ UNCHANGED multisig
    BY <2>1 DEF ConfigStep, CloseStep, CpiStep
  <2>3. frame \in Frame /\ frame.config \in Config /\ Head(frame.rest) \in Instruction
    <3>1. frame \in Frame
      BY <1>3 DEF TypeOK
    <3>2. frame.rest \in Seq(Instruction) /\ frame.rest # <<>> /\ frame.config \in Config
      BY <2>2, <3>1 DEF Frame, AtInstruction
    <3> QED BY <3>1, <3>2
  <2>4. CASE ConfigStep
    <3> DEFINE r == ApplyConfigAction(frame.config, Head(frame.rest))
    <3>1. r # Err /\ frame' = [frame EXCEPT !.config = r, !.rest = Tail(@)]
      BY <2>4 DEF ConfigStep
    <3>2. r.transaction_index = frame.config.transaction_index
      BY <2>3, <3>1, ConfigActionType
    <3> HIDE DEF r
    <3>3. frame'.multisig = frame.multisig /\ frame'.config = r
      BY <2>3, <3>1 DEF Frame
    <3> QED BY <1>3, <2>2, <3>2, <3>3 DEF FrameIndex
  <2>5. CASE CloseStep \/ CpiStep
    <3>1. frame'.multisig = frame.multisig /\ frame'.config = frame.config
      BY <2>3, <2>5 DEF CloseStep, CpiStep, Frame
    <3> QED BY <1>3, <2>2, <3>1 DEF FrameIndex
  <2> QED BY <2>1, <2>4, <2>5
<1> QED BY <1>1, <1>2, <1>3, ExecuteAlone

\* The index of a multisig that stays moves only when the next proposal is made.
LEMMA IndexMoves ==
    ASSUME TypeOK, FrameIndex, ReuseNext, NEW k \in DOMAIN multisig \cap DOMAIN multisig'
    PROVE  \/ multisig'[k].transaction_index = multisig[k].transaction_index
           \/ NextId(k) \in DOMAIN transaction' \ DOMAIN transaction
<1> DEFINE Same == multisig'[k].transaction_index = multisig[k].transaction_index
<1>0. \A m \in DOMAIN multisig : multisig[m] \in Config
  BY DEF TypeOK
<1>1. CASE UNCHANGED multisig
  BY <1>1
<1>2. ASSUME NEW m \in Keys, NEW g \in Genesis, InitMultisig(m, g) PROVE Same
  BY <1>2 DEF InitMultisig, Put
<1>3. ASSUME NEW m \in Keys, NEW o \in Address, NEW message \in Messages,
             CreateTransaction(m, o, message)
      PROVE  Same \/ NextId(k) \in DOMAIN transaction' \ DOMAIN transaction
  <2>1. CASE m = k
    BY <1>3, <2>1, CreateStep DEF NextId
  <2>2. CASE m # k
    BY <1>3, <2>2 DEF CreateTransaction
  <2> QED BY <2>1, <2>2
<1>4. ASSUME NEW m \in Keys, NEW id \in DOMAIN transaction, NEW o \in Address,
             CloseTransaction(m, id, o)
      PROVE  Same
  <2>1. multisig' = [multisig EXCEPT ![m].closed_transaction_count = @ + 1]
    BY <1>4 DEF CloseTransaction
  <2> QED BY <1>0, <2>1 DEF Config
<1>5. ASSUME NEW m \in Keys, NEW a \in Address, NEW i \in AuthorityActions, SetConfig(m, a, i)
      PROVE  Same
  <2> DEFINE r == ApplyConfigAction(multisig[m], i)
  <2>1. m \in DOMAIN multisig /\ r # Err /\ multisig' = [multisig EXCEPT ![m] = r]
    BY <1>5 DEF SetConfig, Authorized
  <2>2. multisig[m] \in Config /\ i \in Instruction
    BY <1>0, <2>1, MessagesAssumption
  <2>3. r.transaction_index = multisig[m].transaction_index
    BY <2>1, <2>2, ConfigActionType
  <2> HIDE DEF r
  <2> QED BY <2>1, <2>3
<1>6. ASSUME NEW m \in Keys, NEW a \in Address, NEW i \in AuthorityActions,
             SetConfigClose(m, a, i)
      PROVE  Same
  BY <1>6 DEF SetConfigClose, Without, Restrict
<1>7. ASSUME EndExecute PROVE Same
  <2>1. /\ frame # NoFrame
        /\ multisig' = IF frame.closed THEN Without(multisig, frame.multisig)
                       ELSE [multisig EXCEPT ![frame.multisig] = frame.config]
    BY <1>7 DEF EndExecute
  <2> QED BY <2>1 DEF FrameIndex, Without, Restrict
<1>8. ASSUME NEW m \in Keys, CloseOther(m) PROVE Same
  <2>1. multisig' = [multisig EXCEPT ![m].closed_transaction_count = @ + 1]
    BY <1>8 DEF CloseOther
  <2> QED BY <1>0, <2>1 DEF Config
<1> QED BY <1>1, <1>2, <1>3, <1>4, <1>5, <1>6, <1>7, <1>8, MultisigSteps

\* A deposit at the address of the next proposal stops the counter there for as
\* long as the multisig lives.
THEOREM FundedBlocks == BufferSpec => FundedIndexBlocks
<1> DEFINE Blocks ==
       \A m \in DOMAIN multisig \cap DOMAIN multisig' :
          NextId(m) \in funded =>
              multisig'[m].transaction_index = multisig[m].transaction_index
<1>1. BufferInit => FrameIndex
  BY DEF BufferInit, Init, FrameIndex
<1>2. UploadInv /\ FrameIndex /\ [BufferNext]_allVars => FrameIndex'
  <2>1. ASSUME FrameIndex, UNCHANGED vars PROVE FrameIndex'
    BY <2>1 DEF vars, FrameIndex
  <2> QED BY <2>1, BufferSimulates, FrameIndexStep DEF allVars, UploadInv
<1>3. ASSUME UploadInv, FrameIndex, BufferNext PROVE Blocks
  <2> SUFFICES ASSUME NEW k \in DOMAIN multisig \cap DOMAIN multisig', NextId(k) \in funded
               PROVE  multisig'[k].transaction_index = multisig[k].transaction_index
    OBVIOUS
  <2>1. CASE UNCHANGED vars
    BY <2>1 DEF vars
  <2>2. ASSUME NEW id \in DOMAIN buffer, NEW m \in Keys, NEW signer \in Address,
               CreateFromBuffer(id, m, signer)
        PROVE  multisig'[k].transaction_index = multisig[k].transaction_index
    <3>1. NextId(m) \notin funded /\ \E n : multisig' = [multisig EXCEPT ![m] = n]
      BY <2>2 DEF CreateFromBuffer, CreateTransaction
    <3>2. k # m
      BY <3>1
    <3> QED BY <3>1, <3>2
  <2>3. CASE MultisigStep
    <3>1. ReuseNext /\ (DOMAIN transaction' \ DOMAIN transaction) \cap funded = {}
      BY <2>3 DEF MultisigStep, AddressFree, ReuseNext
    <3> QED BY <1>3, <3>1, IndexMoves DEF UploadInv
  <2>4. ASSUME NEW id \in DOMAIN buffer, NEW m \in Keys, NEW signer \in Address,
               CloseTransactionOnBuffer(m, id, signer)
        PROVE  multisig'[k].transaction_index = multisig[k].transaction_index
    <3>1. multisig' = [multisig EXCEPT ![m].closed_transaction_count = @ + 1]
      BY <2>4 DEF CloseTransactionOnBuffer, CloseOther
    <3>2. multisig[k] \in Config
      BY <1>3 DEF UploadInv, TypeOK
    <3> QED BY <3>1, <3>2 DEF Config
  <2> QED BY <1>3, <2>1, <2>2, <2>3, <2>4, BufferSteps
<1>4. UploadInv /\ FrameIndex /\ [BufferNext]_allVars => [Blocks]_allVars
  BY <1>3
<1> QED BY <1>1, <1>2, <1>4, UploadsSound, PTL DEF BufferSpec, FundedIndexBlocks
=============================================================================
