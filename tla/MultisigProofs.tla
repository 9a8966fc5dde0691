--------------------------- MODULE MultisigProofs ---------------------------
(***************************************************************************)
(* Theorems about Multisig, for every set of keys, addresses, payloads and *)
(* messages and every value of the limits.                                 *)
(***************************************************************************)
EXTENDS Multisig, AccountsProofs

(***************************************************************************)
(* Config actions.                                                         *)
(***************************************************************************)
\* A config action leaves a configuration, with the counters of proposals it
\* found and the staleness marker at the last of them.
LEMMA ConfigActionType ==
    ASSUME NEW c \in Config, NEW i \in Instruction,
           ApplyConfigAction(c, i) # Err
    PROVE  LET r == ApplyConfigAction(c, i)
           IN  /\ r \in Config
               /\ MultisigInvariant(r)
               /\ r.transaction_index = c.transaction_index
               /\ r.closed_transaction_count = c.closed_transaction_count
               /\ r.stale_transaction_index = c.transaction_index
<1> DEFINE r == ApplyConfigAction(c, i)
<1> DEFINE Good(d) == /\ Invalidate(d) \in Config
                      /\ Invalidate(d).transaction_index = c.transaction_index
                      /\ Invalidate(d).closed_transaction_count = c.closed_transaction_count
                      /\ Invalidate(d).stale_transaction_index = c.transaction_index
<1>0. \A o \in SUBSET Address : Cardinality(o) \in Nat
  BY CountTypes
<1>1. ASSUME NEW d, r = Settled(d), MultisigInvariant(Invalidate(d)) => Good(d)
      PROVE  r \in Config /\ MultisigInvariant(r) /\ Good(d) /\ r = Invalidate(d)
  BY <1>1, SettledEffect
<1>2. CASE i.tag = "AddOwner"
  <2> DEFINE n == c.voter_count + 1
  <2> DEFINE d == [c EXCEPT !.owners = @ \cup {i.address}, !.permissions[i.address] = 0,
                            !.voter_count = n]
  <2>1. r = Settled(d)
    BY <1>2 DEF ApplyConfigAction, AddOwner
  <2>2. Good(d)
    <3>1. c.owners \cup {i.address} \in SUBSET Address
      BY DEF Config, Instruction
    <3>2. 0 \in Masks
      BY DEF Masks, ALL
    <3>3. n \in Nat
      BY DEF Config
    <3> HIDE DEF n
    <3> QED BY <3>1, <3>2, <3>3 DEF Invalidate, Config, Instruction
  <2> HIDE DEF d
  <2> QED BY <1>1, <2>1, <2>2
<1>3. CASE i.tag = "RemoveOwner"
  <2> DEFINE n == IF MaskCanVote(c.permissions[i.address]) THEN c.voter_count - 1
                  ELSE c.voter_count
  <2> DEFINE d == [c EXCEPT !.owners = @ \ {i.address}, !.permissions[i.address] = 0,
                            !.voter_count = n]
  <2>1. r = Settled(d)
    BY <1>3 DEF ApplyConfigAction, RemoveOwner
  <2>2. n \in Int
    BY DEF Config
  <2>3. ASSUME MultisigInvariant(Invalidate(d)) PROVE Good(d)
    <3> HIDE DEF n
    <3>1. n \in Nat
      BY <2>2, <2>3, <1>0 DEF MultisigInvariant, Invalidate, Config, OwnersCount
    <3>2. c.owners \ {i.address} \in SUBSET Address
      BY DEF Config
    <3>3. 0 \in Masks
      BY DEF Masks, ALL
    <3> QED BY <3>1, <3>2, <3>3 DEF Invalidate, Config, Instruction
  <2> HIDE DEF d
  <2> QED BY <1>1, <2>1, <2>3
<1>4. CASE i.tag = "SetPermission"
  <2> DEFINE n == CASE ~MaskCanVote(c.permissions[i.address]) /\ MaskCanVote(i.value) ->
                            c.voter_count + 1
                    [] MaskCanVote(c.permissions[i.address]) /\ ~MaskCanVote(i.value) ->
                            c.voter_count - 1
                    [] OTHER -> c.voter_count
  <2> DEFINE d == [c EXCEPT !.permissions[i.address] = i.value, !.voter_count = n]
  <2>1. r = Settled(d) /\ ~(i.value > ALL)
    BY <1>4 DEF ApplyConfigAction, SetPermission
  <2>2. n \in Int
    BY DEF Config
  <2>3. ASSUME MultisigInvariant(Invalidate(d)) PROVE Good(d)
    <3> HIDE DEF n
    <3>1. n \in Nat
      BY <2>2, <2>3, <1>0 DEF MultisigInvariant, Invalidate, Config, OwnersCount
    <3>2. i.value \in Masks
      BY <2>1 DEF Instruction, Masks, ALL
    <3> QED BY <3>1, <3>2 DEF Invalidate, Config, Instruction
  <2> HIDE DEF d
  <2> QED BY <1>1, <2>1, <2>3
<1>5. CASE i.tag = "ChangeThreshold"
  <2> DEFINE d == [c EXCEPT !.threshold = i.value]
  <2>1. r = Settled(d)
    BY <1>5 DEF ApplyConfigAction
  <2>2. Good(d)
    BY DEF Invalidate, Config, Instruction
  <2> HIDE DEF d
  <2> QED BY <1>1, <2>1, <2>2
<1>6. CASE i.tag = "ChangeTimeLock"
  <2> DEFINE d == [c EXCEPT !.time_lock = i.value]
  <2>1. r = Settled(d)
    BY <1>6 DEF ApplyConfigAction
  <2>2. Good(d)
    BY DEF Invalidate, Config, Instruction
  <2> HIDE DEF d
  <2> QED BY <1>1, <2>1, <2>2
<1>7. CASE i.tag = "SetRentCollector"
  <2> DEFINE d == [c EXCEPT !.rent_collector = i.address]
  <2>1. r = Settled(d)
    BY <1>7 DEF ApplyConfigAction
  <2>2. Good(d)
    BY DEF Invalidate, Config, Instruction
  <2> HIDE DEF d
  <2> QED BY <1>1, <2>1, <2>2
<1>8. CASE i.tag = "SetConfigAuthority"
  <2> DEFINE d == [c EXCEPT !.config_authority = i.address]
  <2>1. r = Settled(d)
    BY <1>8 DEF ApplyConfigAction
  <2>2. Good(d)
    BY DEF Invalidate, Config, Instruction
  <2> HIDE DEF d
  <2> QED BY <1>1, <2>1, <2>2
<1>9. i.tag \in {"AddOwner", "RemoveOwner", "SetPermission", "ChangeThreshold",
                 "ChangeTimeLock", "SetRentCollector", "SetConfigAuthority"}
  BY DEF ApplyConfigAction
<1> QED BY <1>2, <1>3, <1>4, <1>5, <1>6, <1>7, <1>8, <1>9

(***************************************************************************)
(* Type correctness.                                                       *)
(***************************************************************************)
LEMMA VoteTypes ==
    ASSUME TypeOK, NEW t \in Transaction, NEW c \in Config, NEW p \in Nat
    PROVE  /\ Approved(t, c, p) \in Transaction
           /\ Rejected(t, c, p) \in Transaction
           /\ CancelVoted(t, c, p) \in Transaction
<1>1. clock \in Nat
  BY DEF TypeOK
<1>2. Approved(t, c, p) \in Transaction
  <2> DEFINE u == [t EXCEPT !.approved = @ \cup {p}, !.approved_count = @ + 1]
  <2>1. u \in Transaction
    <3>1. t.approved \cup {p} \in SUBSET Nat /\ t.approved_count + 1 \in Nat
      BY DEF Transaction
    <3> QED BY <3>1 DEF Transaction
  <2>2. LatchApproved(u) \in Transaction
    <3> HIDE DEF u
    <3> QED BY <1>1, <2>1 DEF LatchApproved, Transaction, Status
  <2> QED BY <2>1, <2>2 DEF Approved
<1>3. Rejected(t, c, p) \in Transaction
  <2> DEFINE u == [t EXCEPT !.rejected = @ \cup {p}, !.rejected_count = @ + 1]
  <2>1. u \in Transaction
    <3>1. t.rejected \cup {p} \in SUBSET Nat /\ t.rejected_count + 1 \in Nat
      BY DEF Transaction
    <3> QED BY <3>1 DEF Transaction
  <2>2. [u EXCEPT !.status = "Rejected"] \in Transaction
    <3> HIDE DEF u
    <3> QED BY <2>1 DEF Transaction, Status
  <2> QED BY <2>1, <2>2 DEF Rejected
<1>4. CancelVoted(t, c, p) \in Transaction
  <2> DEFINE u == [t EXCEPT !.cancelled = @ \cup {p}, !.cancelled_count = @ + 1]
  <2>1. u \in Transaction
    <3>1. t.cancelled \cup {p} \in SUBSET Nat /\ t.cancelled_count + 1 \in Nat
      BY DEF Transaction
    <3> QED BY <3>1 DEF Transaction
  <2>2. [u EXCEPT !.status = "Cancelled"] \in Transaction
    <3> HIDE DEF u
    <3> QED BY <2>1 DEF Transaction, Status
  <2> QED BY <2>1, <2>2 DEF CancelVoted
<1> QED BY <1>2, <1>3, <1>4

LEMMA NewTypes ==
    ASSUME NEW m \in Keys
    PROVE  /\ \A g \in Genesis : NewConfig(g) \in Config
           /\ \A c \in Config, o \in Address, message \in Messages :
                 /\ NewTransaction(m, c, o, message) \in Transaction
                 /\ NewBallot(c) \in Ballot
<1>1. ASSUME NEW g \in Genesis PROVE NewConfig(g) \in Config
  <2>1. /\ g.owners \in Seq(Address) /\ g.threshold \in Nat
        /\ g.config_authority \in Address
    BY GenesisAssumption
  <2>2. Range(g.owners) \in SUBSET Address /\ Len(g.owners) \in Nat
    BY <2>1 DEF Range
  <2>3. 0 \in Masks /\ DEFAULT \in Address
    BY AddressAssumption DEF Masks, ALL
  <2> QED BY <2>1, <2>2, <2>3 DEF NewConfig, Config
<1>2. ASSUME NEW c \in Config, NEW o \in Address, NEW message \in Messages
      PROVE  NewTransaction(m, c, o, message) \in Transaction
  <2>1. OwnersCount(c) \in Nat
    BY CountTypes DEF Config, OwnersCount
  <2>2. message \in Seq(Instruction)
    BY MessagesAssumption
  <2>3. c.transaction_index + 1 \in Nat
    BY DEF Config
  <2> QED BY <2>1, <2>2, <2>3 DEF NewTransaction, Transaction, Status
<1>3. ASSUME NEW c \in Config PROVE NewBallot(c) \in Ballot
  BY DEF NewBallot, Ballot
<1> QED BY <1>1, <1>2, <1>3

\* A proposal written as a multisig keeps its type, its multisig and its
\* status.
LEMMA RewrittenType ==
    ASSUME NEW t \in Transaction, NEW i \in AuthorityActions
    PROVE  \A u \in Rewritten(t, i) :
              /\ u \in Transaction
              /\ u.multisig = t.multisig /\ u.status = t.status
<1> SUFFICES ASSUME NEW u \in Rewritten(t, i)
             PROVE  u \in Transaction /\ u.multisig = t.multisig /\ u.status = t.status
  OBVIOUS
<1>0. i \in Instruction /\ Ambiguous \subseteq Seq(Instruction)
  BY MessagesAssumption
<1>1. MAX_OWNER \in Nat /\ MAX_INDEX \in Nat /\ MaxClock \in Nat
  BY LimitAssumption, OwnerLimitAssumption
<1>2. CASE i.tag = "SetConfigAuthority"
  <2>1. u = [t EXCEPT !.creator = i.address] /\ i.address \in Address
    BY <1>0, <1>2 DEF Rewritten, Instruction
  <2> QED BY <2>1 DEF Transaction
<1>3. CASE i.tag = "SetRentCollector"
  <2>1. PICK h \in Tallies(t) : u = Tallied(t, h)
    BY <1>3 DEF Rewritten
  <2>2. /\ h.index \in Nat /\ h.approved_at \in Nat /\ h.owners_count \in Nat
        /\ h.approved_count \in Nat /\ h.rejected_count \in Nat /\ h.cancelled_count \in Nat
    BY <1>1 DEF Tallies
  <2> QED BY <2>1, <2>2 DEF Tallied, Transaction
<1>4. CASE i.tag \notin {"SetConfigAuthority", "SetRentCollector"}
  <2>1. PICK r \in Tails(t) : u = Tailed(t, r)
    BY <1>4 DEF Rewritten
  <2>2. 0..MAX_OWNER - 1 \subseteq Nat
    BY <1>1
  <2>3. /\ r.approved \in SUBSET Nat /\ r.rejected \in SUBSET Nat
        /\ r.cancelled \in SUBSET Nat
    BY <2>2 DEF Tails, Transaction
  <2>4. r.message \in Seq(Instruction)
    BY <1>0 DEF Tails
  <2> QED BY <2>1, <2>3, <2>4 DEF Tailed, Transaction
<1> QED BY <1>2, <1>3, <1>4

\* Type correctness is kept by every step, whether or not create keys are
\* used once only.
LEMMA TypeStep ==
    ASSUME TypeOK, ReuseNext PROVE TypeOK'
<1> USE DEF TypeOK
<1>1. ASSUME NEW m \in Keys, NEW g \in Genesis, InitMultisig(m, g) PROVE TypeOK'
  BY <1>1, NewTypes DEF InitMultisig, Put
<1>2. ASSUME NEW m \in Keys, NEW o \in Address, NEW message \in Messages,
             CreateTransaction(m, o, message)
      PROVE  TypeOK'
  <2> DEFINE c == multisig[m]
             t == NewTransaction(m, c, o, message)
             id == <<m, c.transaction_index + 1>>
  <2>1. c \in Config /\ m \in DOMAIN multisig
    BY <1>2 DEF CreateTransaction
  <2>2. t \in Transaction /\ NewBallot(c) \in Ballot
    BY <2>1, NewTypes
  <2>3. id \in Ids
    BY <2>1 DEF Ids, Config
  <2>4. transaction' = Put(transaction, id, t) /\ ballot' = Put(ballot, id, NewBallot(c))
    BY <1>2 DEF CreateTransaction
  <2>5. \A k \in DOMAIN multisig' : multisig'[k] \in Config
    BY <1>2, <2>1 DEF CreateTransaction, Config
  <2>6. UNCHANGED <<frame, clock, created, misread, miscount>> /\ DOMAIN multisig' = DOMAIN multisig
    BY <1>2 DEF CreateTransaction
  <2> HIDE DEF t, id, c
  <2> QED BY <2>2, <2>3, <2>4, <2>5, <2>6 DEF Put
<1>3. ASSUME NEW m \in Keys, NEW id \in DOMAIN transaction, NEW o \in Address,
             Approve(m, id, o)
      PROVE  TypeOK'
  <2> DEFINE c == multisig[m]
             p == Position(c.owners, o)
  <2>1. c \in Config /\ transaction[id] \in Transaction /\ ballot[id] \in Ballot
    BY <1>3 DEF Approve, Prepared
  <2>2. p \in Nat
    BY <2>1, CountTypes DEF Config
  <2>3. Approved(transaction[id], c, p) \in Transaction
    BY <2>1, <2>2, VoteTypes
  <2>4. transaction' = [transaction EXCEPT ![id] = Approved(transaction[id], c, p)]
    BY <1>3 DEF Approve
  <2>5. DOMAIN ballot' = DOMAIN ballot /\ \A x \in DOMAIN ballot : ballot'[x] \in Ballot
    BY <1>3, <2>1 DEF Approve, Ballot
  <2>6. UNCHANGED <<multisig, frame, clock, created, misread, miscount>>
    BY <1>3 DEF Approve
  <2> HIDE DEF c, p
  <2> QED BY <2>3, <2>4, <2>5, <2>6
<1>4. ASSUME NEW m \in Keys, NEW id \in DOMAIN transaction, NEW o \in Address,
             Reject(m, id, o)
      PROVE  TypeOK'
  <2> DEFINE c == multisig[m]
             p == Position(c.owners, o)
  <2>1. c \in Config /\ transaction[id] \in Transaction /\ ballot[id] \in Ballot
    BY <1>4 DEF Reject, Prepared
  <2>2. p \in Nat
    BY <2>1, CountTypes DEF Config
  <2>3. Rejected(transaction[id], c, p) \in Transaction
    BY <2>1, <2>2, VoteTypes
  <2>4. transaction' = [transaction EXCEPT ![id] = Rejected(transaction[id], c, p)]
    BY <1>4 DEF Reject
  <2>5. DOMAIN ballot' = DOMAIN ballot /\ \A x \in DOMAIN ballot : ballot'[x] \in Ballot
    BY <1>4, <2>1 DEF Reject, Ballot
  <2>6. UNCHANGED <<multisig, frame, clock, created, misread, miscount>>
    BY <1>4 DEF Reject
  <2> HIDE DEF c, p
  <2> QED BY <2>3, <2>4, <2>5, <2>6
<1>5. ASSUME NEW m \in Keys, NEW id \in DOMAIN transaction, NEW o \in Address,
             CancelActive(m, id, o)
      PROVE  TypeOK'
  <2>1. [transaction[id] EXCEPT !.status = "Cancelled"] \in Transaction
    BY DEF Transaction, Status
  <2> QED BY <1>5, <2>1 DEF CancelActive
<1>6. ASSUME NEW m \in Keys, NEW id \in DOMAIN transaction, NEW o \in Address,
             CancelApproved(m, id, o)
      PROVE  TypeOK'
  <2> DEFINE c == multisig[m]
             p == Position(c.owners, o)
  <2>1. c \in Config /\ transaction[id] \in Transaction /\ ballot[id] \in Ballot
    BY <1>6 DEF CancelApproved, Prepared
  <2>2. p \in Nat
    BY <2>1, CountTypes DEF Config
  <2>3. CancelVoted(transaction[id], c, p) \in Transaction
    BY <2>1, <2>2, VoteTypes
  <2>4. transaction' = [transaction EXCEPT ![id] = CancelVoted(transaction[id], c, p)]
    BY <1>6 DEF CancelApproved
  <2>5. DOMAIN ballot' = DOMAIN ballot /\ \A x \in DOMAIN ballot : ballot'[x] \in Ballot
    BY <1>6, <2>1 DEF CancelApproved, Ballot
  <2>6. UNCHANGED <<multisig, frame, clock, created, misread, miscount>>
    BY <1>6 DEF CancelApproved
  <2> HIDE DEF c, p
  <2> QED BY <2>3, <2>4, <2>5, <2>6
<1>7. ASSUME NEW m \in Keys, NEW id \in DOMAIN transaction, NEW o \in Address,
             BeginExecute(m, id, o)
      PROVE  TypeOK'
  BY <1>7 DEF BeginExecute, Frame, Transaction
<1>8. ASSUME NEW m \in Keys, NEW id \in DOMAIN transaction, NEW o \in Address,
             CloseTransaction(m, id, o)
      PROVE  TypeOK'
  BY <1>8 DEF CloseTransaction, Without, Restrict, Config
<1>9. ASSUME NEW m \in Keys, NEW a \in Address, NEW i \in AuthorityActions,
             SetConfig(m, a, i)
      PROVE  TypeOK'
  <2>1. i \in Instruction /\ multisig[m] \in Config
    BY <1>9, MessagesAssumption DEF SetConfig, Authorized
  <2>2. ApplyConfigAction(multisig[m], i) \in Config
    BY <1>9, <2>1, ConfigActionType DEF SetConfig
  <2> QED BY <1>9, <2>2 DEF SetConfig
<1>10. ASSUME NEW m \in Keys, NEW a \in Address, NEW i \in AuthorityActions,
              SetConfigClose(m, a, i)
       PROVE  TypeOK'
  BY <1>10 DEF SetConfigClose, Without, Restrict
<1>11. ASSUME AtInstruction
       PROVE  /\ frame \in Frame
              /\ Head(frame.rest) \in Instruction
              /\ Tail(frame.rest) \in Seq(Instruction)
  <2>1. frame \in Frame /\ frame.rest # <<>>
    BY <1>11 DEF AtInstruction
  <2>2. frame.rest \in Seq(Instruction)
    BY <2>1 DEF Frame
  <2> QED BY <2>1, <2>2
<1>12. CASE ConfigStep
  <2> DEFINE r == ApplyConfigAction(frame.config, Head(frame.rest))
  <2>1. AtInstruction /\ r # Err
    BY <1>12 DEF ConfigStep
  <2>2. frame.config \in Config
    BY <1>11, <2>1 DEF Frame
  <2>3. r \in Config
    BY <1>11, <2>1, <2>2, ConfigActionType
  <2>4. frame' = [frame EXCEPT !.config = r, !.rest = Tail(@)]
    BY <1>12 DEF ConfigStep
  <2> HIDE DEF r
  <2>5. frame' \in Frame
    BY <1>11, <2>1, <2>3, <2>4 DEF Frame
  <2> QED BY <1>12, <2>5 DEF ConfigStep
<1>13. CASE CloseStep
  <2>1. frame' \in Frame
    BY <1>11, <1>13 DEF CloseStep, Frame
  <2> QED BY <1>13, <2>1 DEF CloseStep
<1>14. CASE CpiStep
  <2>1. frame' \in Frame
    BY <1>11, <1>14 DEF CpiStep, Frame
  <2> QED BY <1>14, <2>1 DEF CpiStep
<1>15. CASE EndExecute
  <2>1. frame.config \in Config
    BY <1>15 DEF EndExecute, Frame
  <2>2. /\ DOMAIN multisig' \subseteq DOMAIN multisig
        /\ \A m \in DOMAIN multisig' : multisig'[m] \in Config
    BY <1>15, <2>1 DEF EndExecute, Without, Restrict
  <2>3. \A t \in Transaction : [t EXCEPT !.status = "Executed"] \in Transaction
    BY DEF Transaction, Status
  <2>4. /\ DOMAIN transaction' = DOMAIN transaction
        /\ \A id \in DOMAIN transaction' : transaction'[id] \in Transaction
    BY <1>15, <2>3 DEF EndExecute
  <2> QED BY <1>15, <2>2, <2>4 DEF EndExecute
<1>16. CASE Abort
  BY <1>16 DEF Abort
<1>17. CASE Tick
  BY <1>17 DEF Tick
<1>18. ASSUME NEW id \in DOMAIN transaction, NEW a \in Address, NEW i \in AuthorityActions,
              SetConfigOnTransaction(id, a, i)
       PROVE  TypeOK'
  <2>1. PICK t \in Rewritten(transaction[id], i) : transaction' = [transaction EXCEPT ![id] = t]
    BY <1>18 DEF SetConfigOnTransaction
  <2>2. t \in Transaction
    BY <2>1, RewrittenType
  <2>3. /\ misread' = misread \cup {id}
        /\ UNCHANGED <<multisig, frame, clock, created, ballot, miscount>>
    BY <1>18 DEF SetConfigOnTransaction
  <2> QED BY <2>1, <2>2, <2>3
<1>19. ASSUME NEW id \in DOMAIN transaction, NEW a \in Address, NEW i \in AuthorityActions,
              SetConfigCloseOnTransaction(id, a, i)
       PROVE  TypeOK'
  <2>1. transaction[id].multisig \in Keys
    BY DEF Transaction
  <2> QED BY <1>19, <2>1 DEF SetConfigCloseOnTransaction, Without, Restrict
<1>20. ASSUME NEW m \in Keys, CloseOther(m) PROVE TypeOK'
  BY <1>20 DEF CloseOther, Config
<1> QED
  BY <1>1, <1>2, <1>3, <1>4, <1>5, <1>6, <1>7, <1>8, <1>9, <1>10, <1>12, <1>13,
     <1>14, <1>15, <1>16, <1>17, <1>18, <1>19, <1>20 DEF ReuseNext, Step

\* Every reachable state is well typed, for every instance.
THEOREM TypeCorrect == Spec => []TypeOK
<1>1. Init => TypeOK
  BY DEF Init, TypeOK
<1>2. TypeOK /\ [Next]_vars => TypeOK'
  <2>1. ASSUME TypeOK, Next PROVE TypeOK'
    <3>1. ReuseNext
      BY <2>1 DEF Next, ReuseNext, InitFresh
    <3> QED BY <2>1, <3>1, TypeStep
  <2>2. ASSUME TypeOK, UNCHANGED vars PROVE TypeOK'
    BY <2>2 DEF TypeOK, vars
  <2> QED BY <2>1, <2>2
<1> QED BY <1>1, <1>2, PTL DEF Spec

(***************************************************************************)
(* The maintained voter count.                                             *)
(***************************************************************************)
LEMMA VotersFinite ==
    ASSUME NEW c \in Config
    PROVE  IsFiniteSet(Voters(c)) /\ Cardinality(Voters(c)) \in Nat
<1>1. Voters(c) \in SUBSET Address
  BY DEF Voters, Config
<1> QED BY <1>1, CountTypes

\* Counts are about owners, permissions, threshold and count and nothing else.
LEMMA CountsVotersFrame ==
    ASSUME NEW c, NEW d, CountsVoters(c), SameRules(c, d)
    PROVE  CountsVoters(d)
BY DEF CountsVoters, SameRules, Voters

\* Adding and subtracting one, action by action, keeps the count what a
\* recount of the voters would give.
LEMMA ConfigActionCounts ==
    ASSUME NEW c \in Config, NEW i \in Instruction, CountsVoters(c),
           ApplyConfigAction(c, i) # Err
    PROVE  CountsVoters(ApplyConfigAction(c, i))
<1> DEFINE r == ApplyConfigAction(c, i)
           a == i.address
<1>0. /\ r \in Config /\ MultisigInvariant(r)
      /\ a \in Address /\ c.voter_count = Cardinality(Voters(c))
  BY ConfigActionType DEF Instruction, CountsVoters
<1>1. ASSUME r.voter_count = Cardinality(Voters(r)) PROVE CountsVoters(r)
  BY <1>0, <1>1 DEF CountsVoters, MultisigInvariant
<1>2. ASSUME NEW d, r = Settled(d)
      PROVE  /\ r.owners = d.owners /\ r.permissions = d.permissions
             /\ r.voter_count = d.voter_count
  <2>1. r = [d EXCEPT !.stale_transaction_index = d.transaction_index]
    BY <1>2, SettledEffect DEF Invalidate
  <2> QED BY <2>1
<1>3. CASE i.tag = "AddOwner"
  <2> DEFINE d == [c EXCEPT !.owners = @ \cup {a}, !.permissions[a] = 0,
                            !.voter_count = @ + 1]
  <2>1. r = Settled(d) /\ a \notin c.owners
    BY <1>3 DEF ApplyConfigAction, AddOwner
  <2>2. /\ d.owners = c.owners \cup {a} /\ d.voter_count = c.voter_count + 1
        /\ d.permissions = [c.permissions EXCEPT ![a] = 0]
    BY DEF Config
  <2> HIDE DEF d
  <2>3. MaskCanVote(0)
    BY DEF MaskCanVote, MaskAllows
  <2>4. Voters(r) = Voters(c) \cup {a} /\ a \notin Voters(c)
    <3> HIDE DEF r
    <3> QED BY <1>0, <1>2, <2>1, <2>2, <2>3 DEF Voters, Config
  <2>5. Cardinality(Voters(r)) = Cardinality(Voters(c)) + 1
    BY <2>4, VotersFinite, FS_AddElement
  <2> QED BY <1>0, <1>1, <1>2, <2>1, <2>2, <2>5
<1>4. CASE i.tag = "RemoveOwner"
  <2> DEFINE n == IF MaskCanVote(c.permissions[a]) THEN c.voter_count - 1
                  ELSE c.voter_count
             d == [c EXCEPT !.owners = @ \ {a}, !.permissions[a] = 0,
                            !.voter_count = n]
  <2>1. r = Settled(d) /\ a \in c.owners
    BY <1>4 DEF ApplyConfigAction, RemoveOwner
  <2>2. /\ d.owners = c.owners \ {a} /\ d.voter_count = n
        /\ d.permissions = [c.permissions EXCEPT ![a] = 0]
    BY DEF Config
  <2> HIDE DEF d
  <2>3. Voters(r) = Voters(c) \ {a} /\ (a \in Voters(c) <=> MaskCanVote(c.permissions[a]))
    <3> HIDE DEF r
    <3> QED BY <1>0, <1>2, <2>1, <2>2 DEF Voters, Config
  <2>4. Cardinality(Voters(r)) = IF a \in Voters(c) THEN Cardinality(Voters(c)) - 1
                                 ELSE Cardinality(Voters(c))
    BY <2>3, VotersFinite, FS_RemoveElement
  <2>5. Cardinality(Voters(r)) = n
    BY <1>0, <2>3, <2>4
  <2> QED BY <1>1, <1>2, <2>1, <2>2, <2>5
<1>5. CASE i.tag = "SetPermission"
  <2> DEFINE was == MaskCanVote(c.permissions[a])
             is == MaskCanVote(i.value)
             n == CASE ~was /\ is -> c.voter_count + 1
                    [] was /\ ~is -> c.voter_count - 1
                    [] OTHER -> c.voter_count
             d == [c EXCEPT !.permissions[a] = i.value, !.voter_count = n]
  <2>1. r = Settled(d) /\ a \in c.owners
    BY <1>5 DEF ApplyConfigAction, SetPermission
  <2>2. /\ d.owners = c.owners /\ d.voter_count = n
        /\ d.permissions = [c.permissions EXCEPT ![a] = i.value]
    BY DEF Config
  <2>3. a \in Voters(c) <=> was
    BY <2>1 DEF Voters
  <2> HIDE DEF d
  <2>4. Voters(r) = IF is THEN Voters(c) \cup {a} ELSE Voters(c) \ {a}
    <3> HIDE DEF r, was
    <3> QED BY <1>0, <1>2, <2>1, <2>2 DEF Voters, Config
  <2>5. Cardinality(Voters(r)) = n
    <3>1. IsFiniteSet(Voters(c)) /\ Cardinality(Voters(c)) \in Nat
      BY VotersFinite
    <3>2. Cardinality(Voters(c) \cup {a}) = IF a \in Voters(c) THEN Cardinality(Voters(c))
                                            ELSE Cardinality(Voters(c)) + 1
      BY <3>1, FS_AddElement
    <3>3. Cardinality(Voters(c) \ {a}) = IF a \in Voters(c) THEN Cardinality(Voters(c)) - 1
                                         ELSE Cardinality(Voters(c))
      BY <3>1, FS_RemoveElement
    <3> HIDE DEF was, is, r
    <3> QED BY <1>0, <2>3, <2>4, <3>2, <3>3
  <2> QED BY <1>1, <1>2, <2>1, <2>2, <2>5
<1>6. ASSUME NEW d, r = Settled(d), d.owners = c.owners, d.permissions = c.permissions,
             d.voter_count = c.voter_count
      PROVE  CountsVoters(r)
  <2>1. /\ r.owners = c.owners /\ r.permissions = c.permissions
        /\ r.voter_count = c.voter_count
    BY <1>2, <1>6
  <2>2. Voters(r) = Voters(c)
    BY <2>1 DEF Voters
  <2> QED BY <1>0, <1>1, <2>1, <2>2
<1>7. CASE i.tag = "ChangeThreshold"
  <2> DEFINE d == [c EXCEPT !.threshold = i.value]
  <2>1. r = Settled(d)
    BY <1>7 DEF ApplyConfigAction
  <2>2. /\ d.owners = c.owners /\ d.permissions = c.permissions
        /\ d.voter_count = c.voter_count
    BY DEF Config
  <2> HIDE DEF d
  <2> QED BY <1>6, <2>1, <2>2
<1>8. CASE i.tag = "ChangeTimeLock"
  <2> DEFINE d == [c EXCEPT !.time_lock = i.value]
  <2>1. r = Settled(d)
    BY <1>8 DEF ApplyConfigAction
  <2>2. /\ d.owners = c.owners /\ d.permissions = c.permissions
        /\ d.voter_count = c.voter_count
    BY DEF Config
  <2> HIDE DEF d
  <2> QED BY <1>6, <2>1, <2>2
<1>9. CASE i.tag = "SetRentCollector"
  <2> DEFINE d == [c EXCEPT !.rent_collector = a]
  <2>1. r = Settled(d)
    BY <1>9 DEF ApplyConfigAction
  <2>2. /\ d.owners = c.owners /\ d.permissions = c.permissions
        /\ d.voter_count = c.voter_count
    BY DEF Config
  <2> HIDE DEF d
  <2> QED BY <1>6, <2>1, <2>2
<1>10. CASE i.tag = "SetConfigAuthority"
  <2> DEFINE d == [c EXCEPT !.config_authority = a]
  <2>1. r = Settled(d)
    BY <1>10 DEF ApplyConfigAction
  <2>2. /\ d.owners = c.owners /\ d.permissions = c.permissions
        /\ d.voter_count = c.voter_count
    BY DEF Config
  <2> HIDE DEF d
  <2> QED BY <1>6, <2>1, <2>2
<1>11. i.tag \in {"AddOwner", "RemoveOwner", "SetPermission", "ChangeThreshold",
                  "ChangeTimeLock", "SetRentCollector", "SetConfigAuthority"}
  BY DEF ApplyConfigAction
<1> QED BY <1>3, <1>4, <1>5, <1>7, <1>8, <1>9, <1>10, <1>11

\* A new multisig counts every listed owner as a voter.
LEMMA NewConfigCounts ==
    ASSUME NEW g \in Genesis, MultisigInvariant(NewConfig(g)),
           \A i \in 2..Len(g.owners) : g.owners[i - 1] < g.owners[i]
    PROVE  CountsVoters(NewConfig(g))
<1> DEFINE c == NewConfig(g)
<1>1. g.owners \in Seq(Address)
  BY GenesisAssumption
<1>2. Range(g.owners) \in SUBSET Address /\ Cardinality(Range(g.owners)) = Len(g.owners)
  BY <1>1, AscendingCount
<1>3. /\ c.owners = Range(g.owners) /\ c.permissions = [a \in Address |-> 0]
      /\ c.voter_count = Len(g.owners)
  BY DEF NewConfig
<1>4. Voters(c) = c.owners
  <2> HIDE DEF c
  <2> QED BY <1>2, <1>3 DEF Voters, MaskCanVote, MaskAllows
<1> HIDE DEF c
<1>5. c.threshold \in 1..c.voter_count
  BY DEF MultisigInvariant, c
<1> QED BY <1>2, <1>3, <1>4, <1>5 DEF CountsVoters, c

LEMMA VoterCountStep ==
    ASSUME TypeOK, VoterCountExact, ReuseNext PROVE VoterCountExact'
<1> USE DEF VoterCountExact
<1>0. ASSUME UNCHANGED <<multisig, frame>> PROVE VoterCountExact'
  BY <1>0 DEF CountsVoters, Voters
<1>1. ASSUME NEW m \in Keys, NEW g \in Genesis, InitMultisig(m, g)
      PROVE  VoterCountExact'
  <2>1. CountsVoters(NewConfig(g))
    BY <1>1, NewConfigCounts DEF InitMultisig
  <2> QED BY <1>1, <2>1 DEF InitMultisig, Put
<1>2. ASSUME NEW m \in Keys, NEW o \in Address, NEW message \in Messages,
             CreateTransaction(m, o, message)
      PROVE  VoterCountExact'
  <2>1. m \in DOMAIN multisig /\ multisig[m] \in Config
    BY <1>2 DEF CreateTransaction, TypeOK
  <2>2. SameRules(multisig[m], [multisig[m] EXCEPT !.transaction_index = @ + 1])
    BY <2>1 DEF SameRules, Config
  <2>3. CountsVoters([multisig[m] EXCEPT !.transaction_index = @ + 1])
    BY <2>1, <2>2, CountsVotersFrame
  <2> QED BY <1>2, <2>1, <2>3 DEF CreateTransaction
<1>3. ASSUME NEW m \in Keys, NEW id \in DOMAIN transaction, NEW o \in Address,
             CloseTransaction(m, id, o)
      PROVE  VoterCountExact'
  <2>1. m \in DOMAIN multisig /\ multisig[m] \in Config
    BY <1>3 DEF CloseTransaction, TypeOK
  <2>2. SameRules(multisig[m], [multisig[m] EXCEPT !.closed_transaction_count = @ + 1])
    BY <2>1 DEF SameRules, Config
  <2>3. CountsVoters([multisig[m] EXCEPT !.closed_transaction_count = @ + 1])
    BY <2>1, <2>2, CountsVotersFrame
  <2> QED BY <1>3, <2>1, <2>3 DEF CloseTransaction
<1>4. ASSUME NEW m \in Keys, NEW id \in DOMAIN transaction, NEW o \in Address,
             BeginExecute(m, id, o)
      PROVE  VoterCountExact'
  BY <1>4 DEF BeginExecute
<1>5. ASSUME NEW m \in Keys, NEW a \in Address, NEW i \in AuthorityActions,
             SetConfig(m, a, i)
      PROVE  VoterCountExact'
  <2>1. i \in Instruction /\ m \in DOMAIN multisig /\ multisig[m] \in Config
    BY <1>5, MessagesAssumption DEF SetConfig, Authorized, TypeOK
  <2>2. CountsVoters(ApplyConfigAction(multisig[m], i))
    BY <1>5, <2>1, ConfigActionCounts DEF SetConfig
  <2> QED BY <1>5, <2>1, <2>2 DEF SetConfig, Authorized
<1>6. ASSUME NEW m \in Keys, NEW a \in Address, NEW i \in AuthorityActions,
             SetConfigClose(m, a, i)
      PROVE  VoterCountExact'
  BY <1>6 DEF SetConfigClose, Authorized, Without, Restrict
<1>7. CASE ConfigStep
  <2> DEFINE i == Head(frame.rest)
  <2>1. frame # NoFrame /\ frame.rest # <<>> /\ ApplyConfigAction(frame.config, i) # Err
    BY <1>7 DEF ConfigStep, AtInstruction
  <2>2. frame.config \in Config /\ i \in Instruction /\ frame \in Frame
    <3>1. frame.config \in Config /\ frame.rest \in Seq(Instruction) /\ frame \in Frame
      BY <2>1 DEF TypeOK, Frame
    <3> QED BY <2>1, <3>1
  <2>3. CountsVoters(ApplyConfigAction(frame.config, i))
    BY <2>1, <2>2, ConfigActionCounts
  <2>4. frame'.config = ApplyConfigAction(frame.config, i) /\ multisig' = multisig
    BY <1>7, <2>2 DEF ConfigStep, Frame
  <2> QED BY <2>3, <2>4
<1>8. CASE CloseStep \/ CpiStep
  <2>1. frame # NoFrame /\ frame \in Frame
    BY <1>8 DEF CloseStep, CpiStep, AtInstruction, TypeOK
  <2>2. frame'.config = frame.config /\ multisig' = multisig
    BY <1>8, <2>1 DEF CloseStep, CpiStep, Frame
  <2> QED BY <2>1, <2>2
<1>9. CASE EndExecute
  BY <1>9 DEF EndExecute, Without, Restrict
<1>10. CASE Abort
  BY <1>10 DEF Abort
<1>11. ASSUME NEW m \in Keys, NEW id \in DOMAIN transaction, NEW o \in Address,
              Approve(m, id, o) \/ Reject(m, id, o) \/ CancelActive(m, id, o)
                \/ CancelApproved(m, id, o)
       PROVE  VoterCountExact'
  BY <1>0, <1>11 DEF Approve, Reject, CancelActive, CancelApproved
<1>12. CASE Tick
  BY <1>0, <1>12 DEF Tick
<1>13. ASSUME NEW id \in DOMAIN transaction, NEW a \in Address, NEW i \in AuthorityActions,
              SetConfigOnTransaction(id, a, i) \/ SetConfigCloseOnTransaction(id, a, i)
       PROVE  VoterCountExact'
  BY <1>0, <1>13 DEF SetConfigOnTransaction, SetConfigCloseOnTransaction
<1>14. ASSUME NEW m \in Keys, CloseOther(m) PROVE VoterCountExact'
  <2>1. m \in DOMAIN multisig /\ multisig[m] \in Config
    BY <1>14 DEF CloseOther, TypeOK
  <2>2. SameRules(multisig[m], [multisig[m] EXCEPT !.closed_transaction_count = @ + 1])
    BY <2>1 DEF SameRules, Config
  <2>3. CountsVoters([multisig[m] EXCEPT !.closed_transaction_count = @ + 1])
    BY <2>1, <2>2, CountsVotersFrame
  <2> QED BY <1>14, <2>1, <2>3 DEF CloseOther
<1> QED
  BY <1>1, <1>2, <1>3, <1>4, <1>5, <1>6, <1>7, <1>8, <1>9, <1>10, <1>11, <1>12,
     <1>13, <1>14 DEF ReuseNext, Step

\* Whatever config actions have run, by vote or by authority, committed or
\* half way through an execute: voter_count is the number of owners permitted
\* to vote, and they are enough to reach the threshold.
THEOREM VotersCounted == Spec => []VoterCountExact
<1>1. Init => VoterCountExact
  BY DEF Init, VoterCountExact
<1>2. TypeOK /\ VoterCountExact /\ [Next]_vars => VoterCountExact'
  <2>1. ASSUME TypeOK, VoterCountExact, Next PROVE VoterCountExact'
    <3>1. ReuseNext
      BY <2>1 DEF Next, ReuseNext, InitFresh
    <3> QED BY <2>1, <3>1, VoterCountStep
  <2>2. ASSUME VoterCountExact, UNCHANGED vars PROVE VoterCountExact'
    BY <2>2 DEF VoterCountExact, vars, CountsVoters, Voters
  <2> QED BY <2>1, <2>2
<1> QED BY <1>1, <1>2, TypeCorrect, PTL DEF Spec

(***************************************************************************)
(* Votes cast under one rule cannot settle under another.                  *)
(***************************************************************************)
\* What the argument rests on.  A proposal's index has been handed out by its
\* multisig, so a marker set to transaction_index is past it; a running
\* execute has left the configuration alone or has moved the marker there.
Ledger ==
    /\ DOMAIN multisig \subseteq created
    /\ \A id \in DOMAIN transaction : transaction[id].multisig \in created
    /\ \A id \in Genuine :
          LET t == transaction[id]
          IN  t.multisig \in DOMAIN multisig =>
                  t.index <= multisig[t.multisig].transaction_index
    /\ frame # NoFrame =>
          /\ frame.multisig \in DOMAIN multisig
          /\ \/ frame.config = multisig[frame.multisig]
             \/ /\ frame.config.transaction_index = multisig[frame.multisig].transaction_index
                /\ frame.config.stale_transaction_index = frame.config.transaction_index

RulesInv == TypeOK /\ Ledger /\ VotableUnderItsRules

\* A mistake is not forgotten.
LEMMA MistakesKept ==
    ASSUME ReuseNext PROVE misread \subseteq misread' /\ miscount \subseteq miscount'
<1> DEFINE Kept == misread \subseteq misread' /\ miscount \subseteq miscount'
<1>1. ASSUME NEW m, NEW g, InitMultisig(m, g) PROVE Kept
  BY <1>1 DEF InitMultisig
<1>2. ASSUME NEW m, NEW o, NEW message, CreateTransaction(m, o, message) PROVE Kept
  BY <1>2 DEF CreateTransaction
<1>3. ASSUME NEW m, NEW id, NEW o,
             \/ Approve(m, id, o) \/ Reject(m, id, o) \/ CancelActive(m, id, o)
             \/ CancelApproved(m, id, o) \/ BeginExecute(m, id, o)
             \/ CloseTransaction(m, id, o)
      PROVE  Kept
  BY <1>3 DEF Approve, Reject, CancelActive, CancelApproved, BeginExecute, CloseTransaction
<1>4. ASSUME NEW m, NEW a, NEW i, SetConfig(m, a, i) \/ SetConfigClose(m, a, i) PROVE Kept
  BY <1>4 DEF SetConfig, SetConfigClose
<1>5. ASSUME NEW id, NEW a, NEW i,
             SetConfigOnTransaction(id, a, i) \/ SetConfigCloseOnTransaction(id, a, i)
      PROVE  Kept
  BY <1>5 DEF SetConfigOnTransaction, SetConfigCloseOnTransaction
<1>6. ASSUME NEW m, CloseOther(m) PROVE Kept
  BY <1>6 DEF CloseOther
<1>7. ASSUME ConfigStep \/ CloseStep \/ CpiStep \/ EndExecute \/ Abort \/ Tick PROVE Kept
  BY <1>7 DEF ConfigStep, CloseStep, CpiStep, EndExecute, Abort, Tick
<1> HIDE DEF Kept
<1>8. Kept
  BY <1>1, <1>2, <1>3, <1>4, <1>5, <1>6, <1>7 DEF ReuseNext, Step
<1> QED BY <1>8 DEF Kept

\* A vote changes neither whose the proposal is nor which it is.
LEMMA VoteKeeps ==
    ASSUME NEW t \in Transaction, NEW c, NEW p
    PROVE  \A u \in {Approved(t, c, p), Rejected(t, c, p), CancelVoted(t, c, p),
                     [t EXCEPT !.status = "Cancelled"], [t EXCEPT !.status = "Executed"]} :
              u.multisig = t.multisig /\ u.index = t.index
<1> DEFINE Same(u) == u.multisig = t.multisig /\ u.index = t.index
<1>1. Same(Approved(t, c, p))
  BY DEF Approved, LatchApproved, Transaction
<1>2. Same(Rejected(t, c, p))
  BY DEF Rejected, Transaction
<1>3. Same(CancelVoted(t, c, p))
  BY DEF CancelVoted, Transaction
<1>4. Same([t EXCEPT !.status = "Cancelled"]) /\ Same([t EXCEPT !.status = "Executed"])
  BY DEF Transaction
<1> HIDE DEF Same
<1> QED BY <1>1, <1>2, <1>3, <1>4 DEF Same

\* Steps that leave the configurations alone and, of the proposals, only
\* change votes and status.
LEMMA RulesKept ==
    ASSUME RulesInv, TypeOK', UNCHANGED <<multisig, created>>,
           DOMAIN transaction' \subseteq DOMAIN transaction,
           \A id \in DOMAIN transaction' :
              /\ transaction'[id].multisig = transaction[id].multisig
              /\ id \notin misread' =>
                    /\ transaction'[id].index = transaction[id].index
                    /\ ballot'[id].config = ballot[id].config,
           misread \subseteq misread',
           Ledger' \/ UNCHANGED frame \/ frame' = NoFrame
    PROVE  RulesInv'
<1>1. Ledger'
  BY DEF RulesInv, Ledger, Genuine
<1>2. VotableUnderItsRules'
  BY DEF RulesInv, VotableUnderItsRules, Genuine, SameRules
<1> QED BY <1>1, <1>2 DEF RulesInv

\* Steps that change configurations only by a config action or without touching
\* the rules, and outside of a running execute.
LEMMA RulesMoved ==
    ASSUME RulesInv, TypeOK', UNCHANGED created, frame' = NoFrame,
           DOMAIN multisig' \subseteq DOMAIN multisig,
           \A m \in DOMAIN multisig' :
              /\ multisig'[m].transaction_index = multisig[m].transaction_index
              /\ \/ /\ SameRules(multisig'[m], multisig[m])
                    /\ multisig'[m].stale_transaction_index
                          = multisig[m].stale_transaction_index
                 \/ multisig'[m].stale_transaction_index = multisig[m].transaction_index,
           DOMAIN transaction' \subseteq DOMAIN transaction,
           \A id \in DOMAIN transaction' :
              /\ transaction'[id].multisig = transaction[id].multisig
              /\ id \notin misread' =>
                    /\ transaction'[id].index = transaction[id].index
                    /\ ballot'[id].config = ballot[id].config,
           misread \subseteq misread'
    PROVE  RulesInv'
<1>1. Ledger'
  BY DEF RulesInv, Ledger, Genuine
<1>2. ASSUME NEW id \in Genuine',
             transaction'[id].multisig \in DOMAIN multisig',
             transaction'[id].index
                > multisig'[transaction'[id].multisig].stale_transaction_index
      PROVE  SameRules(multisig'[transaction'[id].multisig], ballot'[id].config)
  <2> DEFINE m == transaction[id].multisig
  <2>1. /\ id \in DOMAIN transaction /\ m \in DOMAIN multisig
        /\ id \in Genuine /\ ballot'[id].config = ballot[id].config
        /\ transaction'[id].multisig = m /\ transaction'[id].index = transaction[id].index
    BY <1>2 DEF Genuine
  <2>2. transaction[id].index <= multisig[m].transaction_index
    BY <2>1 DEF RulesInv, Ledger, Genuine
  <2>3. transaction[id].index \in Nat /\ multisig[m].transaction_index \in Nat
    BY <2>1 DEF RulesInv, TypeOK, Transaction, Config
  <2>4. multisig'[m].stale_transaction_index # multisig[m].transaction_index
    BY <1>2, <2>1, <2>2, <2>3
  <2>5. /\ SameRules(multisig'[m], multisig[m])
        /\ multisig'[m].stale_transaction_index = multisig[m].stale_transaction_index
    BY <1>2, <2>1, <2>4
  <2>6. SameRules(multisig[m], ballot[id].config)
    BY <1>2, <2>1, <2>5 DEF RulesInv, VotableUnderItsRules, Genuine
  <2> QED BY <1>2, <2>1, <2>5, <2>6 DEF SameRules
<1> QED BY <1>1, <1>2 DEF RulesInv, VotableUnderItsRules, Genuine

\* Every step keeps a votable proposal under the rules it was made under.
LEMMA RulesStep ==
    ASSUME RulesInv, Next PROVE RulesInv'
<1>0. TypeOK /\ TypeOK' /\ misread \subseteq misread'
  <2>1. ReuseNext
    BY DEF Next, ReuseNext, InitFresh
  <2> QED BY <2>1, TypeStep, MistakesKept DEF RulesInv
<1>1. ASSUME NEW m \in Keys, NEW g \in Genesis, InitFresh(m, g) PROVE RulesInv'
  <2>1. /\ m \notin created /\ multisig' = Put(multisig, m, NewConfig(g))
        /\ created' = created \cup {m} /\ frame = NoFrame
        /\ UNCHANGED <<transaction, frame, ballot, misread>>
    BY <1>1 DEF InitFresh, InitMultisig
  <2>2. \A id \in DOMAIN transaction : transaction[id].multisig # m
    BY <2>1 DEF RulesInv, Ledger, Genuine
  <2>3. \A k \in DOMAIN multisig' : k # m => k \in DOMAIN multisig /\ multisig'[k] = multisig[k]
    BY <2>1 DEF Put
  <2>4. Ledger'
    BY <2>1, <2>2, <2>3 DEF RulesInv, Ledger, Genuine, Put
  <2>5. VotableUnderItsRules'
    BY <2>1, <2>2, <2>3 DEF RulesInv, VotableUnderItsRules, Genuine, SameRules
  <2> QED BY <1>0, <2>4, <2>5 DEF RulesInv
<1>2. ASSUME NEW m \in Keys, NEW o \in Address, NEW message \in Messages,
             CreateTransaction(m, o, message)
      PROVE  RulesInv'
  <2> DEFINE c == multisig[m]
             id == <<m, c.transaction_index + 1>>
  <2>1. /\ m \in DOMAIN multisig /\ c \in Config /\ id \notin DOMAIN transaction
        /\ transaction' = Put(transaction, id, NewTransaction(m, c, o, message))
        /\ ballot' = Put(ballot, id, NewBallot(c))
        /\ multisig' = [multisig EXCEPT ![m].transaction_index = @ + 1]
        /\ frame = NoFrame /\ UNCHANGED <<frame, created, misread>>
    BY <1>0, <1>2 DEF CreateTransaction, TypeOK
  <2>2. /\ DOMAIN multisig' = DOMAIN multisig
        /\ \A k \in DOMAIN multisig :
              /\ SameRules(multisig'[k], multisig[k])
              /\ multisig'[k].stale_transaction_index = multisig[k].stale_transaction_index
              /\ multisig'[k].transaction_index >= multisig[k].transaction_index
        /\ multisig'[m].transaction_index = c.transaction_index + 1
    BY <1>0, <2>1 DEF SameRules, Config, TypeOK
  <2>3. /\ DOMAIN transaction' = DOMAIN transaction \cup {id}
        /\ \A x \in DOMAIN transaction :
              transaction'[x] = transaction[x] /\ ballot'[x] = ballot[x]
        /\ transaction'[id].multisig = m
        /\ transaction'[id].index = c.transaction_index + 1
        /\ ballot'[id].config = c
    <3>1. DOMAIN ballot = DOMAIN transaction
      BY <1>0 DEF TypeOK
    <3> HIDE DEF id
    <3> QED BY <2>1, <3>1 DEF Put, NewTransaction, NewBallot
  <2> HIDE DEF id
  <2>4. Ledger'
    <3>1. DOMAIN multisig' \subseteq created' /\ m \in created /\ created' = created
      BY <2>1, <2>2 DEF RulesInv, Ledger, Genuine
    <3>2. ASSUME NEW x \in DOMAIN transaction'
          PROVE  /\ transaction'[x].multisig \in created'
                 /\ x \notin misread' /\ transaction'[x].multisig \in DOMAIN multisig' =>
                      transaction'[x].index <= multisig'[transaction'[x].multisig].transaction_index
      <4>1. CASE x = id
        BY <2>1, <2>2, <2>3, <3>1, <4>1 DEF Config
      <4>2. CASE x \in DOMAIN transaction
        <5> DEFINE t == transaction[x]
        <5>1. t \in Transaction /\ t.multisig \in created /\ transaction'[x] = t
          BY <1>0, <2>3, <4>2 DEF TypeOK, RulesInv, Ledger
        <5>2. ASSUME x \notin misread, t.multisig \in DOMAIN multisig
              PROVE  t.index <= multisig'[t.multisig].transaction_index
          <6>1. t.index <= multisig[t.multisig].transaction_index
            BY <4>2, <5>2 DEF RulesInv, Ledger, Genuine
          <6>2. multisig'[t.multisig].transaction_index >= multisig[t.multisig].transaction_index
            BY <2>2, <5>2
          <6>3. /\ t.index \in Nat /\ multisig[t.multisig].transaction_index \in Nat
                /\ multisig'[t.multisig].transaction_index \in Nat
            BY <1>0, <2>2, <5>1, <5>2 DEF TypeOK, Config, Transaction
          <6> QED BY <6>1, <6>2, <6>3
        <5> QED BY <2>1, <2>2, <3>1, <5>1, <5>2
      <4> QED BY <2>3, <4>1, <4>2
    <3> QED BY <2>1, <3>1, <3>2 DEF Ledger, Genuine
  <2>5. VotableUnderItsRules'
    <3>1. ASSUME NEW x \in DOMAIN transaction', x \notin misread',
                 transaction'[x].multisig \in DOMAIN multisig',
                 transaction'[x].index
                    > multisig'[transaction'[x].multisig].stale_transaction_index
          PROVE  SameRules(multisig'[transaction'[x].multisig], ballot'[x].config)
      <4>1. CASE x = id
        BY <2>1, <2>2, <2>3, <4>1
      <4>2. CASE x \in DOMAIN transaction
        <5>1. SameRules(multisig[transaction[x].multisig], ballot[x].config)
          BY <2>1, <2>2, <2>3, <3>1, <4>2 DEF RulesInv, VotableUnderItsRules, Genuine
        <5> QED BY <2>2, <2>3, <3>1, <4>2, <5>1 DEF SameRules
      <4> QED BY <2>3, <4>1, <4>2
    <3> QED BY <3>1 DEF VotableUnderItsRules, Genuine
  <2> QED BY <1>0, <2>4, <2>5 DEF RulesInv
<1>3. ASSUME NEW m \in Keys, NEW id \in DOMAIN transaction, NEW o \in Address,
             Approve(m, id, o)
      PROVE  RulesInv'
  <2> DEFINE u == Approved(transaction[id], multisig[m], Position(multisig[m].owners, o))
  <2>1. transaction' = [transaction EXCEPT ![id] = u]
    BY <1>3 DEF Approve
  <2>2. u.multisig = transaction[id].multisig /\ u.index = transaction[id].index
    BY <1>0, VoteKeeps DEF TypeOK
  <2>3. \A x \in DOMAIN transaction : ballot'[x].config = ballot[x].config
    BY <1>0, <1>3 DEF Approve, TypeOK, Ballot
  <2>4. UNCHANGED <<multisig, frame, created>>
    BY <1>3 DEF Approve
  <2> HIDE DEF u
  <2> QED BY <1>0, <2>1, <2>2, <2>3, <2>4, RulesKept
<1>4. ASSUME NEW m \in Keys, NEW id \in DOMAIN transaction, NEW o \in Address,
             Reject(m, id, o)
      PROVE  RulesInv'
  <2> DEFINE u == Rejected(transaction[id], multisig[m], Position(multisig[m].owners, o))
  <2>1. transaction' = [transaction EXCEPT ![id] = u]
    BY <1>4 DEF Reject
  <2>2. u.multisig = transaction[id].multisig /\ u.index = transaction[id].index
    BY <1>0, VoteKeeps DEF TypeOK
  <2>3. \A x \in DOMAIN transaction : ballot'[x].config = ballot[x].config
    BY <1>0, <1>4 DEF Reject, TypeOK, Ballot
  <2>4. UNCHANGED <<multisig, frame, created>>
    BY <1>4 DEF Reject
  <2> HIDE DEF u
  <2> QED BY <1>0, <2>1, <2>2, <2>3, <2>4, RulesKept
<1>5. ASSUME NEW m \in Keys, NEW id \in DOMAIN transaction, NEW o \in Address,
             CancelActive(m, id, o)
      PROVE  RulesInv'
  <2> DEFINE u == [transaction[id] EXCEPT !.status = "Cancelled"]
  <2>1. transaction' = [transaction EXCEPT ![id] = u]
    BY <1>5 DEF CancelActive
  <2>2. u.multisig = transaction[id].multisig /\ u.index = transaction[id].index
    BY <1>0, VoteKeeps DEF TypeOK
  <2>3. \A x \in DOMAIN transaction : ballot'[x].config = ballot[x].config
    BY <1>0, <1>5 DEF CancelActive, TypeOK, Ballot
  <2>4. UNCHANGED <<multisig, frame, created>>
    BY <1>5 DEF CancelActive
  <2> HIDE DEF u
  <2> QED BY <1>0, <2>1, <2>2, <2>3, <2>4, RulesKept
<1>6. ASSUME NEW m \in Keys, NEW id \in DOMAIN transaction, NEW o \in Address,
             CancelApproved(m, id, o)
      PROVE  RulesInv'
  <2> DEFINE u == CancelVoted(transaction[id], multisig[m], Position(multisig[m].owners, o))
  <2>1. transaction' = [transaction EXCEPT ![id] = u]
    BY <1>6 DEF CancelApproved
  <2>2. u.multisig = transaction[id].multisig /\ u.index = transaction[id].index
    BY <1>0, VoteKeeps DEF TypeOK
  <2>3. \A x \in DOMAIN transaction : ballot'[x].config = ballot[x].config
    BY <1>0, <1>6 DEF CancelApproved, TypeOK, Ballot
  <2>4. UNCHANGED <<multisig, frame, created>>
    BY <1>6 DEF CancelApproved
  <2> HIDE DEF u
  <2> QED BY <1>0, <2>1, <2>2, <2>3, <2>4, RulesKept
<1>7. ASSUME NEW m \in Keys, NEW id \in DOMAIN transaction, NEW o \in Address,
             BeginExecute(m, id, o)
      PROVE  RulesInv'
  <2>1. UNCHANGED <<multisig, transaction, created, ballot>>
    BY <1>7 DEF BeginExecute
  <2>2. frame'.multisig \in DOMAIN multisig /\ frame'.config = multisig[frame'.multisig]
    BY <1>7 DEF BeginExecute
  <2>3. Ledger'
    BY <1>0, <2>1, <2>2 DEF RulesInv, Ledger, Genuine
  <2> QED BY <1>0, <2>1, <2>3, RulesKept
<1>8. ASSUME NEW m \in Keys, NEW id \in DOMAIN transaction, NEW o \in Address,
             CloseTransaction(m, id, o)
      PROVE  RulesInv'
  <2>1. /\ multisig' = [multisig EXCEPT ![m].closed_transaction_count = @ + 1]
        /\ transaction' = Without(transaction, id) /\ ballot' = Without(ballot, id)
        /\ frame' = NoFrame /\ UNCHANGED created
    BY <1>8 DEF CloseTransaction
  <2>2. \A k \in DOMAIN multisig' :
           /\ multisig'[k].transaction_index = multisig[k].transaction_index
           /\ SameRules(multisig'[k], multisig[k])
           /\ multisig'[k].stale_transaction_index = multisig[k].stale_transaction_index
    BY <1>0, <2>1 DEF TypeOK, SameRules, Config
  <2>3. /\ DOMAIN transaction' \subseteq DOMAIN transaction
        /\ \A x \in DOMAIN transaction' :
              transaction'[x] = transaction[x] /\ ballot'[x] = ballot[x]
    BY <1>0, <2>1 DEF TypeOK, Without, Restrict
  <2> QED BY <1>0, <2>1, <2>2, <2>3, RulesMoved
<1>9. ASSUME NEW m \in Keys, NEW a \in Address, NEW i \in AuthorityActions,
             SetConfig(m, a, i)
      PROVE  RulesInv'
  <2> DEFINE r == ApplyConfigAction(multisig[m], i)
  <2>1. /\ m \in DOMAIN multisig /\ r # Err
        /\ multisig' = [multisig EXCEPT ![m] = r]
        /\ frame' = NoFrame /\ UNCHANGED <<transaction, created, ballot>>
    BY <1>9 DEF SetConfig, Authorized
  <2>2. multisig[m] \in Config /\ i \in Instruction
    BY <1>0, <2>1, MessagesAssumption DEF TypeOK
  <2>3. /\ r.transaction_index = multisig[m].transaction_index
        /\ r.stale_transaction_index = multisig[m].transaction_index
    BY <2>1, <2>2, ConfigActionType
  <2> HIDE DEF r
  <2>4. \A k \in DOMAIN multisig' :
           /\ multisig'[k].transaction_index = multisig[k].transaction_index
           /\ \/ multisig'[k] = multisig[k]
              \/ multisig'[k].stale_transaction_index = multisig[k].transaction_index
    BY <2>1, <2>3
  <2> QED BY <1>0, <2>1, <2>4, RulesMoved DEF SameRules
<1>10. ASSUME NEW m \in Keys, NEW a \in Address, NEW i \in AuthorityActions,
              SetConfigClose(m, a, i)
       PROVE  RulesInv'
  <2>1. /\ multisig' = Without(multisig, m) /\ frame' = NoFrame
        /\ UNCHANGED <<transaction, created, ballot>>
    BY <1>10 DEF SetConfigClose, Authorized
  <2>2. DOMAIN multisig' \subseteq DOMAIN multisig
        /\ \A k \in DOMAIN multisig' : multisig'[k] = multisig[k]
    BY <2>1 DEF Without, Restrict
  <2> QED BY <1>0, <2>1, <2>2, RulesMoved DEF SameRules
<1>11. ASSUME AtInstruction
       PROVE  /\ frame \in Frame /\ frame # NoFrame
              /\ frame.config \in Config
              /\ Head(frame.rest) \in Instruction
  <2>1. frame \in Frame /\ frame # NoFrame /\ frame.rest # <<>>
    BY <1>0, <1>11 DEF AtInstruction, TypeOK
  <2>2. frame.rest \in Seq(Instruction) /\ frame.config \in Config
    BY <2>1 DEF Frame
  <2> QED BY <2>1, <2>2
<1>12. CASE ConfigStep
  <2> DEFINE r == ApplyConfigAction(frame.config, Head(frame.rest))
  <2>1. /\ AtInstruction /\ r # Err
        /\ frame' = [frame EXCEPT !.config = r, !.rest = Tail(@)]
        /\ UNCHANGED <<multisig, transaction, created, ballot>>
    BY <1>12 DEF ConfigStep
  <2>2. /\ r.transaction_index = frame.config.transaction_index
        /\ r.stale_transaction_index = frame.config.transaction_index
    BY <1>11, <2>1, ConfigActionType
  <2> HIDE DEF r
  <2>3. frame'.multisig = frame.multisig /\ frame'.config = r
    BY <1>11, <2>1 DEF Frame
  <2>4. Ledger'
    BY <1>0, <1>11, <2>1, <2>2, <2>3 DEF RulesInv, Ledger, Genuine
  <2> QED BY <1>0, <2>1, <2>4, RulesKept
<1>13. CASE CloseStep \/ CpiStep
  <2>1. /\ AtInstruction
        /\ UNCHANGED <<multisig, transaction, created, ballot>>
    BY <1>13 DEF CloseStep, CpiStep
  <2>2. frame'.multisig = frame.multisig /\ frame'.config = frame.config
    BY <1>11, <1>13, <2>1 DEF CloseStep, CpiStep, Frame
  <2>3. Ledger'
    BY <1>0, <1>11, <2>1, <2>2 DEF RulesInv, Ledger, Genuine
  <2> QED BY <1>0, <2>1, <2>3, RulesKept
<1>14. CASE EndExecute
  <2>1. /\ frame # NoFrame /\ frame' = NoFrame /\ UNCHANGED <<created, ballot>>
        /\ multisig' = IF frame.closed THEN Without(multisig, frame.multisig)
                       ELSE [multisig EXCEPT ![frame.multisig] = frame.config]
        /\ transaction' = [transaction EXCEPT ![frame.transaction].status = "Executed"]
    BY <1>14 DEF EndExecute
  <2>2. \A k \in DOMAIN multisig' :
           /\ k \in DOMAIN multisig
           /\ multisig'[k] # multisig[k] => k = frame.multisig /\ multisig'[k] = frame.config
    BY <2>1 DEF Without, Restrict
  <2>3. \A k \in DOMAIN multisig' :
           /\ multisig'[k].transaction_index = multisig[k].transaction_index
           /\ \/ multisig'[k] = multisig[k]
              \/ multisig'[k].stale_transaction_index = multisig[k].transaction_index
    BY <2>1, <2>2 DEF RulesInv, Ledger, Genuine
  <2>4. /\ DOMAIN transaction' = DOMAIN transaction
        /\ \A x \in DOMAIN transaction :
              /\ transaction'[x].multisig = transaction[x].multisig
              /\ transaction'[x].index = transaction[x].index
    BY <1>0, <2>1 DEF TypeOK, Transaction
  <2> QED BY <1>0, <2>1, <2>2, <2>3, <2>4, RulesMoved DEF SameRules
<1>15. CASE Abort
  BY <1>0, <1>15, RulesKept DEF Abort
<1>16. CASE Tick
  BY <1>0, <1>16, RulesKept DEF Tick
<1>17. ASSUME NEW id \in DOMAIN transaction, NEW a \in Address, NEW i \in AuthorityActions,
              SetConfigOnTransaction(id, a, i)
       PROVE  RulesInv'
  <2>1. PICK t \in Rewritten(transaction[id], i) : transaction' = [transaction EXCEPT ![id] = t]
    BY <1>17 DEF SetConfigOnTransaction
  <2>2. t.multisig = transaction[id].multisig
    BY <1>0, RewrittenType, MessagesAssumption DEF TypeOK
  <2>3. id \in misread' /\ UNCHANGED <<multisig, frame, created, ballot>>
    BY <1>17 DEF SetConfigOnTransaction
  <2> QED BY <1>0, <2>1, <2>2, <2>3, RulesKept
<1>18. ASSUME NEW id \in DOMAIN transaction, NEW a \in Address, NEW i \in AuthorityActions,
              SetConfigCloseOnTransaction(id, a, i)
       PROVE  RulesInv'
  <2>1. /\ transaction' = Without(transaction, id) /\ ballot' = Without(ballot, id)
        /\ UNCHANGED <<multisig, frame, created>>
    BY <1>18 DEF SetConfigCloseOnTransaction
  <2>2. /\ DOMAIN transaction' \subseteq DOMAIN transaction
        /\ \A x \in DOMAIN transaction' :
              transaction'[x] = transaction[x] /\ ballot'[x] = ballot[x]
    BY <1>0, <2>1 DEF TypeOK, Without, Restrict
  <2> QED BY <1>0, <2>1, <2>2, RulesKept
<1>19. ASSUME NEW m \in Keys, CloseOther(m) PROVE RulesInv'
  <2>1. /\ multisig' = [multisig EXCEPT ![m].closed_transaction_count = @ + 1]
        /\ frame' = NoFrame /\ UNCHANGED <<transaction, created, ballot>>
    BY <1>19 DEF CloseOther
  <2>2. \A k \in DOMAIN multisig' :
           /\ multisig'[k].transaction_index = multisig[k].transaction_index
           /\ SameRules(multisig'[k], multisig[k])
           /\ multisig'[k].stale_transaction_index = multisig[k].stale_transaction_index
    BY <1>0, <2>1 DEF TypeOK, SameRules, Config
  <2> QED BY <1>0, <2>1, <2>2, RulesMoved
<1> QED
  BY <1>1, <1>2, <1>3, <1>4, <1>5, <1>6, <1>7, <1>8, <1>9, <1>10, <1>12, <1>13,
     <1>14, <1>15, <1>16, <1>17, <1>18, <1>19 DEF Next, Step

\* No votable proposal is under rules other than the ones it was made under,
\* whatever proposals and authorities change and in whatever order, provided a
\* create key is used once and the proposal itself is never written as a
\* multisig; others may be.
THEOREM RulesHeld == Spec => []VotableUnderItsRules
<1>1. Init => RulesInv
  BY DEF Init, TypeOK, RulesInv, Ledger, VotableUnderItsRules, Genuine
<1>2. RulesInv /\ [Next]_vars => RulesInv'
  <2>1. CASE UNCHANGED vars
    BY <2>1 DEF vars, RulesInv, TypeOK, Ledger, VotableUnderItsRules, Genuine, SameRules
  <2> QED BY <2>1, RulesStep
<1>3. RulesInv => VotableUnderItsRules
  BY DEF RulesInv
<1> QED BY <1>1, <1>2, <1>3, PTL DEF Spec
=============================================================================
