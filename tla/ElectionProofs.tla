--------------------------- MODULE ElectionProofs ---------------------------
(***************************************************************************)
(* Multisig implements Election, for every instance: under the mapping     *)
(* Polls the initial state is an initial state of Election and every step  *)
(* is one of its steps, or leaves the polls alone.  Writing a proposal as  *)
(* a multisig spoils its poll; what happens to it later is no step.        *)
(***************************************************************************)
EXTENDS BallotProofs

\* The poll a proposal and its ballot stand for.
PollOf(t, b) ==
    [voters  |-> Voters(b.config),
     quorum  |-> b.config.threshold,
     yes     |-> b.approvers,
     no      |-> b.rejecters,
     undo    |-> b.cancellers,
     outcome |-> t.status]

\* The polls before and after a step, proposal by proposal.
LEMMA PollsAre ==
    /\ Polls = [id \in Genuine |-> PollOf(transaction[id], ballot[id])]
    /\ Polls' = [id \in Genuine' |-> PollOf(transaction'[id], ballot'[id])]
BY DEF Polls, PollOf

\* Proposals written as a multisig are no polls.
LEMMA PollsUntouched ==
    ASSUME UNCHANGED <<Genuine, misread>>,
           \A x \in Genuine : transaction'[x] = transaction[x] /\ ballot'[x] = ballot[x]
    PROVE  UNCHANGED <<Polls, misread>>
BY PollsAre

\* Election counts as Multisig does.
LEMMA PollSize == \A S : Promise!Cardinality(S) = Cardinality(S)
BY DEF Promise!Cardinality, Cardinality, Promise!IsFiniteSet, IsFiniteSet

\* A poll is well formed, and known by its parts.
LEMMA PollType ==
    ASSUME NEW t \in Transaction, NEW b \in Ballot
    PROVE  PollOf(t, b) \in Promise!Poll
<1>1. /\ Voters(b.config) \in SUBSET Address /\ b.config.threshold \in Nat
  BY BallotFinite
<1>2. /\ b.approvers \in SUBSET Address /\ b.rejecters \in SUBSET Address
      /\ b.cancellers \in SUBSET Address /\ t.status \in Status
  BY DEF Ballot, Transaction
<1> QED BY <1>1, <1>2 DEF PollOf, Promise!Poll, Status

LEMMA PollUpdates ==
    ASSUME NEW q \in Promise!Poll, NEW r \in Promise!Poll,
           r.voters = q.voters, r.quorum = q.quorum
    PROVE  /\ r.no = q.no /\ r.undo = q.undo =>
                 r = [q EXCEPT !.yes = r.yes, !.outcome = r.outcome]
           /\ r.yes = q.yes /\ r.undo = q.undo =>
                 r = [q EXCEPT !.no = r.no, !.outcome = r.outcome]
           /\ r.yes = q.yes /\ r.no = q.no =>
                 r = [q EXCEPT !.undo = r.undo, !.outcome = r.outcome]
           /\ r.yes = q.yes /\ r.no = q.no /\ r.undo = q.undo =>
                 r = [q EXCEPT !.outcome = r.outcome]
BY DEF Promise!Poll

\* A step that changes one proposal changes one poll.
LEMMA PollChanges ==
    ASSUME TypeOK, TypeOK',
           NEW id \in Genuine, DOMAIN transaction' = DOMAIN transaction, UNCHANGED misread,
           \A x \in DOMAIN transaction : x # id =>
              transaction'[x] = transaction[x] /\ ballot'[x] = ballot[x]
    PROVE  /\ id \in DOMAIN Polls
           /\ Polls[id] = PollOf(transaction[id], ballot[id])
           /\ Polls'[id] = PollOf(transaction'[id], ballot'[id])
           /\ Polls[id] \in Promise!Poll /\ Polls'[id] \in Promise!Poll
           /\ Polls' = [Polls EXCEPT ![id] = Polls'[id]]
<1>1. /\ Genuine' = Genuine /\ id \in DOMAIN transaction
      /\ \A x \in Genuine : x # id =>
            PollOf(transaction'[x], ballot'[x]) = PollOf(transaction[x], ballot[x])
  BY DEF Genuine
<1>2. /\ Polls[id] = PollOf(transaction[id], ballot[id])
      /\ Polls'[id] = PollOf(transaction'[id], ballot'[id])
      /\ id \in DOMAIN Polls
  BY <1>1, PollsAre
<1>3. Polls' = [Polls EXCEPT ![id] = Polls'[id]]
  BY <1>1, <1>2, PollsAre
<1>4. /\ transaction[id] \in Transaction /\ ballot[id] \in Ballot
      /\ transaction'[id] \in Transaction /\ ballot'[id] \in Ballot
  BY <1>1 DEF TypeOK
<1> QED BY <1>2, <1>3, <1>4, PollType

LEMMA PollApprove ==
    ASSUME BallotInv, TypeOK', NEW m \in Keys, NEW id \in Genuine,
           NEW o \in Address, Approve(m, id, o)
    PROVE  Promise!Approve(id, o)
<1> DEFINE b == ballot[id]
           d == ballot'[id]
           q == Polls[id]
           r == Polls'[id]
           yes == b.approvers \cup {o}
<1>1. /\ DOMAIN transaction' = DOMAIN transaction
      /\ \A x \in DOMAIN transaction : x # id =>
            transaction'[x] = transaction[x] /\ ballot'[x] = ballot[x]
      /\ transaction[id].status = "Active"
      /\ o \in Voters(b.config) /\ o \notin b.approvers \cup b.rejecters
      /\ d.config = b.config /\ d.approvers = yes
      /\ d.rejecters = b.rejecters /\ d.cancellers = b.cancellers
      /\ transaction'[id].status =
            IF Cardinality(yes) >= b.config.threshold THEN "Approved" ELSE "Active"
  BY ApproveStep
<1>0. UNCHANGED misread
  BY DEF Approve
<1>2. /\ q = PollOf(transaction[id], b) /\ r = PollOf(transaction'[id], d)
      /\ q \in Promise!Poll /\ r \in Promise!Poll
      /\ id \in DOMAIN Polls /\ Polls' = [Polls EXCEPT ![id] = r]
  BY <1>0, <1>1, PollChanges DEF BallotInv, RulesInv
<1> HIDE DEF b, d, q, r
<1>3. /\ r.voters = q.voters /\ r.quorum = q.quorum /\ r.no = q.no /\ r.undo = q.undo
      /\ r.yes = q.yes \cup {o} /\ q.outcome = "Active"
      /\ r.outcome = IF Cardinality(q.yes \cup {o}) >= q.quorum THEN "Approved" ELSE q.outcome
      /\ o \in q.voters /\ o \notin q.yes \cup q.no
  BY <1>1, <1>2 DEF PollOf
<1>4. r = [q EXCEPT !.yes = r.yes, !.outcome = r.outcome]
  BY <1>2, <1>3, PollUpdates
<1>5. Polls' = [Polls EXCEPT ![id].yes = r.yes, ![id].outcome = r.outcome]
  BY <1>2, <1>4 DEF q
<1> QED BY <1>3, <1>5, PollSize DEF q, Promise!Approve, Promise!Entitled

LEMMA PollReject ==
    ASSUME BallotInv, TypeOK', NEW m \in Keys, NEW id \in Genuine,
           NEW o \in Address, Reject(m, id, o)
    PROVE  Promise!Reject(id, o)
<1> DEFINE b == ballot[id]
           d == ballot'[id]
           q == Polls[id]
           r == Polls'[id]
           no == b.rejecters \cup {o}
<1>1. /\ DOMAIN transaction' = DOMAIN transaction
      /\ \A x \in DOMAIN transaction : x # id =>
            transaction'[x] = transaction[x] /\ ballot'[x] = ballot[x]
      /\ transaction[id].status = "Active"
      /\ o \in Voters(b.config) /\ o \notin b.approvers \cup b.rejecters
      /\ d.config = b.config /\ d.rejecters = no
      /\ d.approvers = b.approvers /\ d.cancellers = b.cancellers
      /\ transaction'[id].status =
            IF Cardinality(Voters(b.config) \ no) < b.config.threshold
            THEN "Rejected" ELSE "Active"
  BY RejectStep
<1>0. UNCHANGED misread
  BY DEF Reject
<1>2. /\ q = PollOf(transaction[id], b) /\ r = PollOf(transaction'[id], d)
      /\ q \in Promise!Poll /\ r \in Promise!Poll
      /\ id \in DOMAIN Polls /\ Polls' = [Polls EXCEPT ![id] = r]
  BY <1>0, <1>1, PollChanges DEF BallotInv, RulesInv
<1> HIDE DEF b, d, q, r
<1>3. /\ r.voters = q.voters /\ r.quorum = q.quorum /\ r.yes = q.yes /\ r.undo = q.undo
      /\ r.no = q.no \cup {o} /\ q.outcome = "Active"
      /\ r.outcome = IF Cardinality(q.voters \ (q.no \cup {o})) < q.quorum
                     THEN "Rejected" ELSE q.outcome
      /\ o \in q.voters /\ o \notin q.yes \cup q.no
  BY <1>1, <1>2 DEF PollOf
<1>4. r = [q EXCEPT !.no = r.no, !.outcome = r.outcome]
  BY <1>2, <1>3, PollUpdates
<1>5. Polls' = [Polls EXCEPT ![id].no = r.no, ![id].outcome = r.outcome]
  BY <1>2, <1>4 DEF q
<1> QED BY <1>3, <1>5, PollSize DEF q, Promise!Reject, Promise!Entitled

LEMMA PollUndo ==
    ASSUME BallotInv, TypeOK', NEW m \in Keys, NEW id \in Genuine,
           NEW o \in Address, CancelApproved(m, id, o)
    PROVE  Promise!Undo(id, o)
<1> DEFINE b == ballot[id]
           d == ballot'[id]
           q == Polls[id]
           r == Polls'[id]
           undo == b.cancellers \cup {o}
<1>1. /\ DOMAIN transaction' = DOMAIN transaction
      /\ \A x \in DOMAIN transaction : x # id =>
            transaction'[x] = transaction[x] /\ ballot'[x] = ballot[x]
      /\ transaction[id].status = "Approved"
      /\ o \in Voters(b.config) /\ o \notin b.cancellers
      /\ d.config = b.config /\ d.cancellers = undo
      /\ d.approvers = b.approvers /\ d.rejecters = b.rejecters
      /\ transaction'[id].status =
            IF Cardinality(undo) >= b.config.threshold THEN "Cancelled" ELSE "Approved"
  BY CancelStep
<1>0. UNCHANGED misread
  BY DEF CancelApproved
<1>2. /\ q = PollOf(transaction[id], b) /\ r = PollOf(transaction'[id], d)
      /\ q \in Promise!Poll /\ r \in Promise!Poll
      /\ id \in DOMAIN Polls /\ Polls' = [Polls EXCEPT ![id] = r]
  BY <1>0, <1>1, PollChanges DEF BallotInv, RulesInv
<1> HIDE DEF b, d, q, r
<1>3. /\ r.voters = q.voters /\ r.quorum = q.quorum /\ r.yes = q.yes /\ r.no = q.no
      /\ r.undo = q.undo \cup {o} /\ q.outcome = "Approved"
      /\ r.outcome = IF Cardinality(q.undo \cup {o}) >= q.quorum
                     THEN "Cancelled" ELSE q.outcome
      /\ o \in q.voters /\ o \notin q.undo
  BY <1>1, <1>2 DEF PollOf
<1>4. r = [q EXCEPT !.undo = r.undo, !.outcome = r.outcome]
  BY <1>2, <1>3, PollUpdates
<1>5. Polls' = [Polls EXCEPT ![id].undo = r.undo, ![id].outcome = r.outcome]
  BY <1>2, <1>4 DEF q
<1> QED BY <1>3, <1>5, PollSize DEF q, Promise!Undo, Promise!Entitled

\* Withdrawing and running change the outcome alone.
LEMMA PollOutcome ==
    ASSUME TypeOK, TypeOK', NEW id \in Genuine, NEW s,
           transaction' = [transaction EXCEPT ![id].status = s], UNCHANGED <<ballot, misread>>
    PROVE  /\ Polls[id].outcome = transaction[id].status
           /\ Polls' = [Polls EXCEPT ![id].outcome = s]
<1> DEFINE q == Polls[id]
           r == Polls'[id]
<1>1. /\ DOMAIN transaction' = DOMAIN transaction
      /\ \A x \in DOMAIN transaction : x # id =>
            transaction'[x] = transaction[x] /\ ballot'[x] = ballot[x]
      /\ transaction'[id].status = s
  BY DEF TypeOK, Transaction, Genuine
<1>2. /\ q = PollOf(transaction[id], ballot[id]) /\ r = PollOf(transaction'[id], ballot'[id])
      /\ q \in Promise!Poll /\ r \in Promise!Poll
      /\ id \in DOMAIN Polls /\ Polls' = [Polls EXCEPT ![id] = r]
  BY <1>1, PollChanges
<1> HIDE DEF q, r
<1>3. /\ r.voters = q.voters /\ r.quorum = q.quorum /\ r.yes = q.yes /\ r.no = q.no
      /\ r.undo = q.undo /\ r.outcome = s /\ q.outcome = transaction[id].status
  BY <1>1, <1>2 DEF PollOf
<1>4. r = [q EXCEPT !.outcome = r.outcome]
  BY <1>2, <1>3 DEF Promise!Poll
<1>5. Polls' = [Polls EXCEPT ![id] = [Polls[id] EXCEPT !.outcome = s]]
  BY <1>2, <1>3, <1>4 DEF q
<1> QED BY <1>2, <1>3, <1>5 DEF q

LEMMA PollOpen ==
    ASSUME BallotInv, TypeOK', NEW m \in Keys, NEW o \in Address, NEW message \in Messages,
           CreateTransaction(m, o, message)
    PROVE  \/ UNCHANGED <<Polls, misread>>
           \/ UNCHANGED misread /\ \E p \in Keys \X (1..MAX_INDEX) : Promise!Open(p)
<1> DEFINE c == multisig[m]
           id == <<m, c.transaction_index + 1>>
           r == Polls'[id]
<1>1. /\ m \in DOMAIN multisig /\ c \in Config
      /\ id \in Keys \X (1..MAX_INDEX) /\ id \notin DOMAIN transaction
      /\ DOMAIN transaction' = DOMAIN transaction \cup {id}
      /\ DOMAIN ballot' = DOMAIN transaction \cup {id}
      /\ \A x \in DOMAIN transaction :
            transaction'[x] = transaction[x] /\ ballot'[x] = ballot[x]
      /\ transaction'[id] = NewTransaction(m, c, o, message)
      /\ ballot'[id] = NewBallot(c)
      /\ UNCHANGED misread
  BY CreateStep DEF BallotInv, RulesInv, CreateTransaction
<1>2. CountsVoters(c)
  BY <1>1 DEF BallotInv, VoterCountExact
<1>3. transaction'[id] \in Transaction /\ ballot'[id] \in Ballot
  BY <1>1 DEF TypeOK
<1> HIDE DEF id
<1>9. CASE id \in misread
  <2>1. Genuine' = Genuine /\ Genuine \subseteq DOMAIN transaction
    BY <1>1, <1>9 DEF Genuine
  <2> QED BY <1>1, <2>1, PollsUntouched
<1> SUFFICES ASSUME id \notin misread
             PROVE  UNCHANGED misread /\ \E p \in Keys \X (1..MAX_INDEX) : Promise!Open(p)
  BY <1>9
<1>4. /\ DOMAIN Polls = Genuine /\ DOMAIN Polls' = Genuine \cup {id} /\ id \notin Genuine
      /\ \A x \in DOMAIN Polls : Polls'[x] = Polls[x]
      /\ r = PollOf(transaction'[id], ballot'[id])
  <2>1. Genuine' = Genuine \cup {id} /\ Genuine \subseteq DOMAIN transaction /\ id \notin Genuine
    BY <1>1 DEF Genuine
  <2> QED BY <1>1, <2>1, PollsAre
<1>5. /\ r \in Promise!Poll /\ r.voters = Voters(c) /\ r.quorum = c.threshold
      /\ r.yes = {} /\ r.no = {} /\ r.undo = {} /\ r.outcome = "Active"
  <2> DEFINE t == transaction'[id]
             b == ballot'[id]
  <2>1. /\ t.status = "Active" /\ b.config = c
        /\ b.approvers = {} /\ b.rejecters = {} /\ b.cancellers = {}
    BY <1>1 DEF NewTransaction, NewBallot
  <2>2. r \in Promise!Poll
    BY <1>3, <1>4, PollType
  <2> HIDE DEF t, b, r
  <2>3. r = PollOf(t, b)
    BY <1>4 DEF t, b
  <2> QED BY <2>1, <2>2, <2>3 DEF PollOf
<1>6. r.quorum \in 1..Cardinality(r.voters)
  BY <1>2, <1>5 DEF CountsVoters
<1> HIDE DEF r
<1>7. Promise!Fresh(r)
  BY <1>5, <1>6, PollSize DEF Promise!Fresh
<1>8. Promise!Open(id)
  BY <1>1, <1>4, <1>7 DEF Promise!Open, r
<1> QED BY <1>1, <1>8

LEMMA PollForget ==
    ASSUME TypeOK, NEW m \in Keys, NEW id \in Genuine, NEW o \in Address,
           CloseTransaction(m, id, o)
    PROVE  Promise!Forget(id)
<1>1. /\ Genuine' = Genuine \ {id}
      /\ \A x \in Genuine' :
            transaction'[x] = transaction[x] /\ ballot'[x] = ballot[x]
  BY DEF CloseTransaction, Without, Restrict, TypeOK, Genuine
<1>2. Polls[id].outcome \in Terminal
  BY PollsAre DEF CloseTransaction, PollOf
<1>3. DOMAIN Polls = Genuine /\ \A x \in Genuine' : Polls'[x] = Polls[x]
  BY <1>1, PollsAre
<1>4. Polls' = [x \in DOMAIN Polls \ {id} |-> Polls[x]]
  BY <1>1, <1>3, PollsAre
<1> QED BY <1>2, <1>4 DEF Promise!Forget, Promise!Restrict, Terminal

\* A proposal written as a multisig is one poll less, the first time.
LEMMA PollSpoil ==
    ASSUME TypeOK, NEW id \in DOMAIN transaction, NEW a, NEW i,
           SetConfigOnTransaction(id, a, i) \/ SetConfigCloseOnTransaction(id, a, i)
    PROVE  UNCHANGED <<Polls, misread>> \/ (id \in DOMAIN Polls /\ Promise!Spoil(id))
<1>1. /\ misread' = misread \cup {id}
      /\ DOMAIN transaction' \cup {id} = DOMAIN transaction
      /\ \A x \in DOMAIN transaction : x # id =>
            transaction'[x] = transaction[x] /\ ballot'[x] = ballot[x]
  BY DEF SetConfigOnTransaction, SetConfigCloseOnTransaction, Without, Restrict, TypeOK
<1>2. Genuine' = Genuine \ {id} /\ \A x \in Genuine' : x \in DOMAIN transaction /\ x # id
  BY <1>1 DEF Genuine
<1>3. CASE id \in misread
  <2>1. Genuine' = Genuine /\ misread' = misread
    BY <1>1, <1>2, <1>3 DEF Genuine
  <2> QED BY <1>1, <1>2, <2>1, PollsUntouched
<1>4. CASE id \notin misread
  <2>1. id \in Genuine /\ DOMAIN Polls = Genuine
    BY <1>4, PollsAre DEF Genuine
  <2>2. Polls' = [x \in DOMAIN Polls \ {id} |-> Polls[x]]
    BY <1>1, <1>2, <2>1, PollsAre
  <2> QED BY <1>1, <2>1, <2>2 DEF Promise!Spoil, Promise!Restrict
<1> QED BY <1>3, <1>4

LEMMA PollInit == Init => Promise!Init
BY DEF Init, Promise!Init, Polls, Genuine

LEMMA PollStep ==
    ASSUME BallotInv, BallotInv', Next
    PROVE  Promise!Next \/ UNCHANGED <<Polls, misread>>
<1> DEFINE Done == Promise!Next \/ UNCHANGED <<Polls, misread>>
<1>0. TypeOK /\ TypeOK' /\ Running /\ DOMAIN Polls = Genuine
  BY PollsAre DEF BallotInv, RulesInv
<1>1. ASSUME UNCHANGED <<transaction, ballot, misread>> PROVE Done
  BY <1>1 DEF Polls, Genuine
<1>2. ASSUME NEW m \in Keys, NEW o \in Address, NEW message \in Messages,
             CreateTransaction(m, o, message)
      PROVE  Done
  BY <1>0, <1>2, PollOpen DEF Promise!Next
<1>3. ASSUME NEW m \in Keys, NEW id \in DOMAIN transaction, NEW o \in Address,
             Approve(m, id, o) \/ Reject(m, id, o) \/ CancelApproved(m, id, o)
      PROVE  Done
  <2>1. /\ DOMAIN transaction' = DOMAIN transaction /\ UNCHANGED misread
        /\ \A x \in DOMAIN transaction : x # id =>
              transaction'[x] = transaction[x] /\ ballot'[x] = ballot[x]
    BY <1>0, <1>3, VoteOthers
  <2>2. CASE id \in Genuine
    BY <1>0, <1>3, <2>1, <2>2, PollApprove, PollReject, PollUndo DEF Promise!Next
  <2>3. CASE id \notin Genuine
    BY <2>1, <2>3, PollsUntouched DEF Genuine
  <2> QED BY <2>2, <2>3
<1>4. ASSUME NEW m \in Keys, NEW id \in DOMAIN transaction, NEW o \in Address,
             CancelActive(m, id, o)
      PROVE  Done
  <2>1. /\ transaction' = [transaction EXCEPT ![id].status = "Cancelled"]
        /\ UNCHANGED <<ballot, misread>> /\ transaction[id].status = "Active"
    BY <1>4 DEF CancelActive, Prepared, CheckVotable
  <2>2. CASE id \in Genuine
    <3>1. Promise!Withdraw(id)
      BY <1>0, <2>1, <2>2, PollOutcome DEF Promise!Withdraw
    <3> QED BY <1>0, <2>1, <2>2, <3>1 DEF Promise!Next
  <2>3. CASE id \notin Genuine
    BY <2>1, <2>3, PollsUntouched DEF Genuine
  <2> QED BY <2>2, <2>3
<1>5. ASSUME NEW m \in Keys, NEW id \in DOMAIN transaction, NEW o \in Address,
             CloseTransaction(m, id, o)
      PROVE  Done
  <2>1. UNCHANGED misread
    BY <1>5 DEF CloseTransaction
  <2>2. CASE id \in Genuine
    BY <1>0, <1>5, <2>1, <2>2, PollForget DEF Promise!Next
  <2>3. CASE id \notin Genuine
    <3>1. /\ Genuine' = Genuine
          /\ \A x \in Genuine : transaction'[x] = transaction[x] /\ ballot'[x] = ballot[x]
      BY <1>0, <1>5, <2>3 DEF CloseTransaction, Without, Restrict, TypeOK, Genuine
    <3> QED BY <2>1, <3>1, PollsUntouched
  <2> QED BY <2>2, <2>3
<1>6. ASSUME EndExecute PROVE Done
  <2> DEFINE id == frame.transaction
  <2>1. /\ transaction' = [transaction EXCEPT ![id].status = "Executed"]
        /\ UNCHANGED <<ballot, misread>> /\ id \in DOMAIN transaction
        /\ transaction[id].status = "Approved"
    BY <1>0, <1>6 DEF EndExecute, Running
  <2> HIDE DEF id
  <2>2. CASE id \in Genuine
    <3>1. Promise!Run(id)
      BY <1>0, <2>1, <2>2, PollOutcome DEF Promise!Run
    <3> QED BY <1>0, <2>1, <2>2, <3>1 DEF Promise!Next
  <2>3. CASE id \notin Genuine
    BY <2>1, <2>3, PollsUntouched DEF Genuine
  <2> QED BY <2>2, <2>3
<1>7. ASSUME NEW id \in DOMAIN transaction, NEW a \in Address, NEW i \in AuthorityActions,
             SetConfigOnTransaction(id, a, i) \/ SetConfigCloseOnTransaction(id, a, i)
      PROVE  Done
  BY <1>0, <1>7, PollSpoil DEF Promise!Next
<1> HIDE DEF Done
<1>8. Done
  BY <1>1, <1>2, <1>3, <1>4, <1>5, <1>6, <1>7, ProposalSteps, FreshReuses
<1> QED BY <1>8 DEF Done

\* The program implements the election: whatever is reconfigured, in whatever
\* order, each proposal gets the votes, the outcome and the single run that
\* its voters and quorum at creation would give it, until the day its own
\* account is written as a multisig, which spoils its poll and no other.
THEOREM ElectionImplemented == Spec => ImplementsElection
<1>1. BallotInv /\ BallotInv' /\ [Next]_vars => [Promise!Next]_<<Polls, misread>>
  <2>1. UNCHANGED vars => UNCHANGED <<Polls, misread>>
    BY DEF vars, Polls, Genuine
  <2> QED BY <2>1, PollStep
<1> QED BY <1>1, PollInit, BallotsSound, PTL DEF Spec, ImplementsElection, Promise!Spec
=============================================================================
