---------------------------- MODULE BallotProofs ----------------------------
(***************************************************************************)
(* Theorems about the votes on a proposal, for every instance: the bits    *)
(* and counters are the votes people cast, an outcome is the one the rules *)
(* at creation give, an Active proposal can still be approved, and every   *)
(* step of the program is a step of Election.                              *)
(***************************************************************************)
EXTENDS MultisigProofs

\* So a bit is set exactly when its owner is among the people it is set for.
LEMMA BitsName ==
    ASSUME NEW b, b.config.owners \in SUBSET Address,
           NEW people \in SUBSET b.config.owners, NEW o \in b.config.owners
    PROVE  /\ Position(b.config.owners, o) \in Bits(b, people) <=> o \in people
           /\ Bits(b, people \cup {o}) = Bits(b, people) \cup {Position(b.config.owners, o)}
<1>1. ASSUME Position(b.config.owners, o) \in Bits(b, people) PROVE o \in people
  <2>1. PICK a \in people : Position(b.config.owners, o) = Position(b.config.owners, a)
    BY <1>1 DEF Bits
  <2> QED BY <2>1, PositionInjective
<1>2. ASSUME o \in people PROVE Position(b.config.owners, o) \in Bits(b, people)
  BY <1>2 DEF Bits
<1>3. Bits(b, people \cup {o}) = Bits(b, people) \cup {Position(b.config.owners, o)}
  BY DEF Bits
<1> QED BY <1>1, <1>2, <1>3

(***************************************************************************)
(* One proposal and its ballot.                                            *)
(***************************************************************************)
\* VotesNameTheirVoters of one proposal.
Names(t, b) ==
    /\ t.approved = Bits(b, b.approvers)
    /\ t.rejected = Bits(b, b.rejecters)
    /\ t.cancelled = Bits(b, b.cancellers)
    /\ t.approved_count = Cardinality(b.approvers)
    /\ t.rejected_count = Cardinality(b.rejecters)
    /\ t.cancelled_count = Cardinality(b.cancellers)
    /\ b.approvers \cap b.rejecters = {}
    /\ b.approvers \cup b.rejecters \cup b.cancellers \subseteq Voters(b.config)

\* SettledByItsOwnRules of one proposal, with what NoDeadBallot adds: a
\* proposal stays Active only as long as enough voters have not rejected.
Verdict(t, b) ==
    LET yes  == Cardinality(b.approvers)
        undo == Cardinality(b.cancellers)
        need == b.config.threshold
    IN  /\ t.status = "Active" =>
              /\ yes < need
              /\ b.cancellers = {}
              /\ Cardinality(Voters(b.config) \ b.rejecters) >= need
        /\ t.status \in {"Approved", "Executed"} => yes >= need /\ undo < need
        /\ t.status = "Rejected" => Cardinality(Voters(b.config) \ b.rejecters) < need
        /\ t.status = "Cancelled" => IF yes >= need THEN undo >= need ELSE undo = 0

Sound(t, b) == CountsVoters(b.config) /\ Names(t, b) /\ Verdict(t, b)

\* A ballot's people are finitely many voters.
LEMMA BallotFinite ==
    ASSUME NEW b \in Ballot
    PROVE  /\ b.config \in Config
           /\ b.config.owners \in SUBSET Address
           /\ Voters(b.config) \in SUBSET b.config.owners
           /\ IsFiniteSet(Voters(b.config)) /\ Cardinality(Voters(b.config)) \in Nat
           /\ b.config.threshold \in Nat
           /\ \A S \in SUBSET Address : IsFiniteSet(S) /\ Cardinality(S) \in Nat
<1>1. b.config \in Config
  BY DEF Ballot
<1>2. b.config.owners \in SUBSET Address /\ b.config.threshold \in Nat
  BY <1>1 DEF Config
<1>3. \A S \in SUBSET Address : IsFiniteSet(S) /\ Cardinality(S) \in Nat
  BY CountTypes
<1> QED BY <1>1, <1>2, <1>3, VotersFinite DEF Voters

\* The same rules have the same voters, positions and cutoff.
LEMMA RulesVoters ==
    ASSUME NEW c, NEW b, SameRules(c, b.config)
    PROVE  /\ c.owners = b.config.owners /\ Voters(c) = Voters(b.config)
           /\ c.threshold = b.config.threshold /\ c.voter_count = b.config.voter_count
           /\ Cutoff(c) = Cutoff(b.config)
BY DEF SameRules, Voters, Cutoff

\* Rejections reach the cutoff exactly when the voters who have not rejected
\* are too few to approve.
LEMMA CutoffExact ==
    ASSUME NEW b \in Ballot, CountsVoters(b.config), NEW no \in SUBSET Voters(b.config)
    PROVE  (Cardinality(no) >= Cutoff(b.config))
              <=> (Cardinality(Voters(b.config) \ no) < b.config.threshold)
<1> DEFINE V == Voters(b.config)
<1>1. IsFiniteSet(V) /\ Cardinality(V) \in Nat
  BY BallotFinite
<1>2. IsFiniteSet(no) /\ Cardinality(no) \in Nat
  BY <1>1, FS_Subset, FS_CardinalityType
<1>3. Cardinality(V \ no) = Cardinality(V) - Cardinality(V \cap no) /\ V \cap no = no
  BY <1>1, FS_Difference
<1>4. /\ b.config.voter_count = Cardinality(V)
      /\ b.config.threshold \in 1..Cardinality(V)
  BY DEF CountsVoters
<1> HIDE DEF V
<1>5. Cutoff(b.config) = 1 + Cardinality(V) - b.config.threshold
  BY <1>1, <1>4 DEF Cutoff
<1>6. (Cardinality(no) >= Cutoff(b.config)) <=> (Cardinality(V \ no) < b.config.threshold)
  <2> DEFINE v == Cardinality(V)
             n == Cardinality(no)
             k == b.config.threshold
  <2>1. Cutoff(b.config) = 1 + v - k /\ Cardinality(V \ no) = v - n
    BY <1>3, <1>5
  <2>2. v \in Nat /\ n \in Nat /\ k \in Nat
    BY <1>1, <1>2, <1>4
  <2> HIDE DEF v, n, k
  <2>3. n >= 1 + v - k <=> v - n < k
    BY <2>2
  <2> QED BY <2>1, <2>3 DEF n, k
<1> QED BY <1>6 DEF V

\* Who passes the checks of a vote is a voter of the ballot, and a clear bit
\* means that this person has not spoken.
LEMMA VoterSpeaks ==
    ASSUME NEW t, NEW b \in Ballot, NEW c, NEW o, SameRules(c, b.config), Names(t, b),
           o \in c.owners, MaskCanVote(c.permissions[o])
    PROVE  /\ o \in Voters(b.config) /\ o \in b.config.owners
           /\ Position(c.owners, o) = Position(b.config.owners, o)
           /\ ~HasVoted(t, Position(c.owners, o)) =>
                 o \notin b.approvers \cup b.rejecters \cup b.cancellers
           /\ Position(c.owners, o) \notin t.cancelled => o \notin b.cancellers
<1>1. o \in Voters(b.config) /\ o \in b.config.owners /\ c.owners = b.config.owners
  BY DEF SameRules, Voters
<1>2. /\ b.approvers \in SUBSET b.config.owners
      /\ b.rejecters \in SUBSET b.config.owners
      /\ b.cancellers \in SUBSET b.config.owners
  BY BallotFinite DEF Names
<1>3. b.config.owners \in SUBSET Address
  BY BallotFinite
<1>4. \A people \in SUBSET b.config.owners :
         o \in people => Position(b.config.owners, o) \in Bits(b, people)
  BY <1>1, <1>3, BitsName
<1> QED BY <1>1, <1>2, <1>4 DEF HasVoted, Names

\* An approval is counted once, for its voter, and latches at the quorum.
LEMMA ApproveSound ==
    ASSUME NEW t \in Transaction, NEW b \in Ballot, NEW c, NEW o,
           SameRules(c, b.config), Sound(t, b), t.status = "Active",
           o \in c.owners, MaskCanVote(c.permissions[o]),
           ~HasVoted(t, Position(c.owners, o)),
           NEW d \in Ballot, d.config = b.config,
           d.approvers = b.approvers \cup {o}, d.rejecters = b.rejecters,
           d.cancellers = b.cancellers
    PROVE  LET u == Approved(t, c, Position(c.owners, o))
           IN  /\ Sound(u, d)
               /\ u.status = IF Cardinality(d.approvers) >= b.config.threshold
                             THEN "Approved" ELSE "Active"
               /\ o \in Voters(b.config) /\ o \notin b.approvers \cup b.rejecters
<1> DEFINE p == Position(c.owners, o)
           u == Approved(t, c, p)
<1>0. CountsVoters(b.config) /\ Names(t, b) /\ Verdict(t, b)
  BY DEF Sound
<1>1. /\ o \in Voters(b.config) /\ o \in b.config.owners
      /\ p = Position(b.config.owners, o)
      /\ o \notin b.approvers \cup b.rejecters
  BY <1>0, VoterSpeaks
<1>2. c.threshold = b.config.threshold
  BY RulesVoters
<1>3. /\ u.approved = t.approved \cup {p} /\ u.approved_count = t.approved_count + 1
      /\ u.rejected = t.rejected /\ u.rejected_count = t.rejected_count
      /\ u.cancelled = t.cancelled /\ u.cancelled_count = t.cancelled_count
      /\ u.status = IF t.approved_count + 1 >= c.threshold THEN "Approved" ELSE "Active"
  <2> HIDE DEF p
  <2> QED BY DEF Approved, LatchApproved, Transaction
<1> HIDE DEF u
<1>4. b.approvers \in SUBSET b.config.owners /\ b.config.owners \in SUBSET Address
  BY <1>0, BallotFinite DEF Names
<1>5. Bits(d, d.approvers) = Bits(b, b.approvers) \cup {p}
  <2>1. Bits(b, b.approvers \cup {o}) = Bits(b, b.approvers) \cup {Position(b.config.owners, o)}
    BY <1>1, <1>4, BitsName
  <2> QED BY <1>1, <2>1 DEF Bits
<1>6. /\ Bits(d, d.rejecters) = Bits(b, b.rejecters)
      /\ Bits(d, d.cancellers) = Bits(b, b.cancellers)
  BY DEF Bits
<1>7. Cardinality(d.approvers) = Cardinality(b.approvers) + 1
  <2>1. IsFiniteSet(b.approvers)
    BY <1>4, BallotFinite
  <2>2. d.approvers = b.approvers \cup {o} /\ o \notin b.approvers
    BY <1>1
  <2>3. Cardinality(b.approvers \cup {o}) = Cardinality(b.approvers) + 1
    BY <2>1, <2>2, FS_AddElement
  <2> QED BY <2>2, <2>3
<1> HIDE DEF p
<1>8. Names(u, d)
  <2>1. /\ u.approved = Bits(d, d.approvers) /\ u.rejected = Bits(d, d.rejecters)
        /\ u.cancelled = Bits(d, d.cancellers)
    BY <1>0, <1>3, <1>5, <1>6 DEF Names
  <2>2. /\ u.approved_count = Cardinality(d.approvers)
        /\ u.rejected_count = Cardinality(d.rejecters)
        /\ u.cancelled_count = Cardinality(d.cancellers)
    BY <1>0, <1>3, <1>7 DEF Names
  <2>3. /\ d.approvers \cap d.rejecters = {}
        /\ d.approvers \cup d.rejecters \cup d.cancellers \subseteq Voters(d.config)
    BY <1>0, <1>1 DEF Names
  <2> QED BY <2>1, <2>2, <2>3 DEF Names
<1>9. u.status = IF Cardinality(d.approvers) >= b.config.threshold THEN "Approved" ELSE "Active"
  BY <1>0, <1>2, <1>3, <1>7 DEF Names
<1>10. Verdict(u, d)
  <2>1. /\ b.cancellers = {}
        /\ Cardinality(Voters(b.config) \ b.rejecters) >= b.config.threshold
    BY <1>0 DEF Verdict
  <2>2. Cardinality(d.cancellers) = 0
    BY <2>1, FS_EmptySet
  <2>3. b.config.threshold \in Nat /\ b.config.threshold > 0
    BY <1>0, BallotFinite DEF CountsVoters
  <2>4. Cardinality(d.approvers) \in Nat
    BY BallotFinite DEF Ballot
  <2> QED BY <1>9, <2>1, <2>2, <2>3, <2>4 DEF Verdict
<1>11. Sound(u, d)
  BY <1>0, <1>8, <1>10 DEF Sound
<1> QED BY <1>1, <1>9, <1>11 DEF u, p

\* A rejection is counted once, for its voter, and latches when the rest are
\* too few to approve.
LEMMA RejectSound ==
    ASSUME NEW t \in Transaction, NEW b \in Ballot, NEW c, NEW o,
           SameRules(c, b.config), Sound(t, b), t.status = "Active",
           o \in c.owners, MaskCanVote(c.permissions[o]),
           ~HasVoted(t, Position(c.owners, o)),
           NEW d \in Ballot, d.config = b.config,
           d.approvers = b.approvers, d.rejecters = b.rejecters \cup {o},
           d.cancellers = b.cancellers
    PROVE  LET u == Rejected(t, c, Position(c.owners, o))
           IN  /\ Sound(u, d)
               /\ u.status = IF Cardinality(Voters(b.config) \ d.rejecters) < b.config.threshold
                             THEN "Rejected" ELSE "Active"
               /\ o \in Voters(b.config) /\ o \notin b.approvers \cup b.rejecters
<1> DEFINE p == Position(c.owners, o)
           u == Rejected(t, c, p)
<1>0. CountsVoters(b.config) /\ Names(t, b) /\ Verdict(t, b)
  BY DEF Sound
<1>1. /\ o \in Voters(b.config) /\ o \in b.config.owners
      /\ p = Position(b.config.owners, o)
      /\ o \notin b.approvers \cup b.rejecters
  BY <1>0, VoterSpeaks
<1>2. Cutoff(c) = Cutoff(b.config)
  BY RulesVoters
<1>3. /\ u.rejected = t.rejected \cup {p} /\ u.rejected_count = t.rejected_count + 1
      /\ u.approved = t.approved /\ u.approved_count = t.approved_count
      /\ u.cancelled = t.cancelled /\ u.cancelled_count = t.cancelled_count
      /\ u.status = IF t.rejected_count + 1 >= Cutoff(c) THEN "Rejected" ELSE "Active"
  <2> HIDE DEF p
  <2> QED BY DEF Rejected, Transaction
<1> HIDE DEF u
<1>4. b.rejecters \in SUBSET b.config.owners /\ b.config.owners \in SUBSET Address
  BY <1>0, BallotFinite DEF Names
<1>5. Bits(d, d.rejecters) = Bits(b, b.rejecters) \cup {p}
  <2>1. Bits(b, b.rejecters \cup {o}) = Bits(b, b.rejecters) \cup {Position(b.config.owners, o)}
    BY <1>1, <1>4, BitsName
  <2> QED BY <1>1, <2>1 DEF Bits
<1>6. /\ Bits(d, d.approvers) = Bits(b, b.approvers)
      /\ Bits(d, d.cancellers) = Bits(b, b.cancellers)
  BY DEF Bits
<1>7. Cardinality(d.rejecters) = Cardinality(b.rejecters) + 1
  <2>1. IsFiniteSet(b.rejecters)
    BY <1>4, BallotFinite
  <2>2. d.rejecters = b.rejecters \cup {o} /\ o \notin b.rejecters
    BY <1>1
  <2>3. Cardinality(b.rejecters \cup {o}) = Cardinality(b.rejecters) + 1
    BY <2>1, <2>2, FS_AddElement
  <2> QED BY <2>2, <2>3
<1> HIDE DEF p
<1>8. Names(u, d)
  <2>1. /\ u.approved = Bits(d, d.approvers) /\ u.rejected = Bits(d, d.rejecters)
        /\ u.cancelled = Bits(d, d.cancellers)
    BY <1>0, <1>3, <1>5, <1>6 DEF Names
  <2>2. /\ u.approved_count = Cardinality(d.approvers)
        /\ u.rejected_count = Cardinality(d.rejecters)
        /\ u.cancelled_count = Cardinality(d.cancellers)
    BY <1>0, <1>3, <1>7 DEF Names
  <2>3. /\ d.approvers \cap d.rejecters = {}
        /\ d.approvers \cup d.rejecters \cup d.cancellers \subseteq Voters(d.config)
    BY <1>0, <1>1 DEF Names
  <2> QED BY <2>1, <2>2, <2>3 DEF Names
<1>9. u.status = IF Cardinality(Voters(b.config) \ d.rejecters) < b.config.threshold
                 THEN "Rejected" ELSE "Active"
  <2>1. d.rejecters \in SUBSET Voters(b.config)
    BY <1>8 DEF Names
  <2>2. (Cardinality(d.rejecters) >= Cutoff(b.config))
           <=> (Cardinality(Voters(b.config) \ d.rejecters) < b.config.threshold)
    BY <1>0, <2>1, CutoffExact
  <2> QED BY <1>0, <1>2, <1>3, <1>7, <2>2 DEF Names
<1>10. Verdict(u, d)
  <2>1. b.cancellers = {} /\ Cardinality(b.approvers) < b.config.threshold
    BY <1>0 DEF Verdict
  <2>2. Cardinality(Voters(b.config) \ d.rejecters) \in Nat
    BY BallotFinite, FS_Difference, FS_CardinalityType
  <2>3. b.config.threshold \in Nat
    BY BallotFinite
  <2> QED BY <1>9, <2>1, <2>2, <2>3 DEF Verdict
<1>11. Sound(u, d)
  BY <1>0, <1>8, <1>10 DEF Sound
<1> QED BY <1>1, <1>9, <1>11 DEF u, p

\* A vote to cancel is counted once, for its voter, and undoes the approval at
\* the quorum.
LEMMA CancelSound ==
    ASSUME NEW t \in Transaction, NEW b \in Ballot, NEW c, NEW o,
           SameRules(c, b.config), Sound(t, b), t.status = "Approved",
           o \in c.owners, MaskCanVote(c.permissions[o]),
           Position(c.owners, o) \notin t.cancelled,
           NEW d \in Ballot, d.config = b.config,
           d.approvers = b.approvers, d.rejecters = b.rejecters,
           d.cancellers = b.cancellers \cup {o}
    PROVE  LET u == CancelVoted(t, c, Position(c.owners, o))
           IN  /\ Sound(u, d)
               /\ u.status = IF Cardinality(d.cancellers) >= b.config.threshold
                             THEN "Cancelled" ELSE "Approved"
               /\ o \in Voters(b.config) /\ o \notin b.cancellers
<1> DEFINE p == Position(c.owners, o)
           u == CancelVoted(t, c, p)
<1>0. CountsVoters(b.config) /\ Names(t, b) /\ Verdict(t, b)
  BY DEF Sound
<1>1. /\ o \in Voters(b.config) /\ o \in b.config.owners
      /\ p = Position(b.config.owners, o)
      /\ o \notin b.cancellers
  BY <1>0, VoterSpeaks
<1>2. c.threshold = b.config.threshold
  BY RulesVoters
<1>3. /\ u.cancelled = t.cancelled \cup {p} /\ u.cancelled_count = t.cancelled_count + 1
      /\ u.approved = t.approved /\ u.approved_count = t.approved_count
      /\ u.rejected = t.rejected /\ u.rejected_count = t.rejected_count
      /\ u.status = IF t.cancelled_count + 1 >= c.threshold THEN "Cancelled" ELSE "Approved"
  <2> HIDE DEF p
  <2> QED BY DEF CancelVoted, Transaction
<1> HIDE DEF u
<1>4. b.cancellers \in SUBSET b.config.owners /\ b.config.owners \in SUBSET Address
  BY <1>0, BallotFinite DEF Names
<1>5. Bits(d, d.cancellers) = Bits(b, b.cancellers) \cup {p}
  <2>1. Bits(b, b.cancellers \cup {o}) = Bits(b, b.cancellers) \cup {Position(b.config.owners, o)}
    BY <1>1, <1>4, BitsName
  <2> QED BY <1>1, <2>1 DEF Bits
<1>6. /\ Bits(d, d.approvers) = Bits(b, b.approvers)
      /\ Bits(d, d.rejecters) = Bits(b, b.rejecters)
  BY DEF Bits
<1>7. Cardinality(d.cancellers) = Cardinality(b.cancellers) + 1
  <2>1. IsFiniteSet(b.cancellers)
    BY <1>4, BallotFinite
  <2>2. d.cancellers = b.cancellers \cup {o} /\ o \notin b.cancellers
    BY <1>1
  <2>3. Cardinality(b.cancellers \cup {o}) = Cardinality(b.cancellers) + 1
    BY <2>1, <2>2, FS_AddElement
  <2> QED BY <2>2, <2>3
<1> HIDE DEF p
<1>8. Names(u, d)
  <2>1. /\ u.approved = Bits(d, d.approvers) /\ u.rejected = Bits(d, d.rejecters)
        /\ u.cancelled = Bits(d, d.cancellers)
    BY <1>0, <1>3, <1>5, <1>6 DEF Names
  <2>2. /\ u.approved_count = Cardinality(d.approvers)
        /\ u.rejected_count = Cardinality(d.rejecters)
        /\ u.cancelled_count = Cardinality(d.cancellers)
    BY <1>0, <1>3, <1>7 DEF Names
  <2>3. /\ d.approvers \cap d.rejecters = {}
        /\ d.approvers \cup d.rejecters \cup d.cancellers \subseteq Voters(d.config)
    BY <1>0, <1>1 DEF Names
  <2> QED BY <2>1, <2>2, <2>3 DEF Names
<1>9. u.status = IF Cardinality(d.cancellers) >= b.config.threshold
                 THEN "Cancelled" ELSE "Approved"
  BY <1>0, <1>2, <1>3, <1>7 DEF Names
<1>10. Verdict(u, d)
  <2>1. Cardinality(d.approvers) >= d.config.threshold
    BY <1>0 DEF Verdict
  <2>2. d.config.threshold \in Nat /\ Cardinality(d.cancellers) \in Nat
    BY BallotFinite DEF Ballot
  <2> QED BY <1>9, <2>1, <2>2 DEF Verdict
<1>11. Sound(u, d)
  BY <1>0, <1>8, <1>10 DEF Sound
<1> QED BY <1>1, <1>9, <1>11 DEF u, p

\* Withdrawing an Active proposal and running an Approved one are no votes.
LEMMA StatusSound ==
    ASSUME NEW t \in Transaction, NEW b \in Ballot, Sound(t, b), NEW s,
           \/ t.status = "Active" /\ s = "Cancelled"
           \/ t.status = "Approved" /\ s = "Executed"
    PROVE  Sound([t EXCEPT !.status = s], b)
<1> DEFINE u == [t EXCEPT !.status = s]
<1>1. /\ u.approved = t.approved /\ u.approved_count = t.approved_count
      /\ u.rejected = t.rejected /\ u.rejected_count = t.rejected_count
      /\ u.cancelled = t.cancelled /\ u.cancelled_count = t.cancelled_count
      /\ u.status = s
  BY DEF Transaction
<1> HIDE DEF u
<1>2. Names(u, b)
  BY <1>1 DEF Sound, Names
<1>3. Cardinality({}) = 0
  BY FS_EmptySet
<1>4. b.config.threshold \in Nat /\ Cardinality(b.approvers) \in Nat
  BY BallotFinite DEF Ballot
<1>5. Verdict(u, b)
  BY <1>1, <1>3, <1>4 DEF Sound, Verdict
<1> QED BY <1>2, <1>5 DEF Sound, u

\* A new proposal has no votes, and voters enough to approve it.
LEMMA NewSound ==
    ASSUME NEW m, NEW c \in Config, CountsVoters(c), NEW o, NEW message
    PROVE  Sound(NewTransaction(m, c, o, message), NewBallot(c))
<1> DEFINE t == NewTransaction(m, c, o, message)
           b == NewBallot(c)
<1>1. /\ t.approved = {} /\ t.rejected = {} /\ t.cancelled = {} /\ t.status = "Active"
      /\ t.approved_count = 0 /\ t.rejected_count = 0 /\ t.cancelled_count = 0
      /\ b.config = c /\ b.approvers = {} /\ b.rejecters = {} /\ b.cancellers = {}
  BY DEF NewTransaction, NewBallot
<1> HIDE DEF t, b
<1>2. Cardinality({}) = 0
  BY FS_EmptySet
<1>3. Names(t, b)
  BY <1>1, <1>2 DEF Names, Bits
<1>4. Cardinality(Voters(c)) \in Nat /\ c.threshold \in 1..Cardinality(Voters(c))
  BY VotersFinite DEF CountsVoters
<1>5. Voters(c) \ {} = Voters(c)
  OBVIOUS
<1>6. Verdict(t, b)
  BY <1>1, <1>2, <1>4, <1>5 DEF Verdict
<1> QED BY <1>1, <1>3, <1>6 DEF Sound, t, b

(***************************************************************************)
(* The running execute and the proposals.                                  *)
(***************************************************************************)
\* An execute runs an Approved proposal of the multisig it was given.
Running ==
    frame # NoFrame =>
        /\ frame.transaction \in DOMAIN transaction
        /\ transaction[frame.transaction].status = "Approved"
        /\ transaction[frame.transaction].multisig = frame.multisig

BallotInv ==
    /\ RulesInv
    /\ VoterCountExact
    /\ Running
    /\ \A id \in Genuine : Sound(transaction[id], ballot[id])

\* A create key that signs once is a case of one that may sign again.
LEMMA FreshReuses ==
    ASSUME Next PROVE ReuseNext
BY DEF Next, ReuseNext, InitFresh

\* An execute starts when none is running, and while one runs nothing else does.
LEMMA ExecuteAlone ==
    ASSUME ReuseNext
    PROVE  /\ frame # NoFrame => Execution
           /\ frame = NoFrame =>
                 \/ frame' = NoFrame
                 \/ \E m \in Keys, id \in DOMAIN transaction, o \in Address :
                       BeginExecute(m, id, o)
<1> DEFINE Idle == frame = NoFrame /\ frame' = NoFrame
<1>1. \A m, g : InitMultisig(m, g) => Idle
  BY DEF InitMultisig
<1>2. \A m, o, message : CreateTransaction(m, o, message) => Idle
  BY DEF CreateTransaction
<1>3. \A m, id, o : Approve(m, id, o) \/ Reject(m, id, o) => Idle
  BY DEF Approve, Reject, Prepared
<1>4. \A m, id, o : CancelActive(m, id, o) \/ CancelApproved(m, id, o) => Idle
  BY DEF CancelActive, CancelApproved, Prepared
<1>5. \A m, id, o : CloseTransaction(m, id, o) => Idle
  BY DEF CloseTransaction
<1>6. \A m, a, i : SetConfig(m, a, i) \/ SetConfigClose(m, a, i) => Idle
  BY DEF SetConfig, SetConfigClose, Authorized
<1>7. Tick => Idle
  BY DEF Tick
<1>11. \A id, a, i : SetConfigOnTransaction(id, a, i) \/ SetConfigCloseOnTransaction(id, a, i) => Idle
  BY DEF SetConfigOnTransaction, SetConfigCloseOnTransaction, Misread
<1>12. \A m : CloseOther(m) => Idle
  BY DEF CloseOther
<1>8. \A m, id, o : BeginExecute(m, id, o) => frame = NoFrame
  BY DEF BeginExecute
<1>9. Execution => frame # NoFrame
  BY DEF Execution, ConfigStep, CloseStep, CpiStep, EndExecute, Abort, AtInstruction
<1> HIDE DEF Idle
<1>10. \/ Idle \/ Execution
       \/ \E m \in Keys, id \in DOMAIN transaction, o \in Address : BeginExecute(m, id, o)
  BY <1>1, <1>2, <1>3, <1>4, <1>5, <1>6, <1>7, <1>11, <1>12
     DEF ReuseNext, Step, Execution
<1> QED BY <1>8, <1>9, <1>10 DEF Idle

\* The steps by what they do to the proposals.
LEMMA ProposalSteps ==
    ASSUME ReuseNext
    PROVE  \/ UNCHANGED <<transaction, ballot, misread>>
           \/ \E m \in Keys, o \in Address, message \in Messages :
                 CreateTransaction(m, o, message)
           \/ \E m \in Keys, id \in DOMAIN transaction, o \in Address :
                 \/ Approve(m, id, o) \/ Reject(m, id, o)
                 \/ CancelActive(m, id, o) \/ CancelApproved(m, id, o)
                 \/ CloseTransaction(m, id, o)
           \/ \E id \in DOMAIN transaction, a \in Address, i \in AuthorityActions :
                 SetConfigOnTransaction(id, a, i) \/ SetConfigCloseOnTransaction(id, a, i)
           \/ EndExecute
<1> DEFINE Same == UNCHANGED <<transaction, ballot, misread>>
<1>1. \A m, g : InitMultisig(m, g) => Same
  BY DEF InitMultisig
<1>2. \A m, id, o : BeginExecute(m, id, o) => Same
  BY DEF BeginExecute
<1>3. \A m, a, i : SetConfig(m, a, i) \/ SetConfigClose(m, a, i) => Same
  BY DEF SetConfig, SetConfigClose
<1>4. ConfigStep \/ CloseStep \/ CpiStep \/ Abort \/ Tick => Same
  BY DEF ConfigStep, CloseStep, CpiStep, Abort, Tick
<1>5. \A m : CloseOther(m) => Same
  BY DEF CloseOther
<1> HIDE DEF Same
<1> QED BY <1>1, <1>2, <1>3, <1>4, <1>5 DEF ReuseNext, Step, Same

\* The steps by what they do to the multisigs.
LEMMA MultisigSteps ==
    ASSUME ReuseNext
    PROVE  \/ UNCHANGED multisig
           \/ \E m \in Keys, g \in Genesis : InitMultisig(m, g)
           \/ \E m \in Keys, o \in Address, message \in Messages :
                 CreateTransaction(m, o, message)
           \/ \E m \in Keys, id \in DOMAIN transaction, o \in Address :
                 CloseTransaction(m, id, o)
           \/ \E m \in Keys, a \in Address, i \in AuthorityActions :
                 SetConfig(m, a, i) \/ SetConfigClose(m, a, i)
           \/ \E m \in Keys : CloseOther(m)
           \/ EndExecute
<1>1. \A m, id, o : Approve(m, id, o) \/ Reject(m, id, o) => UNCHANGED multisig
  BY DEF Approve, Reject
<1>2. \A m, id, o : CancelActive(m, id, o) \/ CancelApproved(m, id, o) => UNCHANGED multisig
  BY DEF CancelActive, CancelApproved
<1>3. \A m, id, o : BeginExecute(m, id, o) => UNCHANGED multisig
  BY DEF BeginExecute
<1>4. ConfigStep \/ CloseStep \/ CpiStep \/ Abort \/ Tick => UNCHANGED multisig
  BY DEF ConfigStep, CloseStep, CpiStep, Abort, Tick
<1>5. \A id, a, i : SetConfigOnTransaction(id, a, i) \/ SetConfigCloseOnTransaction(id, a, i)
                       => UNCHANGED multisig
  BY DEF SetConfigOnTransaction, SetConfigCloseOnTransaction
<1> QED BY <1>1, <1>2, <1>3, <1>4, <1>5 DEF ReuseNext, Step

LEMMA RunningStep ==
    ASSUME RulesInv, Running, Next
    PROVE  Running'
<1>1. CASE frame = NoFrame
  <2>1. CASE frame' = NoFrame
    BY <2>1 DEF Running
  <2>2. ASSUME NEW m \in Keys, NEW id \in DOMAIN transaction, NEW o \in Address,
               BeginExecute(m, id, o)
        PROVE  Running'
    BY <2>2 DEF BeginExecute, Running
  <2> QED BY <1>1, <2>1, <2>2, ExecuteAlone, FreshReuses
<1>2. CASE frame # NoFrame
  <2>1. frame \in Frame
    BY <1>2 DEF RulesInv, TypeOK
  <2>2. Execution
    BY <1>2, ExecuteAlone, FreshReuses
  <2>3. CASE ConfigStep
    <3> DEFINE r == ApplyConfigAction(frame.config, Head(frame.rest))
    <3>1. /\ frame' = [frame EXCEPT !.config = r, !.rest = Tail(@)]
          /\ UNCHANGED transaction
      BY <2>3 DEF ConfigStep
    <3> HIDE DEF r
    <3> QED BY <1>2, <2>1, <3>1 DEF Running, Frame
  <2>4. CASE CloseStep \/ CpiStep
    BY <1>2, <2>1, <2>4 DEF CloseStep, CpiStep, Running, Frame
  <2>5. CASE EndExecute \/ Abort
    BY <2>5 DEF EndExecute, Abort, Running
  <2> QED BY <2>2, <2>3, <2>4, <2>5 DEF Execution
<1> QED BY <1>1, <1>2

\* What a vote finds: a sound ballot, made under the rules in force.
LEMMA VoteContext ==
    ASSUME BallotInv, NEW m \in Keys, NEW id \in Genuine, NEW o \in Address,
           NEW expected, Prepared(m, id, o, expected)
    PROVE  /\ transaction[id] \in Transaction /\ ballot[id] \in Ballot
           /\ id \in DOMAIN ballot
           /\ m \in DOMAIN multisig /\ multisig[m] \in Config /\ o \in multisig[m].owners
           /\ transaction[id].status = expected /\ transaction[id].multisig = m
           /\ SameRules(multisig[m], ballot[id].config)
           /\ Sound(transaction[id], ballot[id])
<1>1. /\ transaction[id] \in Transaction /\ ballot[id] \in Ballot /\ id \in DOMAIN ballot
      /\ m \in DOMAIN multisig /\ multisig[m] \in Config /\ o \in multisig[m].owners
  BY DEF BallotInv, RulesInv, TypeOK, Prepared, Genuine
<1>2. /\ transaction[id].status = expected /\ transaction[id].multisig = m
      /\ transaction[id].index > multisig[m].stale_transaction_index
  BY DEF Prepared, CheckVotable
<1>3. SameRules(multisig[m], ballot[id].config)
  BY <1>1, <1>2 DEF BallotInv, RulesInv, VotableUnderItsRules
<1> QED BY <1>1, <1>2, <1>3 DEF BallotInv

\* A vote is about one proposal.
LEMMA VoteOthers ==
    ASSUME TypeOK, NEW m \in Keys, NEW id \in DOMAIN transaction, NEW o \in Address,
           \/ Approve(m, id, o) \/ Reject(m, id, o)
           \/ CancelApproved(m, id, o) \/ CancelActive(m, id, o)
    PROVE  /\ DOMAIN transaction' = DOMAIN transaction /\ UNCHANGED misread
           /\ \A x \in DOMAIN transaction : x # id =>
                 transaction'[x] = transaction[x] /\ ballot'[x] = ballot[x]
BY DEF TypeOK, Approve, Reject, CancelApproved, CancelActive

\* The vote handlers, with the ballot they leave.
LEMMA ApproveStep ==
    ASSUME BallotInv, NEW m \in Keys, NEW id \in Genuine, NEW o \in Address,
           Approve(m, id, o)
    PROVE  LET b == ballot[id]
               d == ballot'[id]
           IN  /\ DOMAIN transaction' = DOMAIN transaction /\ DOMAIN ballot' = DOMAIN transaction
               /\ \A x \in DOMAIN transaction : x # id =>
                     transaction'[x] = transaction[x] /\ ballot'[x] = ballot[x]
               /\ transaction[id].status = "Active"
               /\ o \in Voters(b.config) /\ o \notin b.approvers \cup b.rejecters
               /\ d.config = b.config /\ d.approvers = b.approvers \cup {o}
               /\ d.rejecters = b.rejecters /\ d.cancellers = b.cancellers
               /\ transaction'[id].status =
                     IF Cardinality(b.approvers \cup {o}) >= b.config.threshold
                     THEN "Approved" ELSE "Active"
               /\ Sound(transaction'[id], d)
<1> DEFINE t == transaction[id]
           b == ballot[id]
           d == ballot'[id]
           c == multisig[m]
           u == Approved(t, c, Position(c.owners, o))
<1>1. /\ Prepared(m, id, o, "Active") /\ MaskCanVote(c.permissions[o])
      /\ ~HasVoted(t, Position(c.owners, o))
      /\ transaction' = [transaction EXCEPT ![id] = u]
      /\ ballot' = [ballot EXCEPT ![id].approvers = @ \cup {o},
                                  ![id].latched = IF u.status = "Approved" THEN clock ELSE @]
  BY DEF Approve
<1>2. /\ t \in Transaction /\ b \in Ballot /\ id \in DOMAIN ballot
      /\ o \in c.owners /\ t.status = "Active" /\ SameRules(c, b.config) /\ Sound(t, b)
  BY <1>1, VoteContext
<1>0. id \in DOMAIN transaction
  BY DEF Genuine
<1>3. DOMAIN ballot = DOMAIN transaction /\ clock \in Nat
  BY DEF BallotInv, RulesInv, TypeOK
<1>4. transaction'[id] = u
  BY <1>0, <1>1
<1> HIDE DEF u, t
<1>5. /\ d.config = b.config /\ d.approvers = b.approvers \cup {o}
      /\ d.rejecters = b.rejecters /\ d.cancellers = b.cancellers /\ d \in Ballot
  BY <1>1, <1>2, <1>3 DEF Ballot
<1>6. /\ DOMAIN transaction' = DOMAIN transaction /\ DOMAIN ballot' = DOMAIN transaction
      /\ \A x \in DOMAIN transaction : x # id =>
            transaction'[x] = transaction[x] /\ ballot'[x] = ballot[x]
  BY <1>1, <1>3
<1> HIDE DEF d, b
<1>7. /\ Sound(u, d)
      /\ u.status = IF Cardinality(d.approvers) >= b.config.threshold
                    THEN "Approved" ELSE "Active"
      /\ o \in Voters(b.config) /\ o \notin b.approvers \cup b.rejecters
  BY <1>1, <1>2, <1>5, ApproveSound DEF u
<1> QED BY <1>2, <1>4, <1>5, <1>6, <1>7 DEF t, b, d

LEMMA RejectStep ==
    ASSUME BallotInv, NEW m \in Keys, NEW id \in Genuine, NEW o \in Address,
           Reject(m, id, o)
    PROVE  LET b == ballot[id]
               d == ballot'[id]
           IN  /\ DOMAIN transaction' = DOMAIN transaction /\ DOMAIN ballot' = DOMAIN transaction
               /\ \A x \in DOMAIN transaction : x # id =>
                     transaction'[x] = transaction[x] /\ ballot'[x] = ballot[x]
               /\ transaction[id].status = "Active"
               /\ o \in Voters(b.config) /\ o \notin b.approvers \cup b.rejecters
               /\ d.config = b.config /\ d.approvers = b.approvers
               /\ d.rejecters = b.rejecters \cup {o} /\ d.cancellers = b.cancellers
               /\ transaction'[id].status =
                     IF Cardinality(Voters(b.config) \ (b.rejecters \cup {o})) < b.config.threshold
                     THEN "Rejected" ELSE "Active"
               /\ Sound(transaction'[id], d)
<1> DEFINE t == transaction[id]
           b == ballot[id]
           d == ballot'[id]
           c == multisig[m]
           u == Rejected(t, c, Position(c.owners, o))
<1>1. /\ Prepared(m, id, o, "Active") /\ MaskCanVote(c.permissions[o])
      /\ ~HasVoted(t, Position(c.owners, o))
      /\ transaction' = [transaction EXCEPT ![id] = u]
      /\ ballot' = [ballot EXCEPT ![id].rejecters = @ \cup {o}]
  BY DEF Reject
<1>2. /\ t \in Transaction /\ b \in Ballot /\ id \in DOMAIN ballot
      /\ o \in c.owners /\ t.status = "Active" /\ SameRules(c, b.config) /\ Sound(t, b)
  BY <1>1, VoteContext
<1>0. id \in DOMAIN transaction
  BY DEF Genuine
<1>3. DOMAIN ballot = DOMAIN transaction
  BY DEF BallotInv, RulesInv, TypeOK
<1>4. transaction'[id] = u
  BY <1>0, <1>1
<1> HIDE DEF u, t
<1>5. /\ d.config = b.config /\ d.approvers = b.approvers
      /\ d.rejecters = b.rejecters \cup {o} /\ d.cancellers = b.cancellers /\ d \in Ballot
  BY <1>1, <1>2, <1>3 DEF Ballot
<1>6. /\ DOMAIN transaction' = DOMAIN transaction /\ DOMAIN ballot' = DOMAIN transaction
      /\ \A x \in DOMAIN transaction : x # id =>
            transaction'[x] = transaction[x] /\ ballot'[x] = ballot[x]
  BY <1>1, <1>3
<1> HIDE DEF d, b
<1>7. /\ Sound(u, d)
      /\ u.status = IF Cardinality(Voters(b.config) \ d.rejecters) < b.config.threshold
                    THEN "Rejected" ELSE "Active"
      /\ o \in Voters(b.config) /\ o \notin b.approvers \cup b.rejecters
  BY <1>1, <1>2, <1>5, RejectSound DEF u
<1> QED BY <1>2, <1>4, <1>5, <1>6, <1>7 DEF t, b, d

LEMMA CancelStep ==
    ASSUME BallotInv, NEW m \in Keys, NEW id \in Genuine, NEW o \in Address,
           CancelApproved(m, id, o)
    PROVE  LET b == ballot[id]
               d == ballot'[id]
           IN  /\ DOMAIN transaction' = DOMAIN transaction /\ DOMAIN ballot' = DOMAIN transaction
               /\ \A x \in DOMAIN transaction : x # id =>
                     transaction'[x] = transaction[x] /\ ballot'[x] = ballot[x]
               /\ transaction[id].status = "Approved"
               /\ o \in Voters(b.config) /\ o \notin b.cancellers
               /\ d.config = b.config /\ d.approvers = b.approvers
               /\ d.rejecters = b.rejecters /\ d.cancellers = b.cancellers \cup {o}
               /\ transaction'[id].status =
                     IF Cardinality(b.cancellers \cup {o}) >= b.config.threshold
                     THEN "Cancelled" ELSE "Approved"
               /\ Sound(transaction'[id], d)
<1> DEFINE t == transaction[id]
           b == ballot[id]
           d == ballot'[id]
           c == multisig[m]
           u == CancelVoted(t, c, Position(c.owners, o))
<1>1. /\ Prepared(m, id, o, "Approved") /\ MaskCanVote(c.permissions[o])
      /\ Position(c.owners, o) \notin t.cancelled
      /\ transaction' = [transaction EXCEPT ![id] = u]
      /\ ballot' = [ballot EXCEPT ![id].cancellers = @ \cup {o}]
  BY DEF CancelApproved, BitmapSet
<1>2. /\ t \in Transaction /\ b \in Ballot /\ id \in DOMAIN ballot
      /\ o \in c.owners /\ t.status = "Approved" /\ SameRules(c, b.config) /\ Sound(t, b)
  BY <1>1, VoteContext
<1>0. id \in DOMAIN transaction
  BY DEF Genuine
<1>3. DOMAIN ballot = DOMAIN transaction
  BY DEF BallotInv, RulesInv, TypeOK
<1>4. transaction'[id] = u
  BY <1>0, <1>1
<1> HIDE DEF u, t
<1>5. /\ d.config = b.config /\ d.approvers = b.approvers
      /\ d.rejecters = b.rejecters /\ d.cancellers = b.cancellers \cup {o} /\ d \in Ballot
  BY <1>1, <1>2, <1>3 DEF Ballot
<1>6. /\ DOMAIN transaction' = DOMAIN transaction /\ DOMAIN ballot' = DOMAIN transaction
      /\ \A x \in DOMAIN transaction : x # id =>
            transaction'[x] = transaction[x] /\ ballot'[x] = ballot[x]
  BY <1>1, <1>3
<1> HIDE DEF d, b
<1>7. /\ Sound(u, d)
      /\ u.status = IF Cardinality(d.cancellers) >= b.config.threshold
                    THEN "Cancelled" ELSE "Approved"
      /\ o \in Voters(b.config) /\ o \notin b.cancellers
  BY <1>1, <1>2, <1>5, CancelSound DEF u
<1> QED BY <1>2, <1>4, <1>5, <1>6, <1>7 DEF t, b, d

\* Making a proposal leaves the others alone.
LEMMA CreateStep ==
    ASSUME TypeOK, NEW m \in Keys, NEW o \in Address, NEW message \in Messages,
           CreateTransaction(m, o, message)
    PROVE  LET id == <<m, multisig[m].transaction_index + 1>>
           IN  /\ m \in DOMAIN multisig /\ multisig[m] \in Config
               /\ id \in Keys \X (1..MAX_INDEX) /\ id \notin DOMAIN transaction
               /\ DOMAIN transaction' = DOMAIN transaction \cup {id}
               /\ DOMAIN ballot' = DOMAIN transaction \cup {id}
               /\ \A x \in DOMAIN transaction :
                     transaction'[x] = transaction[x] /\ ballot'[x] = ballot[x]
               /\ transaction'[id] = NewTransaction(m, multisig[m], o, message)
               /\ ballot'[id] = NewBallot(multisig[m])
<1> DEFINE c == multisig[m]
           id == <<m, c.transaction_index + 1>>
           t == NewTransaction(m, c, o, message)
           b == NewBallot(c)
<1>1. /\ m \in DOMAIN multisig /\ c.transaction_index < MAX_INDEX
      /\ id \notin DOMAIN transaction
      /\ transaction' = Put(transaction, id, t) /\ ballot' = Put(ballot, id, b)
  BY DEF CreateTransaction
<1>2. c \in Config /\ DOMAIN ballot = DOMAIN transaction
  BY <1>1 DEF TypeOK
<1>3. id \in Keys \X (1..MAX_INDEX)
  <2>1. c.transaction_index \in Nat /\ MAX_INDEX \in Nat
    BY <1>2, LimitAssumption DEF Config
  <2> QED BY <1>1, <2>1
<1> HIDE DEF id, t, b
<1>4. /\ DOMAIN transaction' = DOMAIN transaction \cup {id}
      /\ DOMAIN ballot' = DOMAIN transaction \cup {id}
      /\ \A x \in DOMAIN transaction :
            transaction'[x] = transaction[x] /\ ballot'[x] = ballot[x]
      /\ transaction'[id] = t /\ ballot'[id] = b
  BY <1>1, <1>2 DEF Put
<1> QED BY <1>1, <1>2, <1>3, <1>4 DEF id, t, b

LEMMA BallotStep ==
    ASSUME BallotInv, Next PROVE BallotInv'
<1> DEFINE AllSound == \A id \in Genuine : Sound(transaction[id], ballot[id])
<1>0. /\ RulesInv /\ VoterCountExact /\ Running /\ TypeOK /\ AllSound
      /\ DOMAIN ballot = DOMAIN transaction
  BY DEF BallotInv, RulesInv, TypeOK
<1>1. RulesInv' /\ Running'
  BY <1>0, RulesStep, RunningStep
<1>2. VoterCountExact'
  BY <1>0, FreshReuses, VoterCountStep
<1>3. CASE UNCHANGED <<transaction, ballot, misread>>
  BY <1>0, <1>1, <1>2, <1>3 DEF BallotInv, Genuine
<1>4. ASSUME NEW m \in Keys, NEW o \in Address, NEW message \in Messages,
             CreateTransaction(m, o, message)
      PROVE  AllSound'
  <2> DEFINE id == <<m, multisig[m].transaction_index + 1>>
  <2>1. /\ DOMAIN transaction' = DOMAIN transaction \cup {id}
        /\ \A x \in DOMAIN transaction :
              transaction'[x] = transaction[x] /\ ballot'[x] = ballot[x]
        /\ transaction'[id] = NewTransaction(m, multisig[m], o, message)
        /\ ballot'[id] = NewBallot(multisig[m])
        /\ m \in DOMAIN multisig /\ multisig[m] \in Config /\ UNCHANGED misread
    BY <1>0, <1>4, CreateStep DEF CreateTransaction
  <2>2. CountsVoters(multisig[m])
    BY <1>0, <2>1 DEF VoterCountExact
  <2>3. Sound(transaction'[id], ballot'[id])
    BY <2>1, <2>2, NewSound
  <2> HIDE DEF id
  <2> QED BY <1>0, <2>1, <2>3 DEF Genuine
<1>5. ASSUME NEW m \in Keys, NEW id \in DOMAIN transaction, NEW o \in Address,
             Approve(m, id, o) \/ Reject(m, id, o) \/ CancelApproved(m, id, o)
      PROVE  AllSound'
  <2>1. /\ DOMAIN transaction' = DOMAIN transaction /\ UNCHANGED misread
        /\ \A x \in DOMAIN transaction : x # id =>
              transaction'[x] = transaction[x] /\ ballot'[x] = ballot[x]
    BY <1>0, <1>5, VoteOthers
  <2>2. id \in Genuine => Sound(transaction'[id], ballot'[id])
    BY <1>5, ApproveStep, RejectStep, CancelStep
  <2> QED BY <1>0, <2>1, <2>2 DEF Genuine
<1>6. ASSUME NEW m \in Keys, NEW id \in DOMAIN transaction, NEW o \in Address,
             CancelActive(m, id, o)
      PROVE  AllSound'
  <2>1. transaction[id] \in Transaction /\ ballot[id] \in Ballot
    BY <1>0 DEF TypeOK
  <2>2. /\ transaction' = [transaction EXCEPT ![id] = [transaction[id] EXCEPT !.status = "Cancelled"]]
        /\ transaction[id].status = "Active" /\ UNCHANGED <<ballot, misread>>
    BY <1>6 DEF CancelActive, Prepared, CheckVotable
  <2>3. id \in Genuine => Sound([transaction[id] EXCEPT !.status = "Cancelled"], ballot[id])
    BY <1>0, <2>1, <2>2, StatusSound
  <2> QED BY <1>0, <2>2, <2>3 DEF Genuine
<1>7. ASSUME NEW m \in Keys, NEW id \in DOMAIN transaction, NEW o \in Address,
             CloseTransaction(m, id, o)
      PROVE  AllSound'
  <2>1. /\ DOMAIN transaction' = DOMAIN transaction \ {id} /\ UNCHANGED misread
        /\ \A x \in DOMAIN transaction' :
              transaction'[x] = transaction[x] /\ ballot'[x] = ballot[x]
    BY <1>0, <1>7 DEF CloseTransaction, Without, Restrict
  <2> QED BY <1>0, <2>1 DEF Genuine
<1>8. ASSUME EndExecute PROVE AllSound'
  <2> DEFINE id == frame.transaction
  <2>1. /\ id \in DOMAIN transaction /\ transaction[id].status = "Approved"
        /\ transaction' = [transaction EXCEPT ![id] = [transaction[id] EXCEPT !.status = "Executed"]]
        /\ UNCHANGED <<ballot, misread>>
    BY <1>0, <1>8 DEF EndExecute, Running
  <2>2. transaction[id] \in Transaction /\ ballot[id] \in Ballot
    BY <1>0, <2>1 DEF TypeOK
  <2>3. id \in Genuine => Sound([transaction[id] EXCEPT !.status = "Executed"], ballot[id])
    BY <1>0, <2>1, <2>2, StatusSound
  <2> HIDE DEF id
  <2> QED BY <1>0, <2>1, <2>3 DEF Genuine
<1>9. ASSUME NEW id \in DOMAIN transaction, NEW a \in Address, NEW i \in AuthorityActions,
             SetConfigOnTransaction(id, a, i) \/ SetConfigCloseOnTransaction(id, a, i)
      PROVE  AllSound'
  <2>1. /\ DOMAIN transaction' \subseteq DOMAIN transaction /\ misread' = misread \cup {id}
        /\ \A x \in DOMAIN transaction' : x # id =>
              transaction'[x] = transaction[x] /\ ballot'[x] = ballot[x]
    BY <1>0, <1>9 DEF SetConfigOnTransaction, SetConfigCloseOnTransaction, Without, Restrict
  <2> QED BY <1>0, <2>1 DEF Genuine
<1> QED BY <1>1, <1>2, <1>3, <1>4, <1>5, <1>6, <1>7, <1>8, <1>9, ProposalSteps, FreshReuses
        DEF BallotInv

\* The inductive invariant of the ballots.
LEMMA BallotsSound == Spec => []BallotInv
<1>1. Init => BallotInv
  BY DEF Init, BallotInv, RulesInv, TypeOK, Ledger, VotableUnderItsRules, VoterCountExact, Running, Genuine
<1>2. BallotInv /\ [Next]_vars => BallotInv'
  <2>1. CASE UNCHANGED vars
    <3>1. RulesInv => RulesInv'
      BY <2>1 DEF vars, RulesInv, TypeOK, Ledger, VotableUnderItsRules, SameRules, Genuine
    <3>2. VoterCountExact => VoterCountExact'
      BY <2>1 DEF vars, VoterCountExact, CountsVoters, Voters
    <3>3. Running => Running'
      BY <2>1 DEF vars, Running
    <3> QED BY <2>1, <3>1, <3>2, <3>3 DEF vars, BallotInv, Genuine
  <2> QED BY <2>1, BallotStep
<1> QED BY <1>1, <1>2, PTL DEF Spec

\* The bits and counters of a proposal are the votes people cast on it, however
\* the owner set changed since.
THEOREM VotesNamed == Spec => []VotesNameTheirVoters
<1>1. BallotInv => VotesNameTheirVoters
  BY DEF BallotInv, Sound, Names, VotesNameTheirVoters
<1> QED BY <1>1, BallotsSound, PTL

\* Every outcome is the one the rules at creation give for the people who
\* voted.
THEOREM SettledRight == Spec => []SettledByItsOwnRules
<1>1. BallotInv => SettledByItsOwnRules
  <2> SUFFICES ASSUME BallotInv, NEW id \in Genuine
               PROVE  LET b == ballot[id]
                          yes  == Cardinality(b.approvers)
                          undo == Cardinality(b.cancellers)
                          need == b.config.threshold
                      IN  CASE transaction[id].status = "Active" -> yes < need /\ undo = 0
                            [] transaction[id].status \in {"Approved", "Executed"} ->
                                  yes >= need /\ undo < need
                            [] transaction[id].status = "Rejected" ->
                                  Cardinality(Voters(b.config) \ b.rejecters) < need
                            [] transaction[id].status = "Cancelled" ->
                                  IF yes >= need THEN undo >= need ELSE undo = 0
    BY DEF SettledByItsOwnRules
  <2>1. Verdict(transaction[id], ballot[id])
    BY DEF BallotInv, Sound
  <2>2. transaction[id].status \in Status
    BY DEF BallotInv, RulesInv, TypeOK, Transaction, Genuine
  <2>3. Cardinality({}) = 0
    BY FS_EmptySet
  <2> QED BY <2>1, <2>2, <2>3 DEF Verdict, Status
<1> QED BY <1>1, BallotsSound, PTL

\* A current Active proposal can still be approved by voters who have not
\* spoken: the cutoff latches it the moment that stops being so.
THEOREM NoneDead == Spec => []NoDeadBallot
<1>1. BallotInv => NoDeadBallot
  <2> SUFFICES ASSUME BallotInv, NEW id \in Genuine,
                      transaction[id].status = "Active",
                      transaction[id].multisig \in DOMAIN multisig,
                      transaction[id].index
                         > multisig[transaction[id].multisig].stale_transaction_index
               PROVE  LET t    == transaction[id]
                          c    == multisig[t.multisig]
                          left == {v \in Voters(c) : ~HasVoted(t, Position(c.owners, v))}
                      IN  t.approved_count < c.threshold
                          /\ t.approved_count + Cardinality(left) >= c.threshold
    BY DEF NoDeadBallot
  <2> DEFINE t == transaction[id]
             b == ballot[id]
             c == multisig[t.multisig]
             V == Voters(b.config)
             left == {v \in Voters(c) : ~HasVoted(t, Position(c.owners, v))}
  <2>1. SameRules(c, b.config)
    BY DEF BallotInv, RulesInv, VotableUnderItsRules
  <2>2. c.owners = b.config.owners /\ Voters(c) = V /\ c.threshold = b.config.threshold
    BY <2>1, RulesVoters
  <2>3. b \in Ballot /\ Names(t, b) /\ Verdict(t, b) /\ t.status = "Active"
    BY DEF BallotInv, RulesInv, TypeOK, Sound, Genuine
  <2> HIDE DEF t, b, c
  <2>4. /\ b.cancellers = {} /\ Cardinality(b.approvers) < b.config.threshold
        /\ Cardinality(V \ b.rejecters) >= b.config.threshold
    BY <2>3 DEF Verdict
  <2>5. /\ b.approvers \in SUBSET V /\ b.rejecters \in SUBSET V
        /\ b.approvers \cap b.rejecters = {} /\ t.approved_count = Cardinality(b.approvers)
    BY <2>3 DEF Names
  <2>6. IsFiniteSet(V) /\ V \in SUBSET b.config.owners /\ b.config.owners \in SUBSET Address
    BY <2>3, BallotFinite
  <2>7. left = (V \ b.rejecters) \ b.approvers
    <3>1. \A v \in V : /\ Position(c.owners, v) \in t.approved <=> v \in b.approvers
                       /\ Position(c.owners, v) \in t.rejected <=> v \in b.rejecters
                       /\ Position(c.owners, v) \notin t.cancelled
      <4> TAKE v \in V
      <4>1. v \in b.config.owners /\ b.approvers \in SUBSET b.config.owners
            /\ b.rejecters \in SUBSET b.config.owners
        BY <2>5, <2>6
      <4>2. /\ Position(b.config.owners, v) \in Bits(b, b.approvers) <=> v \in b.approvers
            /\ Position(b.config.owners, v) \in Bits(b, b.rejecters) <=> v \in b.rejecters
        BY <2>6, <4>1, BitsName
      <4>3. t.cancelled = {}
        BY <2>3, <2>4 DEF Names, Bits
      <4> QED BY <2>2, <2>3, <4>2, <4>3 DEF Names
    <3> HIDE DEF V
    <3> QED BY <2>2, <3>1 DEF HasVoted
  <2>8. /\ IsFiniteSet(V \ b.rejecters)
        /\ (V \ b.rejecters) \cap b.approvers = b.approvers
    BY <2>5, <2>6, FS_Difference
  <2>9. Cardinality(left) = Cardinality(V \ b.rejecters) - Cardinality(b.approvers)
    <3> DEFINE W == V \ b.rejecters
    <3> HIDE DEF W
    <3>1. Cardinality(W \ b.approvers) = Cardinality(W) - Cardinality(W \cap b.approvers)
      BY <2>8, FS_Difference DEF W
    <3> HIDE DEF left
    <3> QED BY <2>7, <2>8, <3>1 DEF W
  <2>10. /\ Cardinality(V \ b.rejecters) \in Nat /\ Cardinality(b.approvers) \in Nat
         /\ b.config.threshold \in Nat
    BY <2>3, <2>8, BallotFinite, FS_CardinalityType DEF Ballot
  <2> HIDE DEF V, left
  <2>11. t.approved_count < c.threshold
         /\ t.approved_count + Cardinality(left) >= c.threshold
    BY <2>2, <2>4, <2>5, <2>9, <2>10
  <2> QED BY <2>11 DEF left, t, b, c
<1> QED BY <1>1, BallotsSound, PTL
=============================================================================
