--------------------------- MODULE LifecycleProofs ---------------------------
(***************************************************************************)
(* Theorems about how a proposal ends, for every instance.  Closing:       *)
(* closed_transaction_count accounts for every proposal, a closed multisig *)
(* leaves none behind but the one that carried the close, and a proposal   *)
(* that went stale while Active is never touched again.  Executing: an     *)
(* autonomous multisig changes only by a proposal its voters approved, and *)
(* no proposal runs before its time lock.                                  *)
(***************************************************************************)
EXTENDS BallotProofs

(***************************************************************************)
(* Closing.                                                                *)
(***************************************************************************)
\* A running execute works on the counters it found, and has closed the
\* multisig only if its own proposal was the last one open.
FrameCounts ==
    frame # NoFrame =>
        LET c == multisig[frame.multisig]
        IN  /\ frame.config.transaction_index = c.transaction_index
            /\ frame.config.closed_transaction_count = c.closed_transaction_count
            /\ frame.closed => c.closed_transaction_count + 1 = c.transaction_index

ClosingInv ==
    /\ BallotInv
    /\ FrameCounts
    /\ \A m \in Keys : IsFiniteSet(Open(m))
    /\ ClosedCountExact
    /\ CloseStrandsNothing

LEMMA ClosingTypes ==
    ASSUME ClosingInv
    PROVE  /\ TypeOK /\ Ledger /\ Running
           /\ DOMAIN multisig \subseteq Keys
           /\ \A m \in DOMAIN multisig : multisig[m] \in Config
           /\ \A m \in DOMAIN multisig :
                 /\ multisig[m].transaction_index \in Nat
                 /\ multisig[m].closed_transaction_count \in Nat
           /\ \A m \in Keys : Cardinality(Open(m)) \in Nat
<1>1. TypeOK /\ Ledger /\ Running /\ DOMAIN multisig \subseteq Keys
  BY DEF ClosingInv, BallotInv, RulesInv, TypeOK
<1>2. \A m \in DOMAIN multisig :
         /\ multisig[m] \in Config
         /\ multisig[m].transaction_index \in Nat
         /\ multisig[m].closed_transaction_count \in Nat
  BY <1>1 DEF TypeOK, Config
<1>3. \A m \in Keys : Cardinality(Open(m)) \in Nat
  BY FS_CardinalityType DEF ClosingInv
<1> QED BY <1>1, <1>2, <1>3

\* What the count entitles a close to conclude: by the authority, that no
\* proposal is open; in an execute, that the running one is the only one.
LEMMA CloseFindsNone ==
    ASSUME ClosingInv, NEW m \in DOMAIN multisig, m \notin miscount,
           multisig[m].closed_transaction_count = multisig[m].transaction_index
    PROVE  Open(m) = {}
<1>1. m \in Keys /\ Cardinality(Open(m)) \in Nat
      /\ multisig[m].transaction_index \in Nat
  BY ClosingTypes
<1>2. multisig[m].closed_transaction_count + Cardinality(Open(m)) = multisig[m].transaction_index
  BY DEF ClosingInv, ClosedCountExact
<1>3. Cardinality(Open(m)) = 0
  BY <1>1, <1>2
<1>4. IsFiniteSet(Open(m))
  BY <1>1 DEF ClosingInv
<1> QED BY <1>3, <1>4, FS_EmptySet

LEMMA CloseFindsItself ==
    ASSUME ClosingInv, frame # NoFrame, frame.closed, frame.multisig \notin miscount
    PROVE  /\ frame.multisig \in DOMAIN multisig
           /\ Open(frame.multisig) = {frame.transaction}
<1> DEFINE m == frame.multisig
           O == Open(m)
<1>1. /\ m \in DOMAIN multisig /\ m \in Keys
      /\ frame.transaction \in DOMAIN transaction
      /\ transaction[frame.transaction].multisig = m
  BY ClosingTypes DEF Ledger, Running
<1>2. /\ Cardinality(O) \in Nat /\ multisig[m].transaction_index \in Nat
      /\ multisig[m].closed_transaction_count \in Nat
  BY <1>1, ClosingTypes
<1>3. /\ multisig[m].closed_transaction_count + Cardinality(O) = multisig[m].transaction_index
      /\ multisig[m].closed_transaction_count + 1 = multisig[m].transaction_index
  BY <1>1 DEF ClosingInv, ClosedCountExact, FrameCounts
<1>4. Cardinality(O) = 1
  BY <1>2, <1>3
<1>5. IsFiniteSet(O)
  BY <1>1 DEF ClosingInv
<1>6. frame.transaction \in O
  BY <1>1 DEF Open
<1> HIDE DEF O
<1>7. \E x : O = {x}
  BY <1>4, <1>5, FS_Singleton
<1> QED BY <1>1, <1>6, <1>7 DEF O

\* Steps that open and close no proposal.
LEMMA OpenKept ==
    ASSUME DOMAIN transaction' = DOMAIN transaction,
           \A x \in DOMAIN transaction : transaction'[x].multisig = transaction[x].multisig,
           NEW m
    PROVE  Open(m)' = Open(m)
BY DEF Open

\* Steps that change neither multisigs nor proposals.
LEMMA ClosingFrame ==
    ASSUME ClosingInv, BallotInv', UNCHANGED <<multisig, transaction, created>>, FrameCounts',
           miscount \subseteq miscount'
    PROVE  ClosingInv'
<1>1. \A m : Open(m)' = Open(m)
  BY DEF Open
<1>2. CloseStrandsNothing' /\ ClosedCountExact' /\ \A m \in Keys : IsFiniteSet(Open(m)')
  BY <1>1 DEF ClosingInv, CloseStrandsNothing, ClosedCountExact
<1> QED BY <1>2 DEF ClosingInv

\* Steps that change one proposal, whose multisig stands or whose status stays.
LEMMA ClosingVote ==
    ASSUME ClosingInv, BallotInv', UNCHANGED <<multisig, created>>, frame' = NoFrame,
           miscount \subseteq miscount', NEW id \in DOMAIN transaction,
           NEW u, transaction' = [transaction EXCEPT ![id] = u],
           u.multisig = transaction[id].multisig,
           transaction[id].multisig \in DOMAIN multisig \/ u.status = transaction[id].status
    PROVE  ClosingInv'
<1>1. DOMAIN transaction' = DOMAIN transaction
      /\ \A x \in DOMAIN transaction : transaction'[x].multisig = transaction[x].multisig
  OBVIOUS
<1>2. \A m : Open(m)' = Open(m)
  BY <1>1, OpenKept
<1>3. FrameCounts'
  BY DEF FrameCounts
<1>4. CloseStrandsNothing'
  <2> SUFFICES ASSUME NEW m \in created \ (DOMAIN multisig \cup miscount)
               PROVE  /\ Cardinality(Open(m)) <= 1
                      /\ \A x \in Open(m) : transaction'[x].status = "Executed"
    BY <1>2 DEF CloseStrandsNothing
  <2>1. \A x \in Open(m) : transaction'[x].status = transaction[x].status
    BY DEF Open
  <2> QED BY <2>1 DEF ClosingInv, CloseStrandsNothing
<1>5. ClosedCountExact' /\ \A m \in Keys : IsFiniteSet(Open(m)')
  BY <1>2 DEF ClosingInv, ClosedCountExact
<1> QED BY <1>3, <1>4, <1>5 DEF ClosingInv

\* The steps that open or close a proposal, or a multisig.
LEMMA ClosingCreate ==
    ASSUME ClosingInv, BallotInv', NEW m \in Keys, NEW o \in Address, NEW message \in Messages,
           CreateTransaction(m, o, message)
    PROVE  ClosingInv'
<1> DEFINE c == multisig[m]
           id == <<m, c.transaction_index + 1>>
<1>1. /\ m \in DOMAIN multisig /\ id \notin DOMAIN transaction
      /\ DOMAIN transaction' = DOMAIN transaction \cup {id}
      /\ \A x \in DOMAIN transaction : transaction'[x] = transaction[x]
      /\ transaction'[id].multisig = m
  <2>1. TypeOK
    BY ClosingTypes
  <2>2. /\ m \in DOMAIN multisig /\ id \notin DOMAIN transaction
        /\ DOMAIN transaction' = DOMAIN transaction \cup {id}
        /\ \A x \in DOMAIN transaction : transaction'[x] = transaction[x]
        /\ transaction'[id] = NewTransaction(m, c, o, message)
    BY <2>1, CreateStep
  <2>3. NewTransaction(m, c, o, message).multisig = m
    BY DEF NewTransaction
  <2> QED BY <2>2, <2>3
<1>2. /\ multisig' = [multisig EXCEPT ![m].transaction_index = @ + 1]
      /\ frame' = NoFrame /\ created' = created /\ miscount' = miscount
  BY DEF CreateTransaction
<1>3. c \in Config /\ c.transaction_index \in Nat /\ c.closed_transaction_count \in Nat
  BY <1>1, ClosingTypes
<1>4. /\ DOMAIN multisig' = DOMAIN multisig
      /\ \A k \in DOMAIN multisig : k # m => multisig'[k] = multisig[k]
      /\ multisig'[m].transaction_index = c.transaction_index + 1
      /\ multisig'[m].closed_transaction_count = c.closed_transaction_count
  BY <1>1, <1>2, <1>3 DEF Config
<1> HIDE DEF id
<1>5. Open(m)' = Open(m) \cup {id} /\ id \notin Open(m)
  BY <1>1 DEF Open
<1>6. \A k : k # m => Open(k)' = Open(k)
  BY <1>1 DEF Open
<1>7. IsFiniteSet(Open(m)) /\ Cardinality(Open(m)) \in Nat
  BY ClosingTypes DEF ClosingInv
<1>8. IsFiniteSet(Open(m)') /\ Cardinality(Open(m)') = Cardinality(Open(m)) + 1
  BY <1>5, <1>7, FS_AddElement
<1>9. m \notin miscount =>
         c.closed_transaction_count + Cardinality(Open(m)) = c.transaction_index
  BY <1>1 DEF ClosingInv, ClosedCountExact
<1>10. m \notin miscount =>
          multisig'[m].closed_transaction_count + Cardinality(Open(m)') = multisig'[m].transaction_index
  BY <1>3, <1>4, <1>7, <1>8, <1>9
<1>11. ClosedCountExact'
  BY <1>2, <1>4, <1>6, <1>10 DEF ClosingInv, ClosedCountExact
<1>12. \A k \in Keys : IsFiniteSet(Open(k)')
  BY <1>6, <1>8 DEF ClosingInv
<1>13. CloseStrandsNothing'
  <2> SUFFICES ASSUME NEW k \in created \ (DOMAIN multisig \cup miscount)
               PROVE  /\ Cardinality(Open(k)') <= 1
                      /\ \A x \in Open(k)' : transaction'[x].status = "Executed"
    BY <1>2, <1>4 DEF CloseStrandsNothing
  <2>1. Open(k)' = Open(k) /\ \A x \in Open(k) : transaction'[x] = transaction[x]
    BY <1>1, <1>6 DEF Open
  <2> QED BY <2>1 DEF ClosingInv, CloseStrandsNothing
<1>14. FrameCounts'
  BY <1>2 DEF FrameCounts
<1> QED BY <1>11, <1>12, <1>13, <1>14 DEF ClosingInv

LEMMA ClosingClose ==
    ASSUME ClosingInv, BallotInv', NEW m \in Keys, NEW id \in DOMAIN transaction,
           NEW o \in Address, CloseTransaction(m, id, o)
    PROVE  ClosingInv'
<1> DEFINE c == multisig[m]
<1>1. /\ m \in DOMAIN multisig /\ transaction[id].multisig = m
      /\ multisig' = [multisig EXCEPT ![m].closed_transaction_count = @ + 1]
      /\ transaction' = Without(transaction, id)
      /\ frame' = NoFrame /\ created' = created /\ miscount' = miscount
  BY DEF CloseTransaction
<1>2. /\ DOMAIN transaction' = DOMAIN transaction \ {id}
      /\ \A x \in DOMAIN transaction' : transaction'[x] = transaction[x]
  BY <1>1 DEF Without, Restrict
<1>3. c \in Config /\ c.transaction_index \in Nat /\ c.closed_transaction_count \in Nat
  BY <1>1, ClosingTypes
<1>4. /\ DOMAIN multisig' = DOMAIN multisig
      /\ \A k \in DOMAIN multisig : k # m => multisig'[k] = multisig[k]
      /\ multisig'[m].transaction_index = c.transaction_index
      /\ multisig'[m].closed_transaction_count = c.closed_transaction_count + 1
  BY <1>1, <1>3 DEF Config
<1>5. Open(m)' = Open(m) \ {id} /\ id \in Open(m)
  BY <1>1, <1>2 DEF Open
<1>6. \A k : k # m => Open(k)' = Open(k)
  BY <1>1, <1>2 DEF Open
<1>7. IsFiniteSet(Open(m)) /\ Cardinality(Open(m)) \in Nat
  BY ClosingTypes DEF ClosingInv
<1>8. IsFiniteSet(Open(m)') /\ Cardinality(Open(m)') = Cardinality(Open(m)) - 1
  BY <1>5, <1>7, FS_RemoveElement
<1>9. m \notin miscount =>
         c.closed_transaction_count + Cardinality(Open(m)) = c.transaction_index
  BY <1>1 DEF ClosingInv, ClosedCountExact
<1>10. m \notin miscount =>
          multisig'[m].closed_transaction_count + Cardinality(Open(m)') = multisig'[m].transaction_index
  BY <1>3, <1>4, <1>7, <1>8, <1>9
<1>11. ClosedCountExact'
  BY <1>1, <1>4, <1>6, <1>10 DEF ClosingInv, ClosedCountExact
<1>12. \A k \in Keys : IsFiniteSet(Open(k)')
  BY <1>6, <1>8 DEF ClosingInv
<1>13. CloseStrandsNothing'
  <2> SUFFICES ASSUME NEW k \in created \ (DOMAIN multisig \cup miscount)
               PROVE  /\ Cardinality(Open(k)') <= 1
                      /\ \A x \in Open(k)' : transaction'[x].status = "Executed"
    BY <1>1, <1>4 DEF CloseStrandsNothing
  <2>1. Open(k)' = Open(k)
    BY <1>1, <1>6
  <2>2. \A x \in Open(k)' : transaction'[x] = transaction[x]
    BY <1>2 DEF Open
  <2> QED BY <2>1, <2>2 DEF ClosingInv, CloseStrandsNothing
<1>14. FrameCounts'
  BY <1>1 DEF FrameCounts
<1> QED BY <1>11, <1>12, <1>13, <1>14 DEF ClosingInv

\* Steps that change multisigs and open and close no proposal: counters are
\* kept, a new multisig has no proposal, and one that goes leaves at most the
\* proposal that carried the close.
LEMMA ClosingMoved ==
    ASSUME ClosingInv, BallotInv', frame' = NoFrame, miscount \subseteq miscount',
           DOMAIN transaction' = DOMAIN transaction,
           \A x \in DOMAIN transaction : transaction'[x].multisig = transaction[x].multisig,
           \A k \in DOMAIN multisig' \ miscount' :
              IF k \in DOMAIN multisig
              THEN /\ multisig'[k].transaction_index = multisig[k].transaction_index
                   /\ multisig'[k].closed_transaction_count = multisig[k].closed_transaction_count
              ELSE /\ multisig'[k].transaction_index = 0
                   /\ multisig'[k].closed_transaction_count = 0
                   /\ Open(k) = {},
           \A k \in created' \ (DOMAIN multisig' \cup miscount') :
              IF k \in created \ DOMAIN multisig
              THEN \A x \in Open(k) : transaction'[x].status = transaction[x].status
              ELSE \/ Open(k) = {}
                   \/ \E x : Open(k) = {x} /\ transaction'[x].status = "Executed"
    PROVE  ClosingInv'
<1>1. \A k : Open(k)' = Open(k)
  BY OpenKept
<1>2. Cardinality({}) = 0 /\ \A x : Cardinality({x}) = 1
  BY FS_EmptySet, FS_Singleton
<1>3. ClosedCountExact'
  <2> SUFFICES ASSUME NEW k \in DOMAIN multisig' \ miscount'
               PROVE  multisig'[k].closed_transaction_count + Cardinality(Open(k))
                         = multisig'[k].transaction_index
    BY <1>1 DEF ClosedCountExact
  <2>1. CASE k \in DOMAIN multisig
    BY <2>1 DEF ClosingInv, ClosedCountExact
  <2>2. CASE k \notin DOMAIN multisig
    <3>1. /\ multisig'[k].transaction_index = 0 /\ multisig'[k].closed_transaction_count = 0
          /\ Open(k) = {}
      BY <2>2
    <3>2. Cardinality(Open(k)) = 0
      BY <1>2, <3>1
    <3> QED BY <3>1, <3>2
  <2> QED BY <2>1, <2>2
<1>4. CloseStrandsNothing'
  <2> SUFFICES ASSUME NEW k \in created' \ (DOMAIN multisig' \cup miscount')
               PROVE  /\ Cardinality(Open(k)) <= 1
                      /\ \A x \in Open(k) : transaction'[x].status = "Executed"
    BY <1>1 DEF CloseStrandsNothing
  <2>1. CASE k \in created \ DOMAIN multisig
    BY <2>1 DEF ClosingInv, CloseStrandsNothing
  <2>2. CASE ~(k \in created \ DOMAIN multisig)
    <3>1. \/ Open(k) = {}
          \/ \E x : Open(k) = {x} /\ transaction'[x].status = "Executed"
      BY <2>2
    <3>2. Cardinality(Open(k)) \in {0, 1}
      BY <1>2, <3>1
    <3> QED BY <3>1, <3>2
  <2> QED BY <2>1, <2>2
<1>5. \A k \in Keys : IsFiniteSet(Open(k)')
  BY <1>1 DEF ClosingInv
<1>6. FrameCounts'
  BY DEF FrameCounts
<1> QED BY <1>3, <1>4, <1>5, <1>6 DEF ClosingInv

\* A proposal that goes uncounted: its multisig's count is no longer vouched
\* for, and the others' are.
LEMMA ClosingLost ==
    ASSUME ClosingInv, BallotInv', NEW id \in DOMAIN transaction,
           NEW m \in Keys, transaction[id].multisig = m,
           UNCHANGED <<multisig, created>>, frame' = NoFrame,
           transaction' = Without(transaction, id),
           miscount' = miscount \cup {m}
    PROVE  ClosingInv'
<1>1. /\ DOMAIN transaction' = DOMAIN transaction \ {id}
      /\ \A x \in DOMAIN transaction' : transaction'[x] = transaction[x]
  BY DEF Without, Restrict
<1>2. /\ Open(m)' = Open(m) \ {id} /\ id \in Open(m)
      /\ \A k : k # m => Open(k)' = Open(k)
  BY <1>1 DEF Open
<1>3. \A k \in Keys : IsFiniteSet(Open(k)')
  BY <1>2, FS_RemoveElement DEF ClosingInv
<1>4. ClosedCountExact'
  BY <1>2 DEF ClosingInv, ClosedCountExact
<1>5. CloseStrandsNothing'
  <2> SUFFICES ASSUME NEW k \in created \ (DOMAIN multisig \cup miscount), k # m
               PROVE  /\ Cardinality(Open(k)') <= 1
                      /\ \A x \in Open(k)' : transaction'[x].status = "Executed"
    BY DEF CloseStrandsNothing
  <2>1. Open(k)' = Open(k) /\ \A x \in Open(k)' : transaction'[x] = transaction[x]
    BY <1>1, <1>2 DEF Open
  <2> QED BY <2>1 DEF ClosingInv, CloseStrandsNothing
<1>6. FrameCounts'
  BY DEF FrameCounts
<1> QED BY <1>3, <1>4, <1>5, <1>6 DEF ClosingInv

\* A running execute keeps the counters it started with, and closes only when
\* its own proposal is the last one open.
LEMMA FrameCountsStep ==
    ASSUME ClosingInv, Execution \/ \E m \in Keys, id \in DOMAIN transaction, o \in Address :
                                        BeginExecute(m, id, o)
    PROVE  FrameCounts'
<1>0. TypeOK /\ Ledger /\ FrameCounts
  BY ClosingTypes DEF ClosingInv
<1>1. ASSUME NEW m \in Keys, NEW id \in DOMAIN transaction, NEW o \in Address,
             BeginExecute(m, id, o)
      PROVE  FrameCounts'
  BY <1>1 DEF BeginExecute, FrameCounts
<1>2. ASSUME AtInstruction
      PROVE  /\ frame \in Frame /\ frame # NoFrame
             /\ frame.config \in Config /\ Head(frame.rest) \in Instruction
  <2>1. frame \in Frame /\ frame # NoFrame /\ frame.rest # <<>>
    BY <1>0, <1>2 DEF AtInstruction, TypeOK
  <2>2. frame.rest \in Seq(Instruction) /\ frame.config \in Config
    BY <2>1 DEF Frame
  <2> QED BY <2>1, <2>2
<1>3. CASE ConfigStep
  <2> DEFINE r == ApplyConfigAction(frame.config, Head(frame.rest))
  <2>1. /\ AtInstruction /\ r # Err /\ ~frame.closed
        /\ frame' = [frame EXCEPT !.config = r, !.rest = Tail(@)] /\ UNCHANGED multisig
    BY <1>3 DEF ConfigStep
  <2>2. /\ r.transaction_index = frame.config.transaction_index
        /\ r.closed_transaction_count = frame.config.closed_transaction_count
    BY <1>2, <2>1, ConfigActionType
  <2> HIDE DEF r
  <2>3. frame'.multisig = frame.multisig /\ frame'.config = r /\ frame'.closed = frame.closed
    BY <1>2, <2>1 DEF Frame
  <2> QED BY <1>0, <1>2, <2>1, <2>2, <2>3 DEF FrameCounts
<1>4. CASE CloseStep
  <2>1. /\ AtInstruction /\ CloseAllowed(frame.config, frame.executor, TRUE)
        /\ frame' = [frame EXCEPT !.closed = TRUE, !.rest = Tail(@)] /\ UNCHANGED multisig
    BY <1>4 DEF CloseStep
  <2>2. frame'.multisig = frame.multisig /\ frame'.config = frame.config
    BY <1>2, <2>1 DEF Frame
  <2>3. frame.config.closed_transaction_count + 1 = frame.config.transaction_index
    BY <2>1 DEF CloseAllowed
  <2> QED BY <1>0, <1>2, <2>1, <2>2, <2>3 DEF FrameCounts
<1>5. CASE CpiStep
  <2>1. /\ AtInstruction /\ frame' = [frame EXCEPT !.rest = Tail(@)] /\ UNCHANGED multisig
    BY <1>5 DEF CpiStep
  <2>2. /\ frame'.multisig = frame.multisig /\ frame'.config = frame.config
        /\ frame'.closed = frame.closed
    BY <1>2, <2>1 DEF Frame
  <2> QED BY <1>0, <1>2, <2>1, <2>2 DEF FrameCounts
<1>6. CASE EndExecute \/ Abort
  BY <1>6 DEF EndExecute, Abort, FrameCounts
<1> QED BY <1>1, <1>3, <1>4, <1>5, <1>6 DEF Execution

LEMMA ClosingEnd ==
    ASSUME ClosingInv, BallotInv', EndExecute
    PROVE  ClosingInv'
<1> DEFINE m == frame.multisig
           id == frame.transaction
<1>1. /\ frame # NoFrame /\ frame' = NoFrame /\ UNCHANGED <<created, miscount>>
      /\ multisig' = IF frame.closed THEN Without(multisig, m)
                     ELSE [multisig EXCEPT ![m] = frame.config]
      /\ transaction' = [transaction EXCEPT ![id].status = "Executed"]
  BY DEF EndExecute
<1>2. /\ m \in DOMAIN multisig /\ id \in DOMAIN transaction /\ transaction[id].multisig = m
      /\ transaction[id] \in Transaction
  BY <1>1, ClosingTypes DEF Ledger, Running, TypeOK
<1>3. /\ DOMAIN transaction' = DOMAIN transaction
      /\ \A x \in DOMAIN transaction : transaction'[x].multisig = transaction[x].multisig
      /\ \A x \in DOMAIN transaction : x # id => transaction'[x] = transaction[x]
      /\ transaction'[id].status = "Executed"
  BY <1>1, <1>2 DEF Transaction
<1>4. /\ frame.config.transaction_index = multisig[m].transaction_index
      /\ frame.config.closed_transaction_count = multisig[m].closed_transaction_count
  BY <1>1 DEF ClosingInv, FrameCounts
<1>5. frame.closed /\ m \notin miscount => Open(m) = {id}
  BY <1>1, CloseFindsItself
<1> HIDE DEF m, id
<1>6. \A k \in DOMAIN multisig' :
         /\ k \in DOMAIN multisig
         /\ multisig'[k].transaction_index = multisig[k].transaction_index
         /\ multisig'[k].closed_transaction_count = multisig[k].closed_transaction_count
  BY <1>1, <1>2, <1>4 DEF Without, Restrict
<1>7. ASSUME NEW k \in created' \ (DOMAIN multisig' \cup miscount')
      PROVE  IF k \in created \ DOMAIN multisig
             THEN \A x \in Open(k) : transaction'[x].status = transaction[x].status
             ELSE \E x : Open(k) = {x} /\ transaction'[x].status = "Executed"
  <2>1. CASE k \in created \ DOMAIN multisig
    <3>1. \A x \in Open(k) : x \in DOMAIN transaction /\ x # id
      BY <1>2, <2>1 DEF Open
    <3> QED BY <1>3, <2>1, <3>1
  <2>2. CASE k \in DOMAIN multisig
    <3>1. frame.closed /\ k = m
      BY <1>1, <1>7, <2>2 DEF Without, Restrict
    <3> QED BY <1>1, <1>3, <1>5, <1>7, <2>2, <3>1
  <2> QED BY <1>1, <1>7, <2>1, <2>2
<1> QED BY <1>1, <1>3, <1>6, <1>7, ClosingMoved

LEMMA ClosingStep ==
    ASSUME ClosingInv, Next PROVE ClosingInv'
<1>0. BallotInv' /\ TypeOK /\ Ledger /\ miscount \subseteq miscount'
  BY BallotStep, ClosingTypes, MistakesKept, FreshReuses DEF ClosingInv
<1>1. ASSUME NEW m \in Keys, NEW g \in Genesis, InitFresh(m, g) PROVE ClosingInv'
  <2>1. /\ m \notin created /\ multisig' = Put(multisig, m, NewConfig(g))
        /\ created' = created \cup {m} /\ frame' = NoFrame /\ UNCHANGED transaction
    BY <1>1 DEF InitFresh, InitMultisig
  <2>2. Open(m) = {} /\ DOMAIN multisig \subseteq created
    BY <1>0, <2>1 DEF Ledger, Open
  <2>3. NewConfig(g).transaction_index = 0 /\ NewConfig(g).closed_transaction_count = 0
    BY DEF NewConfig
  <2>4. /\ DOMAIN multisig' = DOMAIN multisig \cup {m} /\ m \notin DOMAIN multisig
        /\ \A k \in DOMAIN multisig : multisig'[k] = multisig[k]
        /\ multisig'[m] = NewConfig(g)
    BY <2>1, <2>2 DEF Put
  <2>5. \A k \in created' \ DOMAIN multisig' : k \in created \ DOMAIN multisig
    BY <2>1, <2>4
  <2>6. \A k \in DOMAIN multisig' :
           IF k \in DOMAIN multisig
           THEN multisig'[k] = multisig[k]
           ELSE /\ multisig'[k].transaction_index = 0
                /\ multisig'[k].closed_transaction_count = 0
                /\ Open(k) = {}
    BY <2>2, <2>3, <2>4
  <2> QED BY <1>0, <2>1, <2>5, <2>6, ClosingMoved
<1>2. ASSUME NEW m \in Keys, NEW id \in DOMAIN transaction, NEW o \in Address,
             \/ Approve(m, id, o) \/ Reject(m, id, o)
             \/ CancelActive(m, id, o) \/ CancelApproved(m, id, o)
      PROVE  ClosingInv'
  <2> DEFINE t == transaction[id]
             p == Position(multisig[m].owners, o)
  <2>1. /\ UNCHANGED <<multisig, created>> /\ frame' = NoFrame
        /\ t.multisig \in DOMAIN multisig
    BY <1>2 DEF Approve, Reject, CancelActive, CancelApproved, Prepared, CheckVotable
  <2>2. \E u \in {Approved(t, multisig[m], p), Rejected(t, multisig[m], p),
                  CancelVoted(t, multisig[m], p), [t EXCEPT !.status = "Cancelled"]} :
           transaction' = [transaction EXCEPT ![id] = u]
    BY <1>2 DEF Approve, Reject, CancelActive, CancelApproved
  <2>3. t \in Transaction
    BY <1>0 DEF TypeOK
  <2>4. \E u : transaction' = [transaction EXCEPT ![id] = u] /\ u.multisig = t.multisig
    <3>1. PICK u \in {Approved(t, multisig[m], p), Rejected(t, multisig[m], p),
                      CancelVoted(t, multisig[m], p), [t EXCEPT !.status = "Cancelled"]} :
             transaction' = [transaction EXCEPT ![id] = u]
      BY <2>2
    <3>2. /\ Approved(t, multisig[m], p).multisig = t.multisig
          /\ Rejected(t, multisig[m], p).multisig = t.multisig
          /\ CancelVoted(t, multisig[m], p).multisig = t.multisig
          /\ [t EXCEPT !.status = "Cancelled"].multisig = t.multisig
      <4> HIDE DEF t, p
      <4> QED BY <2>3, VoteKeeps
    <3>3. u.multisig = t.multisig
      BY <3>2
    <3> QED BY <3>1, <3>3
  <2> QED BY <1>0, <2>1, <2>4, ClosingVote
<1>3. ASSUME NEW m \in Keys, NEW a \in Address, NEW i \in AuthorityActions, SetConfig(m, a, i)
      PROVE  ClosingInv'
  <2> DEFINE r == ApplyConfigAction(multisig[m], i)
  <2>1. /\ m \in DOMAIN multisig /\ r # Err /\ multisig' = [multisig EXCEPT ![m] = r]
        /\ frame' = NoFrame /\ UNCHANGED <<transaction, created>>
    BY <1>3 DEF SetConfig, Authorized
  <2>2. multisig[m] \in Config /\ i \in Instruction
    BY <1>0, <2>1, MessagesAssumption DEF TypeOK
  <2>3. /\ r.transaction_index = multisig[m].transaction_index
        /\ r.closed_transaction_count = multisig[m].closed_transaction_count
    BY <2>1, <2>2, ConfigActionType
  <2> HIDE DEF r
  <2>4. /\ DOMAIN multisig' = DOMAIN multisig
        /\ \A k \in DOMAIN multisig :
              /\ multisig'[k].transaction_index = multisig[k].transaction_index
              /\ multisig'[k].closed_transaction_count = multisig[k].closed_transaction_count
    BY <2>1, <2>3
  <2> QED BY <1>0, <2>1, <2>4, ClosingMoved
<1>4. ASSUME NEW m \in Keys, NEW a \in Address, NEW i \in AuthorityActions,
             SetConfigClose(m, a, i)
      PROVE  ClosingInv'
  <2>1. /\ m \in DOMAIN multisig /\ multisig' = Without(multisig, m)
        /\ CloseAllowed(multisig[m], a, FALSE)
        /\ frame' = NoFrame /\ UNCHANGED <<transaction, created>>
    BY <1>4 DEF SetConfigClose, Authorized
  <2>2. m \notin miscount => Open(m) = {}
    BY <2>1, CloseFindsNone DEF CloseAllowed
  <2>3. /\ DOMAIN multisig' = DOMAIN multisig \ {m}
        /\ \A k \in DOMAIN multisig' : multisig'[k] = multisig[k]
    BY <2>1 DEF Without, Restrict
  <2>4. \A k \in created' \ (DOMAIN multisig' \cup miscount') :
           k \in created \ DOMAIN multisig \/ Open(k) = {}
    BY <1>0, <2>1, <2>2, <2>3
  <2> QED BY <1>0, <2>1, <2>3, <2>4, ClosingMoved
<1>5. CASE Execution \/ \E m \in Keys, id \in DOMAIN transaction, o \in Address :
                            BeginExecute(m, id, o)
  <2>1. FrameCounts'
    BY <1>5, FrameCountsStep
  <2>2. EndExecute \/ UNCHANGED <<multisig, transaction, created>>
    BY <1>5 DEF Execution, ConfigStep, CloseStep, CpiStep, Abort, BeginExecute
  <2> QED BY <1>0, <2>1, <2>2, ClosingFrame, ClosingEnd
<1>6. CASE Tick
  <2>1. FrameCounts' /\ UNCHANGED <<multisig, transaction, created>>
    BY <1>6 DEF Tick, FrameCounts
  <2> QED BY <1>0, <2>1, ClosingFrame
<1>7. ASSUME NEW id \in DOMAIN transaction, NEW a \in Address, NEW i \in AuthorityActions,
             SetConfigOnTransaction(id, a, i)
      PROVE  ClosingInv'
  <2>1. PICK u \in Rewritten(transaction[id], i) : transaction' = [transaction EXCEPT ![id] = u]
    BY <1>7 DEF SetConfigOnTransaction
  <2>2. u.multisig = transaction[id].multisig /\ u.status = transaction[id].status
    BY <1>0, RewrittenType DEF TypeOK
  <2>3. UNCHANGED <<multisig, created>> /\ frame' = NoFrame
    BY <1>7 DEF SetConfigOnTransaction, Misread
  <2> QED BY <1>0, <2>1, <2>2, <2>3, ClosingVote
<1>8. ASSUME NEW id \in DOMAIN transaction, NEW a \in Address, NEW i \in AuthorityActions,
             SetConfigCloseOnTransaction(id, a, i)
      PROVE  ClosingInv'
  <2>1. /\ UNCHANGED <<multisig, created>> /\ frame' = NoFrame
        /\ transaction' = Without(transaction, id)
        /\ miscount' = miscount \cup {transaction[id].multisig}
    BY <1>8 DEF SetConfigCloseOnTransaction, Misread
  <2>2. transaction[id].multisig \in Keys
    BY <1>0 DEF TypeOK, Transaction
  <2> QED BY <1>0, <2>1, <2>2, ClosingLost
<1>9. ASSUME NEW m \in Keys, CloseOther(m) PROVE ClosingInv'
  <2>1. /\ multisig' = [multisig EXCEPT ![m].closed_transaction_count = @ + 1]
        /\ m \in DOMAIN multisig /\ m \in miscount'
        /\ frame' = NoFrame /\ UNCHANGED <<transaction, created>>
    BY <1>9 DEF CloseOther
  <2>2. /\ DOMAIN multisig' = DOMAIN multisig
        /\ \A k \in DOMAIN multisig' \ miscount' : multisig'[k] = multisig[k]
    BY <2>1
  <2> QED BY <1>0, <2>1, <2>2, ClosingMoved
<1> QED BY <1>0, <1>1, <1>2, <1>3, <1>4, <1>5, <1>6, <1>7, <1>8, <1>9, ClosingCreate, ClosingClose
        DEF Next, Step, Execution

\* The inductive invariant of closing.
LEMMA ClosingsSound == Spec => []ClosingInv
<1>1. Init => ClosingInv
  <2> SUFFICES ASSUME Init PROVE ClosingInv
    OBVIOUS
  <2>1. BallotInv
    BY DEF Init, BallotInv, RulesInv, TypeOK, Ledger, VotableUnderItsRules, VoterCountExact,
           Running, Genuine
  <2>2. \A m : Open(m) = {}
    BY DEF Init, Open
  <2>3. \A m \in Keys : IsFiniteSet(Open(m))
    BY <2>2, FS_EmptySet
  <2> QED BY <2>1, <2>3 DEF Init, ClosingInv, FrameCounts, ClosedCountExact, CloseStrandsNothing
<1>2. ClosingInv /\ [Next]_vars => ClosingInv'
  <2> SUFFICES ASSUME ClosingInv, UNCHANGED vars PROVE ClosingInv'
    BY ClosingStep
  <2>1. FrameCounts'
    BY DEF vars, ClosingInv, FrameCounts
  <2>2. BallotInv'
    <3>1. RulesInv'
      BY DEF vars, ClosingInv, BallotInv, RulesInv, TypeOK, Ledger, VotableUnderItsRules, SameRules,
             Genuine
    <3>2. VoterCountExact'
      BY DEF vars, ClosingInv, BallotInv, VoterCountExact, CountsVoters, Voters
    <3>3. Running'
      BY DEF vars, ClosingInv, BallotInv, Running
    <3> QED BY <3>1, <3>2, <3>3 DEF vars, ClosingInv, BallotInv, Genuine
  <2> QED BY <2>1, <2>2, ClosingFrame DEF vars
<1> QED BY <1>1, <1>2, PTL DEF Spec

\* closed_transaction_count is right: the proposals still open are exactly the
\* ones made and not closed, of every multisig that never counted a buffer and
\* never lost a proposal to set_config, whatever happened to the others.
THEOREM ClosedCounted == Spec => []ClosedCountExact
<1>1. ClosingInv => ClosedCountExact
  BY DEF ClosingInv
<1> QED BY <1>1, ClosingsSound, PTL

\* A closed multisig leaves no proposal behind but the executed one that
\* carried the close, if it counted right; the proposals of it that were
\* written as a multisig are not excepted.
THEOREM NothingStranded == Spec => []CloseStrandsNothing
<1>1. ClosingInv => CloseStrandsNothing
  BY DEF ClosingInv
<1> QED BY <1>1, ClosingsSound, PTL

\* A proposal that goes stale while Active is never touched again as long as it
\* is taken for a proposal, and keeps a multisig that counts right from being
\* closed: no handler takes it, and the count leaves a close no room.
THEOREM StaleFrozen == Spec => StaleActiveFrozen
<1> DEFINE Frozen ==
       \A id \in Genuine :
          LET t == transaction[id]
          IN  /\ t.status = "Active"
              /\ t.multisig \in DOMAIN multisig
              /\ t.index <= multisig[t.multisig].stale_transaction_index
              => /\ id \notin misread' => id \in DOMAIN transaction' /\ transaction'[id] = t
                 /\ t.multisig \in DOMAIN multisig' \cup miscount
<1>1. ASSUME ClosingInv, Next PROVE Frozen
  <2> SUFFICES ASSUME NEW id \in DOMAIN transaction, transaction[id].status = "Active",
                      transaction[id].multisig \in DOMAIN multisig,
                      transaction[id].index
                         <= multisig[transaction[id].multisig].stale_transaction_index
               PROVE  /\ id \notin misread' =>
                            id \in DOMAIN transaction' /\ transaction'[id] = transaction[id]
                      /\ transaction[id].multisig \in DOMAIN multisig' \cup miscount
    BY DEF Genuine
  <2> DEFINE t == transaction[id]
             k == t.multisig
             Untouched == id \notin misread' => id \in DOMAIN transaction' /\ transaction'[id] = t
  <2>0. ClosingInv /\ Next /\ TypeOK /\ Running
    BY <1>1, ClosingTypes
  <2>1. t.index \in Nat /\ multisig[k].stale_transaction_index \in Nat
    BY <2>0 DEF TypeOK, Transaction, Config
  <2>2. Untouched
    <3>1. ASSUME NEW m \in Keys, NEW o \in Address, NEW message \in Messages,
                 CreateTransaction(m, o, message)
          PROVE  Untouched
      BY <2>0, <3>1, CreateStep
    <3>2. ASSUME NEW m \in Keys, NEW x \in DOMAIN transaction, NEW o \in Address,
                 \/ Approve(m, x, o) \/ Reject(m, x, o)
                 \/ CancelActive(m, x, o) \/ CancelApproved(m, x, o)
          PROVE  Untouched
      <4>1. \E u : transaction' = [transaction EXCEPT ![x] = u]
        BY <3>2 DEF Approve, Reject, CancelActive, CancelApproved
      <4>2. /\ transaction[x].multisig = m
            /\ transaction[x].index > multisig[m].stale_transaction_index
        BY <3>2 DEF Approve, Reject, CancelActive, CancelApproved, Prepared, CheckVotable
      <4>3. x # id
        BY <2>1, <4>2
      <4> QED BY <4>1, <4>3
    <3>3. ASSUME NEW m \in Keys, NEW x \in DOMAIN transaction, NEW o \in Address,
                 CloseTransaction(m, x, o)
          PROVE  Untouched
      <4>1. transaction[x].status \in Terminal /\ transaction' = Without(transaction, x)
        BY <3>3 DEF CloseTransaction
      <4>2. x # id
        BY <4>1 DEF Terminal
      <4> QED BY <4>1, <4>2 DEF Without, Restrict
    <3>4. ASSUME EndExecute PROVE Untouched
      <4>1. frame.transaction # id
        BY <2>0, <3>4 DEF EndExecute, Running
      <4> QED BY <3>4, <4>1 DEF EndExecute
    <3>5. ASSUME NEW x \in DOMAIN transaction, NEW a \in Address, NEW i \in AuthorityActions,
                 SetConfigOnTransaction(x, a, i) \/ SetConfigCloseOnTransaction(x, a, i)
          PROVE  Untouched
      BY <3>5 DEF SetConfigOnTransaction, SetConfigCloseOnTransaction, Without, Restrict
    <3> QED BY <2>0, <3>1, <3>2, <3>3, <3>4, <3>5, ProposalSteps, FreshReuses
  <2>3. k \in DOMAIN multisig' \cup miscount
    <3>1. id \in Open(k)
      BY DEF Open
    <3>2. ASSUME NEW m \in Keys, NEW g \in Genesis, InitMultisig(m, g)
          PROVE  DOMAIN multisig \subseteq DOMAIN multisig'
      BY <3>2 DEF InitMultisig, Put
    <3>3. ASSUME NEW m \in Keys, NEW o \in Address, NEW message \in Messages,
                 CreateTransaction(m, o, message)
          PROVE  DOMAIN multisig \subseteq DOMAIN multisig'
      BY <3>3 DEF CreateTransaction
    <3>4. ASSUME NEW m \in Keys, NEW x \in DOMAIN transaction, NEW o \in Address,
                 CloseTransaction(m, x, o)
          PROVE  DOMAIN multisig \subseteq DOMAIN multisig'
      BY <3>4 DEF CloseTransaction
    <3>5. ASSUME NEW m \in Keys, NEW a \in Address, NEW i \in AuthorityActions,
                 SetConfig(m, a, i)
          PROVE  DOMAIN multisig \subseteq DOMAIN multisig'
      BY <3>5 DEF SetConfig
    <3>6. ASSUME NEW m \in Keys, NEW a \in Address, NEW i \in AuthorityActions,
                 SetConfigClose(m, a, i)
          PROVE  k \in DOMAIN multisig' \cup miscount
      <4>1. /\ m \in DOMAIN multisig /\ multisig' = Without(multisig, m)
            /\ multisig[m].closed_transaction_count = multisig[m].transaction_index
        BY <3>6 DEF SetConfigClose, Authorized, CloseAllowed
      <4>2. m \notin miscount => Open(m) = {}
        BY <2>0, <4>1, CloseFindsNone
      <4>3. m # k \/ m \in miscount
        BY <3>1, <4>2
      <4> QED BY <4>1, <4>3 DEF Without, Restrict
    <3>7. ASSUME EndExecute PROVE k \in DOMAIN multisig' \cup miscount
      <4>1. /\ frame # NoFrame
            /\ multisig' = IF frame.closed THEN Without(multisig, frame.multisig)
                           ELSE [multisig EXCEPT ![frame.multisig] = frame.config]
        BY <3>7 DEF EndExecute
      <4>2. frame.closed /\ frame.multisig \notin miscount => Open(frame.multisig) = {frame.transaction}
        BY <2>0, <4>1, CloseFindsItself
      <4>3. frame.transaction # id
        BY <2>0, <4>1 DEF Running
      <4>4. frame.closed => frame.multisig # k \/ k \in miscount
        BY <3>1, <4>2, <4>3
      <4> QED BY <4>1, <4>4 DEF Without, Restrict
    <3>8. ASSUME NEW m \in Keys, CloseOther(m) PROVE DOMAIN multisig \subseteq DOMAIN multisig'
      BY <3>8 DEF CloseOther
    <3> QED BY <2>0, <3>2, <3>3, <3>4, <3>5, <3>6, <3>7, <3>8, MultisigSteps, FreshReuses
  <2> QED BY <2>2, <2>3
<1>2. ClosingInv /\ [Next]_vars => [Frozen]_vars
  BY <1>1
<1> QED BY <1>2, ClosingsSound, PTL DEF Spec, StaleActiveFrozen

(***************************************************************************)
(* Autonomy.                                                               *)
(***************************************************************************)
\* Moving the counters changes no rule.
LEMMA RulesIgnoreCounters ==
    ASSUME NEW c \in Config, NEW n \in Nat
    PROVE  /\ Rules([c EXCEPT !.transaction_index = n]) = Rules(c)
           /\ Rules([c EXCEPT !.closed_transaction_count = n]) = Rules(c)
BY DEF Rules, Config

\* Outside an execution, rules change and multisigs go only on the signature
\* of a config authority.
LEMMA OnlyAuthority ==
    ASSUME BallotInv, Next, ~EndExecute, NEW k \in Keys, Reconfigured(k)
    PROVE  multisig[k].config_authority # DEFAULT
<1>0. TypeOK /\ k \in DOMAIN multisig
  BY DEF BallotInv, RulesInv, Reconfigured
<1>1. CASE UNCHANGED multisig
  BY <1>1 DEF Reconfigured
<1>2. ASSUME NEW m \in Keys, NEW g \in Genesis, InitMultisig(m, g)
      PROVE  FALSE
  <2>1. multisig' = Put(multisig, m, NewConfig(g)) /\ m \notin DOMAIN multisig
    BY <1>2 DEF InitMultisig
  <2>2. k \in DOMAIN multisig' /\ multisig'[k] = multisig[k]
    BY <1>0, <2>1 DEF Put
  <2> QED BY <2>2 DEF Reconfigured
<1>3. ASSUME NEW m \in Keys, NEW o \in Address, NEW message \in Messages,
             CreateTransaction(m, o, message)
      PROVE  FALSE
  <2> DEFINE n == multisig[m].transaction_index + 1
  <2>1. /\ m \in DOMAIN multisig /\ multisig[m] \in Config
        /\ multisig' = [multisig EXCEPT ![m] = [multisig[m] EXCEPT !.transaction_index = n]]
    BY <1>0, <1>3 DEF CreateTransaction, TypeOK
  <2>2. n \in Nat
    BY <2>1 DEF Config
  <2> HIDE DEF n
  <2>3. Rules([multisig[m] EXCEPT !.transaction_index = n]) = Rules(multisig[m])
    BY <2>1, <2>2, RulesIgnoreCounters
  <2>4. k \in DOMAIN multisig' /\ Rules(multisig'[k]) = Rules(multisig[k])
    BY <1>0, <2>1, <2>3
  <2> QED BY <2>4 DEF Reconfigured
<1>4. ASSUME NEW m \in Keys, NEW id \in DOMAIN transaction, NEW o \in Address,
             CloseTransaction(m, id, o)
      PROVE  FALSE
  <2> DEFINE n == multisig[m].closed_transaction_count + 1
  <2>1. /\ m \in DOMAIN multisig /\ multisig[m] \in Config
        /\ multisig' = [multisig EXCEPT ![m] = [multisig[m] EXCEPT !.closed_transaction_count = n]]
    BY <1>0, <1>4 DEF CloseTransaction, TypeOK
  <2>2. n \in Nat
    BY <2>1 DEF Config
  <2> HIDE DEF n
  <2>3. Rules([multisig[m] EXCEPT !.closed_transaction_count = n]) = Rules(multisig[m])
    BY <2>1, <2>2, RulesIgnoreCounters
  <2>4. k \in DOMAIN multisig' /\ Rules(multisig'[k]) = Rules(multisig[k])
    BY <1>0, <2>1, <2>3
  <2> QED BY <2>4 DEF Reconfigured
<1>5. ASSUME NEW m \in Keys, NEW a \in Address, NEW i \in AuthorityActions,
             SetConfig(m, a, i) \/ SetConfigClose(m, a, i)
      PROVE  multisig[k].config_authority # DEFAULT
  <2>1. /\ multisig[m].config_authority # DEFAULT
        /\ \/ \E r : multisig' = [multisig EXCEPT ![m] = r]
           \/ multisig' = Without(multisig, m)
    BY <1>5 DEF SetConfig, SetConfigClose, Authorized
  <2>2. k # m => k \in DOMAIN multisig' /\ multisig'[k] = multisig[k]
    BY <1>0, <2>1 DEF Without, Restrict
  <2> QED BY <2>1, <2>2 DEF Reconfigured
<1>6. ASSUME NEW m \in Keys, CloseOther(m) PROVE FALSE
  <2> DEFINE n == multisig[m].closed_transaction_count + 1
  <2>1. /\ m \in DOMAIN multisig /\ multisig[m] \in Config
        /\ multisig' = [multisig EXCEPT ![m] = [multisig[m] EXCEPT !.closed_transaction_count = n]]
    BY <1>0, <1>6 DEF CloseOther, TypeOK
  <2>2. n \in Nat
    BY <2>1 DEF Config
  <2> HIDE DEF n
  <2>3. Rules([multisig[m] EXCEPT !.closed_transaction_count = n]) = Rules(multisig[m])
    BY <2>1, <2>2, RulesIgnoreCounters
  <2>4. k \in DOMAIN multisig' /\ Rules(multisig'[k]) = Rules(multisig[k])
    BY <1>0, <2>1, <2>3
  <2> QED BY <2>4 DEF Reconfigured
<1> QED BY <1>1, <1>2, <1>3, <1>4, <1>5, <1>6, MultisigSteps, FreshReuses

\* An execution changes and closes only the multisig of the proposal it runs,
\* which a quorum approved if it was never written as a multisig.
LEMMA OnlyItsOwn ==
    ASSUME BallotInv, EndExecute, NEW k \in Keys, Reconfigured(k)
    PROVE  \E id \in DOMAIN transaction :
              /\ RunsNow(id)
              /\ transaction[id].multisig = k
              /\ id \in Genuine =>
                    Cardinality(ballot[id].approvers) >= ballot[id].config.threshold
<1> DEFINE id == frame.transaction
<1>1. /\ frame # NoFrame
      /\ multisig' = IF frame.closed THEN Without(multisig, frame.multisig)
                     ELSE [multisig EXCEPT ![frame.multisig] = frame.config]
      /\ transaction' = [transaction EXCEPT ![id].status = "Executed"]
  BY DEF EndExecute
<1>2. /\ id \in DOMAIN transaction /\ transaction[id].status = "Approved"
      /\ transaction[id].multisig = frame.multisig
  BY <1>1 DEF BallotInv, Running
<1>3. transaction[id] \in Transaction
  BY <1>2 DEF BallotInv, RulesInv, TypeOK
<1>4. RunsNow(id)
  BY <1>1, <1>2, <1>3 DEF RunsNow, Transaction
<1>5. id \in Genuine => Cardinality(ballot[id].approvers) >= ballot[id].config.threshold
  BY <1>2 DEF BallotInv, Sound, Verdict
<1>6. k = frame.multisig
  BY <1>1 DEF Reconfigured, Without, Restrict
<1> QED BY <1>2, <1>4, <1>5, <1>6

\* Nothing changes or closes an autonomous multisig but the execution of a
\* proposal of its own that a quorum of its voters approved, unless that
\* proposal was itself written as a multisig.
THEOREM AutonomyKept == Spec => AutonomousNeedsAVote
<1> DEFINE Voted ==
       \A m \in Keys :
          Reconfigured(m) /\ multisig[m].config_authority = DEFAULT =>
              \E id \in DOMAIN transaction :
                  /\ RunsNow(id)
                  /\ transaction[id].multisig = m
                  /\ id \in Genuine =>
                        Cardinality(ballot[id].approvers) >= ballot[id].config.threshold
<1>1. BallotInv /\ [Next]_vars => [Voted]_vars
  BY OnlyAuthority, OnlyItsOwn
<1> QED BY <1>1, BallotsSound, PTL DEF Spec, AutonomousNeedsAVote

(***************************************************************************)
(* Time locks.                                                             *)
(***************************************************************************)
\* An Approved proposal carries the moment of the vote that latched it.
Stamped(t, b, now) ==
    t.status = "Approved" => t.approved_at = b.latched /\ b.latched <= now

\* A running execute found the time lock in force passed, and while it runs
\* neither the clock nor the committed configuration moves.
Released ==
    frame # NoFrame =>
        TimeLockReleased(multisig[frame.multisig], transaction[frame.transaction])

LockInv ==
    /\ BallotInv
    /\ Released
    /\ \A id \in Genuine : Stamped(transaction[id], ballot[id], clock)

LEMMA ReleasedStep ==
    ASSUME LockInv, Next PROVE Released'
<1>0. frame \in Frame \cup {NoFrame} /\ Released
  BY DEF LockInv, BallotInv, RulesInv, TypeOK
<1>1. CASE frame' = NoFrame
  BY <1>1 DEF Released
<1>2. ASSUME NEW m \in Keys, NEW id \in DOMAIN transaction, NEW o \in Address,
             BeginExecute(m, id, o)
      PROVE  Released'
  BY <1>2 DEF BeginExecute, Released, TimeLockReleased
<1>3. ASSUME frame # NoFrame, frame' # NoFrame PROVE Released'
  <2>1. ConfigStep \/ CloseStep \/ CpiStep
    BY <1>3, ExecuteAlone, FreshReuses DEF Execution, EndExecute, Abort
  <2>2. UNCHANGED <<multisig, transaction, clock>>
    BY <2>1 DEF ConfigStep, CloseStep, CpiStep
  <2>3. frame'.multisig = frame.multisig /\ frame'.transaction = frame.transaction
    BY <1>0, <1>3, <2>1 DEF ConfigStep, CloseStep, CpiStep, Frame
  <2> QED BY <1>0, <1>3, <2>2, <2>3 DEF Released, TimeLockReleased
<1> QED BY <1>1, <1>2, <1>3, ExecuteAlone, FreshReuses

\* The clock only goes forward.
LEMMA ClockForward ==
    ASSUME Next
    PROVE  \/ clock' = clock
           \/ clock' = clock + 1 /\ UNCHANGED <<transaction, ballot, misread>>
<1>1. \A m, g : InitFresh(m, g) => UNCHANGED clock
  BY DEF InitFresh, InitMultisig
<1>2. \A m, o, message : CreateTransaction(m, o, message) => UNCHANGED clock
  BY DEF CreateTransaction
<1>3. \A m, id, o : Approve(m, id, o) \/ Reject(m, id, o) => UNCHANGED clock
  BY DEF Approve, Reject
<1>4. \A m, id, o : CancelActive(m, id, o) \/ CancelApproved(m, id, o) => UNCHANGED clock
  BY DEF CancelActive, CancelApproved
<1>5. \A m, id, o : BeginExecute(m, id, o) \/ CloseTransaction(m, id, o) => UNCHANGED clock
  BY DEF BeginExecute, CloseTransaction
<1>6. \A m, a, i : SetConfig(m, a, i) \/ SetConfigClose(m, a, i) => UNCHANGED clock
  BY DEF SetConfig, SetConfigClose
<1>7. ConfigStep \/ CloseStep \/ CpiStep \/ EndExecute \/ Abort => UNCHANGED clock
  BY DEF ConfigStep, CloseStep, CpiStep, EndExecute, Abort
<1>8. Tick => clock' = clock + 1 /\ UNCHANGED <<transaction, ballot, misread>>
  BY DEF Tick
<1>9. \A id, a, i : SetConfigOnTransaction(id, a, i) \/ SetConfigCloseOnTransaction(id, a, i)
                       => UNCHANGED clock
  BY DEF SetConfigOnTransaction, SetConfigCloseOnTransaction
<1>10. \A m : CloseOther(m) => UNCHANGED clock
  BY DEF CloseOther
<1> QED BY <1>1, <1>2, <1>3, <1>4, <1>5, <1>6, <1>7, <1>8, <1>9, <1>10 DEF Next, Step

\* What the votes do to the stamp.
LEMMA VoteStamps ==
    ASSUME LockInv, NEW m \in Keys, NEW id \in Genuine, NEW o \in Address,
           \/ Approve(m, id, o) \/ Reject(m, id, o)
           \/ CancelActive(m, id, o) \/ CancelApproved(m, id, o)
    PROVE  Stamped(transaction'[id], ballot'[id], clock)
<1> DEFINE t == transaction[id]
           b == ballot[id]
           c == multisig[m]
           p == Position(c.owners, o)
<1>0. /\ DOMAIN ballot = DOMAIN transaction /\ clock \in Nat
      /\ t \in Transaction /\ b \in Ballot /\ Stamped(t, b, clock)
      /\ id \in DOMAIN transaction
  BY DEF LockInv, BallotInv, RulesInv, TypeOK, Genuine
<1>1. CASE Approve(m, id, o)
  <2> DEFINE u == Approved(t, c, p)
  <2>1. /\ t.status = "Active"
        /\ transaction' = [transaction EXCEPT ![id] = u]
        /\ ballot' = [ballot EXCEPT ![id].approvers = @ \cup {o},
                                    ![id].latched = IF u.status = "Approved" THEN clock ELSE @]
    BY <1>1 DEF Approve, Prepared, CheckVotable
  <2>2. u.status = "Approved" => u.approved_at = clock
    <3> HIDE DEF t, c, p
    <3> QED BY <1>0, <2>1 DEF Approved, LatchApproved, Transaction
  <2>3. transaction'[id] = u
    BY <1>0, <2>1
  <2> HIDE DEF u
  <2>4. u.status = "Approved" => ballot'[id].latched = clock
    BY <1>0, <2>1 DEF Ballot
  <2> QED BY <1>0, <2>1, <2>2, <2>3, <2>4 DEF Stamped
<1>2. CASE Reject(m, id, o)
  <2> DEFINE u == Rejected(t, c, p)
  <2>1. /\ t.status = "Active"
        /\ transaction' = [transaction EXCEPT ![id] = u]
        /\ ballot' = [ballot EXCEPT ![id].rejecters = @ \cup {o}]
    BY <1>2 DEF Reject, Prepared, CheckVotable
  <2>2. u.status # "Approved"
    <3> HIDE DEF t, c, p
    <3> QED BY <1>0, <2>1 DEF Rejected, Transaction
  <2> HIDE DEF u
  <2> QED BY <1>0, <2>1, <2>2 DEF Stamped
<1>3. CASE CancelActive(m, id, o)
  <2>1. /\ transaction' = [transaction EXCEPT ![id] = [t EXCEPT !.status = "Cancelled"]]
        /\ ballot' = ballot
    BY <1>3 DEF CancelActive
  <2>2. [t EXCEPT !.status = "Cancelled"].status = "Cancelled"
    BY <1>0 DEF Transaction
  <2> QED BY <1>0, <2>1, <2>2 DEF Stamped
<1>4. CASE CancelApproved(m, id, o)
  <2> DEFINE u == CancelVoted(t, c, p)
  <2>1. /\ t.status = "Approved"
        /\ transaction' = [transaction EXCEPT ![id] = u]
        /\ ballot' = [ballot EXCEPT ![id].cancellers = @ \cup {o}]
    BY <1>4 DEF CancelApproved, Prepared, CheckVotable
  <2>2. u.approved_at = t.approved_at
    <3> HIDE DEF t, c, p
    <3> QED BY <1>0 DEF CancelVoted, Transaction
  <2>3. transaction'[id] = u
    BY <1>0, <2>1
  <2> HIDE DEF u
  <2>4. ballot'[id].latched = b.latched
    BY <1>0, <2>1 DEF Ballot
  <2> QED BY <1>0, <2>1, <2>2, <2>3, <2>4 DEF Stamped
<1> QED BY <1>1, <1>2, <1>3, <1>4

LEMMA StampedStep ==
    ASSUME LockInv, Next
    PROVE  \A x \in Genuine' : Stamped(transaction'[x], ballot'[x], clock')
<1> DEFINE Goal == \A x \in Genuine' : Stamped(transaction'[x], ballot'[x], clock)
<1>0. /\ TypeOK /\ Running /\ DOMAIN ballot = DOMAIN transaction /\ clock \in Nat
      /\ \A x \in Genuine : Stamped(transaction[x], ballot[x], clock)
      /\ \A x \in DOMAIN transaction : ballot[x].latched \in Nat
  BY DEF LockInv, BallotInv, RulesInv, TypeOK, Ballot
<1>1. CASE clock' = clock + 1 /\ UNCHANGED <<transaction, ballot, misread>>
  BY <1>0, <1>1 DEF Stamped, Genuine
<1>2. CASE UNCHANGED <<transaction, ballot, misread>> /\ clock' = clock
  BY <1>0, <1>2 DEF Genuine
<1>3. ASSUME NEW m \in Keys, NEW o \in Address, NEW message \in Messages,
             CreateTransaction(m, o, message)
      PROVE  Goal
  <2> DEFINE id == <<m, multisig[m].transaction_index + 1>>
  <2>1. /\ DOMAIN transaction' = DOMAIN transaction \cup {id}
        /\ \A x \in DOMAIN transaction :
              transaction'[x] = transaction[x] /\ ballot'[x] = ballot[x]
        /\ transaction'[id] = NewTransaction(m, multisig[m], o, message)
        /\ UNCHANGED misread
    BY <1>0, <1>3, CreateStep DEF CreateTransaction
  <2>2. transaction'[id].status = "Active"
    BY <2>1 DEF NewTransaction
  <2> HIDE DEF id
  <2> QED BY <1>0, <2>1, <2>2 DEF Stamped, Genuine
<1>4. ASSUME NEW m \in Keys, NEW id \in DOMAIN transaction, NEW o \in Address,
             \/ Approve(m, id, o) \/ Reject(m, id, o)
             \/ CancelActive(m, id, o) \/ CancelApproved(m, id, o)
      PROVE  Goal
  <2>1. /\ DOMAIN transaction' = DOMAIN transaction /\ UNCHANGED misread
        /\ \A x \in DOMAIN transaction : x # id =>
              transaction'[x] = transaction[x] /\ ballot'[x] = ballot[x]
    BY <1>0, <1>4, VoteOthers
  <2>2. id \in Genuine => Stamped(transaction'[id], ballot'[id], clock)
    BY <1>4, VoteStamps
  <2> QED BY <1>0, <2>1, <2>2 DEF Genuine
<1>5. ASSUME NEW m \in Keys, NEW id \in DOMAIN transaction, NEW o \in Address,
             CloseTransaction(m, id, o)
      PROVE  Goal
  <2>1. /\ DOMAIN transaction' \subseteq DOMAIN transaction /\ UNCHANGED misread
        /\ \A x \in DOMAIN transaction' :
              transaction'[x] = transaction[x] /\ ballot'[x] = ballot[x]
    BY <1>0, <1>5 DEF CloseTransaction, Without, Restrict
  <2> QED BY <1>0, <2>1 DEF Genuine
<1>6. ASSUME EndExecute PROVE Goal
  <2> DEFINE id == frame.transaction
  <2>1. /\ id \in DOMAIN transaction /\ UNCHANGED <<ballot, misread>>
        /\ transaction' = [transaction EXCEPT ![id].status = "Executed"]
    BY <1>0, <1>6 DEF EndExecute, Running
  <2>2. transaction[id] \in Transaction
    BY <1>0, <2>1 DEF TypeOK
  <2>3. transaction'[id].status = "Executed"
    BY <2>1, <2>2 DEF Transaction
  <2> HIDE DEF id
  <2> QED BY <1>0, <2>1, <2>3 DEF Stamped, Genuine
<1>8. ASSUME NEW id \in DOMAIN transaction, NEW a \in Address, NEW i \in AuthorityActions,
             SetConfigOnTransaction(id, a, i) \/ SetConfigCloseOnTransaction(id, a, i)
      PROVE  Goal
  <2>1. /\ DOMAIN transaction' \subseteq DOMAIN transaction /\ misread' = misread \cup {id}
        /\ \A x \in DOMAIN transaction' : x # id =>
              transaction'[x] = transaction[x] /\ ballot'[x] = ballot[x]
    BY <1>0, <1>8 DEF SetConfigOnTransaction, SetConfigCloseOnTransaction, Without, Restrict
  <2> QED BY <1>0, <2>1 DEF Genuine
<1>7. CASE clock' = clock
  BY <1>2, <1>3, <1>4, <1>5, <1>6, <1>7, <1>8, ProposalSteps, FreshReuses
<1> QED BY <1>0, <1>1, <1>7, ClockForward

\* The inductive invariant of the time locks.
LEMMA LocksSound == Spec => []LockInv
<1>1. Init => LockInv
  BY DEF Init, LockInv, Released, BallotInv, RulesInv, TypeOK, Ledger, VotableUnderItsRules,
         VoterCountExact, Running, Genuine
<1>2. BallotInv /\ BallotInv' /\ Released /\ [Next]_vars
         /\ (\A id \in Genuine : Stamped(transaction[id], ballot[id], clock))
         => LockInv'
  <2> SUFFICES ASSUME BallotInv, BallotInv', LockInv, [Next]_vars PROVE LockInv'
    BY DEF LockInv
  <2>1. CASE UNCHANGED vars
    BY <2>1 DEF vars, LockInv, Released, TimeLockReleased, Stamped, Genuine
  <2>2. CASE Next
    BY <2>2, ReleasedStep, StampedStep DEF LockInv
  <2> QED BY <2>1, <2>2
<1>3. LockInv => BallotInv /\ Released
         /\ (\A id \in Genuine : Stamped(transaction[id], ballot[id], clock))
  BY DEF LockInv
<1> QED BY <1>1, <1>2, <1>3, BallotsSound, PTL DEF Spec

\* No proposal runs before the time lock in force has passed since the vote
\* that latched it, unless it was written as a multisig.
THEOREM LocksRespected == Spec => TimeLockRespected
<1> DEFINE Waited ==
       \A id \in Genuine :
          RunsNow(id) =>
              clock - ballot[id].latched >= multisig[transaction[id].multisig].time_lock
<1>1. ASSUME LockInv, Next PROVE Waited
  <2> SUFFICES ASSUME NEW id \in Genuine, RunsNow(id)
               PROVE  clock - ballot[id].latched
                         >= multisig[transaction[id].multisig].time_lock
    OBVIOUS
  <2>0. LockInv /\ BallotInv /\ TypeOK /\ Running /\ Released /\ Ledger
    BY <1>1 DEF LockInv, BallotInv, RulesInv
  <2>1. EndExecute /\ frame.transaction = id
    <3>1. /\ id \in DOMAIN transaction /\ id \in DOMAIN transaction'
          /\ transaction[id].status = "Approved" /\ transaction'[id].status = "Executed"
      BY DEF RunsNow
    <3>2. ASSUME NEW m \in Keys, NEW x \in DOMAIN transaction, NEW o \in Address,
                 Approve(m, x, o) \/ Reject(m, x, o) \/ CancelApproved(m, x, o)
          PROVE  FALSE
      <4>1. /\ \A y \in DOMAIN transaction : y # x => transaction'[y] = transaction[y]
            /\ x = id => transaction'[x].status \in {"Approved", "Active", "Rejected", "Cancelled"}
        <5>1. Approve(m, id, o) => transaction'[id].status \in {"Approved", "Active"}
          BY <2>0, ApproveStep
        <5>2. Reject(m, id, o) => transaction'[id].status \in {"Rejected", "Active"}
          BY <2>0, RejectStep
        <5>3. CancelApproved(m, id, o) => transaction'[id].status \in {"Cancelled", "Approved"}
          BY <2>0, CancelStep
        <5>4. \A y \in DOMAIN transaction : y # x => transaction'[y] = transaction[y]
          BY <3>2 DEF Approve, Reject, CancelApproved
        <5> QED BY <3>2, <5>1, <5>2, <5>3, <5>4
      <4> QED BY <3>1, <4>1
    <3>3. ASSUME NEW m \in Keys, NEW x \in DOMAIN transaction, NEW o \in Address,
                 CancelActive(m, x, o)
          PROVE  FALSE
      <4>1. /\ transaction[x].status = "Active"
            /\ \A y \in DOMAIN transaction : y # x => transaction'[y] = transaction[y]
        BY <3>3 DEF CancelActive, Prepared, CheckVotable
      <4> QED BY <3>1, <4>1
    <3>4. ASSUME NEW m \in Keys, NEW x \in DOMAIN transaction, NEW o \in Address,
                 CloseTransaction(m, x, o)
          PROVE  FALSE
      BY <3>1, <3>4 DEF CloseTransaction, Without, Restrict
    <3>5. ASSUME NEW m \in Keys, NEW o \in Address, NEW message \in Messages,
                 CreateTransaction(m, o, message)
          PROVE  FALSE
      <4>1. \A x \in DOMAIN transaction : transaction'[x] = transaction[x]
        BY <2>0, <3>5, CreateStep
      <4> QED BY <3>1, <4>1
    <3>8. ASSUME NEW x \in DOMAIN transaction, NEW a \in Address, NEW i \in AuthorityActions,
                 SetConfigOnTransaction(x, a, i)
          PROVE  FALSE
      <4>1. PICK u \in Rewritten(transaction[x], i) :
               transaction' = [transaction EXCEPT ![x] = u]
        BY <3>8 DEF SetConfigOnTransaction
      <4>2. u.status = transaction[x].status
        BY <2>0, RewrittenType DEF TypeOK
      <4> QED BY <3>1, <4>1, <4>2
    <3>9. ASSUME NEW x \in DOMAIN transaction, NEW a \in Address, NEW i \in AuthorityActions,
                 SetConfigCloseOnTransaction(x, a, i)
          PROVE  FALSE
      BY <3>1, <3>9 DEF SetConfigCloseOnTransaction, Without, Restrict
    <3>6. EndExecute
      BY <1>1, <3>1, <3>2, <3>3, <3>4, <3>5, <3>8, <3>9, ProposalSteps, FreshReuses
    <3>7. frame.transaction = id
      BY <3>1, <3>6 DEF EndExecute
    <3> QED BY <3>6, <3>7
  <2> DEFINE m == transaction[id].multisig
  <2>2. /\ frame # NoFrame /\ frame.multisig = m /\ m \in DOMAIN multisig
        /\ transaction[id].status = "Approved"
    BY <2>0, <2>1 DEF EndExecute, Running, Ledger
  <2>3. TimeLockReleased(multisig[m], transaction[id])
    BY <2>0, <2>1, <2>2 DEF Released
  <2>4. transaction[id].approved_at = ballot[id].latched /\ ballot[id].latched <= clock
    BY <2>0, <2>2 DEF LockInv, Stamped
  <2>5. clock \in Nat /\ ballot[id].latched \in Nat /\ multisig[m].time_lock \in Nat
    BY <2>0, <2>2 DEF TypeOK, Ballot, Config, Genuine
  <2> QED BY <2>3, <2>4, <2>5 DEF TimeLockReleased
<1>2. LockInv /\ [Next]_vars => [Waited]_vars
  BY <1>1
<1> QED BY <1>2, LocksSound, PTL DEF Spec, TimeLockRespected
=============================================================================
