------------------------- MODULE TransactionsProofs -------------------------
(***************************************************************************)
(* Theorems about Transactions for any number of batches and writes.       *)
(***************************************************************************)
EXTENDS Transactions, TLAPS

Session == [txns: Nat, rollback: BOOLEAN, auto: BOOLEAN,
            pending: SUBSET Writes, durable: SUBSET Writes]

\* What holds of a session at all times: a write is pending or durable, never both, and
\* nothing is pending in autocommit mode.
Sound(d) ==
  /\ d \in Session
  /\ d.pending \cap d.durable = {}
  /\ d.auto => d.pending = {}

\* A step of the destructors leaves a sound session; it takes no effect back.
Settled(d, e) ==
  /\ Sound(e)
  /\ e.txns = d.txns
  /\ e.pending \subseteq d.pending
  /\ d.durable \subseteq e.durable
  /\ e.durable \subseteq d.durable \cup d.pending

\* The destructor's rollback.
LEMMA UndoSettles ==
  ASSUME NEW d, Sound(d), NEW e \in Undo(d)
  PROVE  /\ Settled(d, e) /\ ~e.rollback /\ e.durable = d.durable
         /\ d.rollback /\ "rollback" \notin Faults => e.pending = {}
         /\ ~d.rollback => e = d
<1>1. CASE ~d.rollback
  BY <1>1 DEF Sound, Session, Settled, Undo
<1>2. CASE d.rollback
  <2>1. \/ e = [EndRollback(d) EXCEPT !.rollback = FALSE]
        \/ e = [d EXCEPT !.rollback = FALSE] /\ "rollback" \in Faults
    BY <1>2 DEF Undo
  <2> QED
    BY <1>2, <2>1 DEF Sound, Session, Settled, EndRollback
<1> QED
  BY <1>1, <1>2

\* Autocommit back on.
LEMMA RestoreSettles ==
  ASSUME NEW d, Sound(d), NEW e \in Restore(d)
  PROVE  /\ Settled(d, e) /\ e.rollback = d.rollback
         /\ e = AutocommitOn(d) \/ (e = d /\ "restore" \in Faults)
         /\ e = AutocommitOn(d) => e.auto /\ e.pending = {} /\ e.durable = d.durable \cup d.pending
BY DEF Sound, Session, Settled, Restore, AutocommitOn, EndCommit

\* The destructor once the count is zero.
LEMMA FinishLast ==
  ASSUME NEW d, Sound(d), d.txns = 0, NEW e \in Finish(d)
  PROVE  /\ Settled(d, e)
         /\ ~e.rollback
         /\ "restore" \notin Faults => e.auto /\ e.pending = {}
         /\ d.rollback /\ "rollback" \notin Faults => e.durable = d.durable /\ e.pending = {}
         /\ ~d.rollback /\ "restore" \notin Faults => e.durable = d.durable \cup d.pending
<1>1. PICK u \in Undo(d) : e \in Restore(u)
  BY DEF Finish
<1>2. /\ Settled(d, u) /\ ~u.rollback /\ u.durable = d.durable
      /\ d.rollback /\ "rollback" \notin Faults => u.pending = {}
      /\ ~d.rollback => u = d
  BY <1>1, UndoSettles
<1>3. /\ Settled(u, e) /\ e.rollback = u.rollback
      /\ e = AutocommitOn(u) \/ (e = u /\ "restore" \in Faults)
      /\ e = AutocommitOn(u) => e.auto /\ e.pending = {} /\ e.durable = u.durable \cup u.pending
  BY <1>1, <1>2, RestoreSettles DEF Settled
<1>4. Settled(d, e)
  BY <1>2, <1>3 DEF Settled
<1> QED
  BY <1>2, <1>3, <1>4 DEF Settled

\* The destructor of a nested transaction only drops its reference.
LEMMA FinishNested == ASSUME NEW d, d.txns # 0 PROVE Finish(d) = {d}
BY DEF Finish

-----------------------------------------------------------------------------
(***************************************************************************)
(* The invariant: the count is exact, a session with a transaction is not  *)
(* in autocommit mode, and the writes of an open transaction are pending.  *)
(***************************************************************************)
Shape ==
  /\ t \in {"none", "open", "committed"}
  /\ ins \in {"none", "plain", "open"}
  /\ left \in 0..Batches
  /\ next \in 1..(MaxWrites + 1)

Past == 1..(next - 1)

Histories ==
  /\ mine \subseteq Past /\ insw \subseteq Past
  /\ rolledBack \subseteq Past
  /\ c.pending \subseteq Past /\ c.durable \subseteq Past
  /\ t = "none" => mine = {}
  /\ ins = "none" => insw = {}

One(b) == IF b THEN 1 ELSE 0

Counted ==
  /\ c.txns = One(t = "open") + One(ins = "open")
  /\ c.txns > 0 => ~c.auto
  /\ t = "open" => mine \subseteq c.pending
  /\ ins = "open" => insw \subseteq c.pending

TxInv == Sound(c) /\ Shape /\ Histories /\ Counted

\* The initial states satisfy the invariant.
LEMMA TxInit == Init => TxInv
BY BatchesAssumption, MaxWritesAssumption
DEF Init, TxInv, Sound, Session, Writes, Shape, Past, Histories, Counted, One

\* One write keeps the session sound and is recorded where the mode says.
LEMMA WriteSound ==
  ASSUME NEW d, Sound(d), NEW n \in Writes, n \notin d.pending, n \notin d.durable
  PROVE  LET e == DoWrite(d, n)
         IN  /\ Sound(e) /\ e.txns = d.txns /\ e.auto = d.auto /\ e.rollback = d.rollback
             /\ d.auto  => e.durable = d.durable \cup {n} /\ e.pending = d.pending
             /\ ~d.auto => e.pending = d.pending \cup {n} /\ e.durable = d.durable
BY DEF DoWrite, Sound, Session

\* unref_transaction() of a positive count only decrements it.
LEMMA UnrefSound ==
  ASSUME NEW d, Sound(d), d.txns > 0
  PROVE  /\ Sound(Unref(d)) /\ Unref(d).txns = d.txns - 1
         /\ Unref(d).auto = d.auto /\ Unref(d).rollback = d.rollback
         /\ Unref(d).pending = d.pending /\ Unref(d).durable = d.durable
BY DEF Unref, Sound, Session

\* SQLEndTran(SQL_COMMIT) makes what is pending durable and changes nothing else.
LEMMA EndCommitSound ==
  ASSUME NEW d, Sound(d)
  PROVE  /\ Sound(EndCommit(d)) /\ EndCommit(d).txns = d.txns
         /\ EndCommit(d).auto = d.auto /\ EndCommit(d).rollback = d.rollback
         /\ EndCommit(d).pending = {} /\ EndCommit(d).durable = d.durable \cup d.pending
BY DEF EndCommit, Sound, Session

\* A new transaction object leaves the writes alone and the session out of autocommit mode
\* (it already is when the object is nested).
LEMMA ConstructSound ==
  ASSUME NEW d, Sound(d), d.txns > 0 => ~d.auto
  PROVE  LET e == Construct(d)
         IN  /\ Sound(e) /\ e.txns = d.txns + 1 /\ ~e.auto /\ e.rollback = d.rollback
             /\ e.pending = d.pending /\ e.durable = d.durable
<1> DEFINE v == IF d.txns = 0 THEN AutocommitOff(d) ELSE d
<1>1. /\ Sound(v) /\ v.txns = d.txns /\ ~v.auto /\ v.rollback = d.rollback
      /\ v.pending = d.pending /\ v.durable = d.durable
  <2>1. CASE d.txns = 0
    <3>1. v = [d EXCEPT !.auto = FALSE]
      BY <2>1 DEF AutocommitOff
    <3> QED
      BY <3>1 DEF Sound, Session
  <2>2. CASE d.txns # 0
    BY <2>2 DEF Sound, Session
  <2> QED
    BY <2>1, <2>2
<1>2. Construct(d) = [v EXCEPT !.txns = v.txns + 1]
  BY DEF Construct
<1> HIDE DEF v
<1> QED
  BY <1>1, <1>2 DEF Sound, Session

\* Destroying an uncommitted transaction: the outermost one finishes a marked session, a
\* nested one leaves the mark and its writes behind.
LEMMA DestroyOpenSound ==
  ASSUME NEW d, Sound(d), d.txns > 0, ~d.auto, NEW e \in DestroyOpen(d)
  PROVE  /\ Settled(Unref(d), e) /\ e.txns = d.txns - 1
         /\ d.txns > 1 => ~e.auto /\ e.pending = d.pending /\ e.durable = d.durable
         /\ d.txns = 1 =>
              /\ ~e.rollback
              /\ "restore" \notin Faults => e.auto /\ e.pending = {}
              /\ "rollback" \notin Faults => e.durable = d.durable /\ e.pending = {}
<1> DEFINE v == [d EXCEPT !.rollback = TRUE]
           u == Unref(v)
<1>v. /\ Sound(v) /\ v.txns = d.txns /\ v.rollback = TRUE /\ v.auto = d.auto
      /\ v.pending = d.pending /\ v.durable = d.durable
  BY DEF Sound, Session
<1>2. e \in Finish(u)
  BY DEF DestroyOpen
<1> HIDE DEF v
<1>1. /\ Sound(u) /\ u.txns = d.txns - 1 /\ u.rollback = TRUE /\ u.auto = d.auto
      /\ u.pending = d.pending /\ u.durable = d.durable
  BY <1>v, UnrefSound
<1>3. /\ Unref(d).txns = d.txns - 1 /\ Unref(d).pending = d.pending
      /\ Unref(d).durable = d.durable
  BY UnrefSound
<1>n. d.txns \in Nat
  BY DEF Sound, Session
<1> HIDE DEF u
<1>4. CASE d.txns = 1
  <2>1. u.txns = 0
    BY <1>1, <1>4
  <2> QED
    BY <1>1, <1>2, <1>3, <1>4, <2>1, FinishLast DEF Settled
<1>5. CASE d.txns > 1
  <2>1. u.txns # 0
    BY <1>1, <1>5, <1>n
  <2>2. e = u
    BY <1>2, <2>1, FinishNested
  <2> QED
    BY <1>1, <1>3, <1>5, <2>2 DEF Settled
<1> QED
  BY <1>4, <1>5, <1>n

\* Committing and destroying a transaction: the outermost one makes everything that is
\* pending durable, a nested one leaves it pending.
LEMMA CommitSound ==
  ASSUME NEW d, Sound(d), d.txns > 0, ~d.auto, NEW e \in DestroyCommitted(DoCommit(d))
  PROVE  /\ Sound(e) /\ e.txns = d.txns - 1
         /\ e.pending \subseteq d.pending /\ e.durable \subseteq d.durable \cup d.pending
         /\ d.txns > 1 => /\ ~e.auto /\ e.pending = d.pending /\ e.durable = d.durable
                          /\ e.rollback = d.rollback
         /\ d.txns = 1 =>
              /\ ~e.rollback
              /\ e.pending = {} /\ e.durable = d.durable \cup d.pending
              /\ "restore" \notin Faults => e.auto
<1>1. /\ Unref(d).txns = d.txns - 1 /\ Unref(d).pending = d.pending
      /\ Unref(d).durable = d.durable /\ Unref(d).rollback = d.rollback
      /\ ~Unref(d).auto /\ Sound(Unref(d))
  BY DEF Unref, Sound, Session
<1>2. e \in Finish(DoCommit(d))
  BY DEF DestroyCommitted
<1>3. CASE d.txns = 1
  <2> DEFINE u == DoCommit(d)
  <2>1. u = EndCommit(Unref(d))
    BY <1>1, <1>3 DEF DoCommit, CommitEnds
  <2>2. Sound(u) /\ u.txns = 0 /\ u.pending = {} /\ u.durable = d.durable \cup d.pending
    BY <1>1, <1>3, <2>1, EndCommitSound
  <2>3. /\ Settled(u, e) /\ ~e.rollback
        /\ "restore" \notin Faults => e.auto
    BY <1>2, <2>2, FinishLast
  <2> QED
    BY <1>3, <2>2, <2>3 DEF Settled
<1>4. CASE d.txns > 1
  <2>1. DoCommit(d) = Unref(d)
    BY <1>1, <1>4 DEF DoCommit, CommitEnds, Sound, Session
  <2>2. Finish(DoCommit(d)) = {Unref(d)}
    BY <1>1, <1>4, <2>1, FinishNested DEF Sound, Session
  <2>3. e = Unref(d)
    BY <1>2, <2>2
  <2> QED
    BY <1>1, <1>4, <2>3
<1> QED
  BY <1>3, <1>4 DEF Sound, Session

\* A commit that fails: the driver has kept or lost the pending writes.
LEMMA FailedSound ==
  ASSUME NEW d, Sound(d), d.txns > 0, ~d.auto, NEW e \in FailedCommit(d)
  PROVE  /\ Sound(e) /\ d.txns = 1 /\ e.txns = 0 /\ ~e.auto
         /\ e.pending \subseteq d.pending /\ e.durable = d.durable
         /\ "commit" \in Faults
<1>1. /\ e \in {Unref(d), EndRollback(Unref(d))} /\ "commit" \in Faults
      /\ Unref(d).txns = 0
  BY DEF FailedCommit, CommitEnds
<1>2. /\ Unref(d).txns = d.txns - 1 /\ Unref(d).pending = d.pending
      /\ Unref(d).durable = d.durable /\ ~Unref(d).auto /\ Sound(Unref(d))
  BY DEF Unref, Sound, Session
<1> QED
  BY <1>1, <1>2 DEF EndRollback, Sound, Session

\* Every step preserves the invariant.
LEMMA TxStep == TxInv /\ [Next]_vars => TxInv'
<1> SUFFICES ASSUME TxInv, [Next]_vars PROVE TxInv'
  OBVIOUS
<1> USE BatchesAssumption, MaxWritesAssumption
<1>s. Sound(c)
  BY DEF TxInv
<1>n. c.txns \in Nat
  BY <1>s DEF Sound, Session
<1>w. ASSUME next <= MaxWrites
      PROVE  /\ next \in Writes /\ next \notin c.pending /\ next \notin c.durable
             /\ next \notin Past /\ Past' \in SUBSET Int
             /\ next' = next + 1 => Past' = Past \cup {next}
  BY <1>w DEF TxInv, Shape, Histories, Past, Writes
<1> USE DEF TxInv, Shape, Histories, Counted, One
<1>1. CASE Execute
  <2>1. /\ Sound(c') /\ c'.txns = c.txns /\ c'.auto = c.auto
        /\ c.auto  => c'.durable = c.durable \cup {next} /\ c'.pending = c.pending
        /\ ~c.auto => c'.pending = c.pending \cup {next} /\ c'.durable = c.durable
    BY <1>1, <1>s, <1>w, WriteSound DEF Execute
  <2> QED
    BY <1>1, <1>w, <2>1 DEF Execute, Mine
<1>2. CASE Begin
  <2>1. CASE UNCHANGED <<c, t>>
    BY <1>2, <2>1 DEF Begin, Past
  <2>2. CASE c' = Construct(c) /\ t' = "open"
    <3>1. /\ Sound(c') /\ c'.txns = c.txns + 1 /\ ~c'.auto
          /\ c'.pending = c.pending /\ c'.durable = c.durable
      BY <2>2, <1>s, ConstructSound
    <3> QED
      BY <1>2, <2>2, <3>1 DEF Begin, Past, Idle
  <2> QED
    BY <1>2, <2>1, <2>2 DEF Begin
<1>3. CASE Commit
  <2>1. CASE t = "open" /\ c' \in DestroyCommitted(DoCommit(c)) /\ t' = "none" /\ mine' = {}
    <3>1. c.txns = 1 /\ ~c.auto
      BY <1>3, <2>1 DEF Commit, Idle
    <3>2. /\ Sound(c') /\ c'.txns = 0
          /\ c'.pending \subseteq c.pending /\ c'.durable \subseteq c.durable \cup c.pending
      BY <2>1, <1>s, <3>1, CommitSound
    <3> QED
      BY <1>3, <2>1, <3>2 DEF Commit, Idle, Past
  <2>2. CASE t = "open" /\ c' \in FailedCommit(c) /\ t' = "committed" /\ mine' = mine
    <3>1. c.txns = 1 /\ ~c.auto
      BY <1>3, <2>2 DEF Commit, Idle
    <3>2. /\ Sound(c') /\ c'.txns = 0
          /\ c'.pending \subseteq c.pending /\ c'.durable = c.durable
      BY <2>2, <1>s, <3>1, FailedSound
    <3> QED
      BY <1>3, <2>2, <3>2 DEF Commit, Idle, Past
  <2>3. CASE t = "committed" /\ c' \in DestroyCommitted(c) /\ t' = "none" /\ mine' = {}
    <3>1. c.txns = 0
      BY <1>3, <2>3 DEF Commit, Idle
    <3>2. Settled(c, c')
      BY <2>3, <1>s, <3>1, FinishLast DEF DestroyCommitted
    <3> QED
      BY <1>3, <2>3, <3>1, <3>2 DEF Commit, Idle, Past, Settled
  <2> QED
    BY <1>3, <2>1, <2>2, <2>3 DEF Commit
<1>4. CASE Rollback
  <2>1. /\ Sound(c') /\ c'.txns = 0
        /\ c'.pending \subseteq c.pending /\ c'.durable \subseteq c.durable \cup c.pending
    <3>1. CASE t = "open" /\ c' \in DestroyOpen(c)
      <4>1. c.txns = 1 /\ ~c.auto
        BY <1>4, <3>1 DEF Rollback, Idle
      <4> QED
        BY <3>1, <4>1, <1>s, DestroyOpenSound, UnrefSound DEF Settled
    <3>2. CASE t = "committed" /\ c' \in DestroyCommitted(c)
      <4>1. c.txns = 0
        BY <1>4, <3>2 DEF Rollback, Idle
      <4> QED
        BY <3>2, <4>1, <1>s, FinishLast DEF DestroyCommitted, Settled
    <3> QED
      BY <1>4, <3>1, <3>2 DEF Rollback
  <2> QED
    BY <1>4, <2>1 DEF Rollback, Idle, Past
<1>5. CASE InsertBegin
  <2>1. left' \in 0..Batches /\ UNCHANGED <<t, next, mine, insw, rolledBack>> /\ ins = "none"
    BY <1>5 DEF InsertBegin, Idle
  <2>2. CASE ins' \in {"none", "plain"} /\ UNCHANGED c
    BY <2>1, <2>2 DEF Past
  <2>3. CASE ins' = "open" /\ c' = Construct(c)
    <3>1. /\ Sound(c') /\ c'.txns = c.txns + 1 /\ ~c'.auto
          /\ c'.pending = c.pending /\ c'.durable = c.durable
      BY <2>3, <1>s, ConstructSound
    <3> QED
      BY <2>1, <2>3, <3>1 DEF Past
  <2> QED
    BY <1>5, <2>1, <2>2, <2>3 DEF InsertBegin
<1>6. CASE InsertBatch
  <2>1. /\ Sound(c') /\ c'.txns = c.txns /\ c'.auto = c.auto
        /\ c.auto  => c'.durable = c.durable \cup {next} /\ c'.pending = c.pending
        /\ ~c.auto => c'.pending = c.pending \cup {next} /\ c'.durable = c.durable
    BY <1>6, <1>s, <1>w, WriteSound DEF InsertBatch
  <2> QED
    BY <1>6, <1>w, <2>1 DEF InsertBatch, Mine, Idle
<1>7. CASE InsertFail
  <2>0. /\ ins' = "none" /\ left' = 0 /\ insw' = {} /\ UNCHANGED <<t, next, mine>>
        /\ rolledBack' \subseteq rolledBack \cup insw
    BY <1>7 DEF InsertFail
  <2>1. CASE ins = "open" /\ c' \in DestroyOpen(c)
    <3>1. c.txns = One(t = "open") + 1 /\ ~c.auto
      BY <2>1
    <3>2. /\ Settled(Unref(c), c') /\ c'.txns = c.txns - 1
          /\ c.txns > 1 => ~c'.auto /\ c'.pending = c.pending /\ c'.durable = c.durable
      BY <2>1, <3>1, <1>s, <1>n, DestroyOpenSound
    <3>3. Unref(c).pending = c.pending /\ Unref(c).durable = c.durable
      BY <3>1, <1>s, UnrefSound
    <3> QED
      BY <2>0, <2>1, <3>1, <3>2, <3>3 DEF Past, Settled
  <2>2. CASE ins = "plain" /\ UNCHANGED c
    BY <2>0, <2>2 DEF Past
  <2> QED
    BY <1>7, <2>1, <2>2 DEF InsertFail
<1>8. CASE InsertEnd
  <2>0. /\ ins' = "none" /\ insw' = {} /\ UNCHANGED <<t, left, next, mine>>
        /\ rolledBack' \subseteq rolledBack \cup insw
    BY <1>8 DEF InsertEnd
  <2>1. CASE ins = "open" /\ c' \in DestroyCommitted(DoCommit(c))
    <3>1. c.txns = One(t = "open") + 1 /\ ~c.auto
      BY <2>1
    <3>2. /\ Sound(c') /\ c'.txns = c.txns - 1
          /\ c'.pending \subseteq c.pending /\ c'.durable \subseteq c.durable \cup c.pending
          /\ c.txns > 1 => ~c'.auto /\ c'.pending = c.pending
      BY <2>1, <3>1, <1>s, <1>n, CommitSound
    <3> QED
      BY <2>0, <2>1, <3>1, <3>2 DEF Past
  <2>2. CASE ins = "plain" /\ UNCHANGED c
    BY <2>0, <2>2 DEF Past
  <2>3. ASSUME ins = "open", NEW d \in FailedCommit(c), c' \in DestroyCommitted(d)
        PROVE  TxInv'
    <3>1. c.txns > 0 /\ ~c.auto
      BY <2>3
    <3>2. /\ Sound(d) /\ c.txns = 1 /\ d.txns = 0
          /\ d.pending \subseteq c.pending /\ d.durable = c.durable
      BY <2>3, <3>1, <1>s, FailedSound
    <3>3. Settled(d, c')
      BY <2>3, <3>2, FinishLast DEF DestroyCommitted
    <3> QED
      BY <2>0, <2>3, <3>2, <3>3 DEF Past, Settled
  <2> QED
    BY <1>8, <2>1, <2>2, <2>3 DEF InsertEnd
<1>9. CASE UNCHANGED vars
  BY <1>9 DEF vars, Past
<1> QED
  BY <1>1, <1>2, <1>3, <1>4, <1>5, <1>6, <1>7, <1>8, <1>9 DEF Next

\* The invariant holds in every reachable state.
LEMMA TxAlways == Spec => []TxInv
BY TxInit, TxStep, PTL DEF Spec

\* The state always has its type.
THEOREM TypeCorrect == Spec => []TypeOK
<1>1. TxInv => TypeOK
  BY MaxWritesAssumption
  DEF TxInv, Sound, Session, Shape, Histories, Past, Writes, TypeOK
<1> QED
  BY TxAlways, <1>1, PTL

\* No write made since dbBegin is durable before dbCommit.
THEOREM NoEarlyEffect == Spec => []NothingTakesEffectEarly
<1>1. TxInv => NothingTakesEffectEarly
  BY DEF TxInv, Sound, Counted, NothingTakesEffectEarly
<1> QED
  BY TxAlways, <1>1, PTL

\* The reference count is exact, whatever fails.
THEOREM RefCount == Spec => []RefCountExact
<1>1. TxInv => RefCountExact
  BY DEF TxInv, Counted, One, RefCountExact
<1> QED
  BY TxAlways, <1>1, PTL

-----------------------------------------------------------------------------
\* If the driver never refuses SQL_AUTOCOMMIT_ON, the session is back in autocommit mode,
\* with nothing pending and no mark, whenever no transaction object is alive.
THEOREM Restored == "restore" \notin Faults => (Spec => []AutocommitRestored)
<1> SUFFICES ASSUME "restore" \notin Faults PROVE Spec => []AutocommitRestored
  OBVIOUS
<1>1. Init => AutocommitRestored
  BY DEF Init, AutocommitRestored
<1>2. ASSUME TxInv, AutocommitRestored, [Next]_vars PROVE AutocommitRestored'
  <2>s. Sound(c) /\ c.txns = One(t = "open") + One(ins = "open") /\ (c.txns > 0 => ~c.auto)
    BY <1>2 DEF TxInv, Counted
  <2>n. c.txns \in Nat
    BY <2>s DEF Sound, Session
  <2>w. ASSUME next <= MaxWrites
        PROVE  next \in Writes /\ next \notin c.pending /\ next \notin c.durable
    BY <1>2, <2>w DEF TxInv, Shape, Histories, Past, Writes
  <2>f. ASSUME NEW d, Sound(d), d.txns = 0, c' \in Finish(d) PROVE AutocommitRestored'
    BY <2>f, FinishLast DEF AutocommitRestored
  <2> USE DEF AutocommitRestored, One
  <2>1. ASSUME c' = DoWrite(c, next), next <= MaxWrites, UNCHANGED <<t, ins>>
        PROVE  AutocommitRestored'
    <3>1. /\ c'.auto = c.auto /\ c'.rollback = c.rollback
          /\ c.auto => c'.pending = c.pending
      BY <2>1, <2>s, <2>w, WriteSound
    <3> QED
      BY <1>2, <2>1, <3>1
  <2>2. CASE Begin
    BY <1>2, <2>2 DEF Begin
  <2>3. CASE Commit
    <3>1. CASE t = "open" /\ c' \in DestroyCommitted(DoCommit(c))
      <4>1. c.txns = 1 /\ ~c.auto
        BY <2>3, <3>1, <2>s DEF Commit, Idle
      <4> QED
        BY <3>1, <4>1, <2>s, CommitSound
    <3>2. CASE t = "committed" /\ c' \in DestroyCommitted(c)
      <4>1. c.txns = 0
        BY <2>3, <3>2, <2>s DEF Commit, Idle
      <4> QED
        BY <3>2, <4>1, <2>s, <2>f DEF DestroyCommitted
    <3>3. CASE t' = "committed"
      BY <3>3
    <3> QED
      BY <2>3, <3>1, <3>2, <3>3 DEF Commit
  <2>4. CASE Rollback
    <3>1. CASE t = "open" /\ c' \in DestroyOpen(c)
      <4>1. c.txns = 1 /\ ~c.auto
        BY <2>4, <3>1, <2>s DEF Rollback, Idle
      <4> QED
        BY <3>1, <4>1, <2>s, DestroyOpenSound
    <3>2. CASE t = "committed" /\ c' \in DestroyCommitted(c)
      <4>1. c.txns = 0
        BY <2>4, <3>2, <2>s DEF Rollback, Idle
      <4> QED
        BY <3>2, <4>1, <2>s, <2>f DEF DestroyCommitted
    <3> QED
      BY <2>4, <3>1, <3>2 DEF Rollback
  <2>5. CASE InsertBegin
    BY <1>2, <2>5 DEF InsertBegin, Idle
  <2>6. CASE InsertFail
    <3>1. CASE t = "none" /\ ins = "open" /\ c' \in DestroyOpen(c)
      <4>1. c.txns = 1 /\ ~c.auto
        BY <3>1, <2>s
      <4> QED
        BY <3>1, <4>1, <2>s, DestroyOpenSound
    <3>2. CASE t # "none" \/ (ins = "plain" /\ UNCHANGED c)
      BY <1>2, <2>6, <3>2 DEF InsertFail
    <3> QED
      BY <2>6, <3>1, <3>2 DEF InsertFail
  <2>7. CASE InsertEnd
    <3>1. CASE t = "none" /\ ins = "open" /\ c' \in DestroyCommitted(DoCommit(c))
      <4>1. c.txns = 1 /\ ~c.auto
        BY <3>1, <2>s
      <4> QED
        BY <3>1, <4>1, <2>s, CommitSound
    <3>2. CASE t # "none" \/ (ins = "plain" /\ UNCHANGED c)
      BY <1>2, <2>7, <3>2 DEF InsertEnd
    <3>3. ASSUME ins = "open", NEW d \in FailedCommit(c), c' \in DestroyCommitted(d)
          PROVE  AutocommitRestored'
      <4>1. c.txns > 0 /\ ~c.auto
        BY <3>3, <2>s, <1>2 DEF TxInv, Shape
      <4>2. Sound(d) /\ d.txns = 0
        BY <3>3, <4>1, <2>s, FailedSound
      <4> QED
        BY <3>3, <4>2, <2>f DEF DestroyCommitted
    <3> QED
      BY <2>7, <3>1, <3>2, <3>3 DEF InsertEnd
  <2>8. CASE UNCHANGED vars
    BY <1>2, <2>8 DEF vars
  <2> QED
    BY <1>2, <2>1, <2>2, <2>3, <2>4, <2>5, <2>6, <2>7, <2>8
    DEF Next, Execute, InsertBatch
<1> QED
  BY <1>1, <1>2, TxAlways, PTL DEF Spec

-----------------------------------------------------------------------------
(***************************************************************************)
(* If the driver never fails to commit or to roll back, t_ never stays     *)
(* behind with its committed_ flag set, and what was rolled back is        *)
(* neither pending nor durable.                                            *)
(***************************************************************************)
Undone ==
  /\ t # "committed"
  /\ rolledBack \cap c.pending = {}
  /\ rolledBack \cap c.durable = {}

EndsObeyed == "commit" \notin Faults /\ "rollback" \notin Faults

\* What was rolled back, by dbRollback, dbDisconnect or a failed dbAppendTable, never
\* takes effect when the driver obeys SQLEndTran.
THEOREM RollbackWorks == EndsObeyed => (Spec => []RolledBackStaysUndone)
<1> SUFFICES ASSUME EndsObeyed PROVE Spec => []RolledBackStaysUndone
  OBVIOUS
<1>1. Init => Undone
  BY DEF Init, Undone
<1>2. ASSUME TxInv, Undone, [Next]_vars PROVE Undone'
  <2>s. Sound(c) /\ c.txns = One(t = "open") + One(ins = "open") /\ (c.txns > 0 => ~c.auto)
    BY <1>2 DEF TxInv, Counted
  <2>w. ASSUME next <= MaxWrites
        PROVE  /\ next \in Writes /\ next \notin c.pending /\ next \notin c.durable
               /\ next \notin rolledBack
    BY <1>2, <2>w DEF TxInv, Shape, Histories, Past, Writes
  <2>e. FailedCommit(c) = {}
    BY DEF FailedCommit, EndsObeyed
  <2> USE DEF Undone, One
  <2>1. ASSUME c' = DoWrite(c, next), next <= MaxWrites, UNCHANGED <<t, rolledBack>>
        PROVE  Undone'
    <3>1. c'.pending \subseteq c.pending \cup {next} /\ c'.durable \subseteq c.durable \cup {next}
      BY <2>1, <2>s, <2>w, WriteSound DEF Sound, Session
    <3> QED
      BY <1>2, <2>1, <2>w, <3>1
  <2>2. CASE Begin
    BY <1>2, <2>2, <2>s, ConstructSound DEF Begin
  <2>3. CASE Commit
    <3>1. t = "open" /\ c' \in DestroyCommitted(DoCommit(c)) /\ t' = "none"
      BY <1>2, <2>3, <2>e DEF Commit
    <3>2. c.txns = 1 /\ ~c.auto
      BY <2>3, <3>1, <2>s DEF Commit, Idle
    <3>3. c'.pending \subseteq c.pending /\ c'.durable \subseteq c.durable \cup c.pending
      BY <3>1, <3>2, <2>s, CommitSound
    <3> QED
      BY <1>2, <2>3, <3>1, <3>3 DEF Commit
  <2>4. CASE Rollback
    <3>1. t = "open" /\ c' \in DestroyOpen(c)
      BY <1>2, <2>4 DEF Rollback
    <3>2. c.txns = 1 /\ ~c.auto
      BY <2>4, <3>1, <2>s DEF Rollback, Idle
    <3>3. c'.durable = c.durable /\ c'.pending = {}
      BY <3>1, <3>2, <2>s, DestroyOpenSound DEF EndsObeyed
    <3>4. mine \cap c.durable = {}
      BY <1>2, <3>1 DEF TxInv, Sound, Counted
    <3> QED
      BY <1>2, <2>4, <3>3, <3>4 DEF Rollback
  <2>5. CASE InsertBegin
    BY <1>2, <2>5, <2>s, ConstructSound DEF InsertBegin
  <2>6. CASE InsertFail
    <3>1. CASE ins = "open" /\ c' \in DestroyOpen(c)
      <4>1. c.txns = One(t = "open") + 1 /\ ~c.auto /\ insw \cap c.durable = {}
        BY <1>2, <3>1, <2>s DEF TxInv, Sound, Counted
      <4>2. CASE t = "open"
        <5>1. c'.durable = c.durable /\ c'.pending = c.pending
          BY <3>1, <4>1, <4>2, <2>s, DestroyOpenSound
        <5> QED
          BY <1>2, <2>6, <4>2, <5>1 DEF InsertFail
      <4>3. CASE t # "open"
        <5>1. c'.durable = c.durable /\ c'.pending = {}
          BY <3>1, <4>1, <4>3, <2>s, DestroyOpenSound DEF EndsObeyed
        <5> QED
          BY <1>2, <2>6, <4>1, <4>3, <5>1 DEF InsertFail
      <4> QED
        BY <4>2, <4>3
    <3>2. CASE ins = "plain" /\ UNCHANGED c
      BY <1>2, <2>6, <3>2 DEF InsertFail
    <3> QED
      BY <2>6, <3>1, <3>2 DEF InsertFail
  <2>7. CASE InsertEnd
    <3>1. CASE ins = "open" /\ c' \in DestroyCommitted(DoCommit(c)) /\ UNCHANGED rolledBack
      <4>1. c.txns = One(t = "open") + 1 /\ ~c.auto
        BY <1>2, <3>1, <2>s DEF TxInv, Counted
      <4>2. c'.pending \subseteq c.pending /\ c'.durable \subseteq c.durable \cup c.pending
        BY <3>1, <4>1, <2>s, CommitSound
      <4> QED
        BY <1>2, <2>7, <3>1, <4>2 DEF InsertEnd
    <3>2. CASE ins = "plain" /\ UNCHANGED <<c, rolledBack>>
      BY <1>2, <2>7, <3>2 DEF InsertEnd
    <3> QED
      BY <2>7, <2>e, <3>1, <3>2 DEF InsertEnd
  <2>8. CASE UNCHANGED vars
    BY <1>2, <2>8 DEF vars
  <2> QED
    BY <1>2, <2>1, <2>2, <2>3, <2>4, <2>5, <2>6, <2>7, <2>8
    DEF Next, Execute, InsertBatch
<1>3. Undone => RolledBackStaysUndone
  BY DEF Undone, RolledBackStaysUndone
<1> QED
  BY <1>1, <1>2, <1>3, TxAlways, PTL DEF Spec

-----------------------------------------------------------------------------
(***************************************************************************)
(* Refinement: when batches fail only outside dbBegin, the driver supports *)
(* transactions and obeys every SQLEndTran and SQL_AUTOCOMMIT_ON, the      *)
(* session implements AtomicWrites: a batch is a step that nobody else     *)
(* sees, and the end of bind_list() places or undoes all of them at once.  *)
(***************************************************************************)
Obedient ==
  /\ Faults \subseteq {"begin", "batch"}
  /\ TransactionAnswers \subseteq {TRUE}

Plain ==
  /\ t # "committed"
  /\ ins # "plain"
  /\ t = "none" => c.pending = insw
  /\ t = "none" /\ ins = "none" => c.auto

\* With a driver that supports transactions and obeys, and without an append that fails inside
\* dbBegin (Obedient), dbBegin/dbCommit/dbRollback and dbAppendTable keep their promise: an
\* append joins the transaction or takes effect in one step, as a whole, or never.
THEOREM KeepsPromise == Obedient => (Spec => PromiseKept)
<1> SUFFICES ASSUME Obedient PROVE Spec => PromiseKept
  OBVIOUS
<1>o. /\ "commit" \notin Faults /\ "rollback" \notin Faults /\ "restore" \notin Faults
      /\ "nested" \notin Faults
  BY DEF Obedient
<1>1. Init => Plain /\ Promise!Init
  BY DEF Init, Plain, Promise!Init
<1>2. ASSUME TxInv, Plain, [Next]_vars
      PROVE  Plain' /\ [Promise!Next]_(Promise!vars)
  <2>s. Sound(c) /\ c.txns = One(t = "open") + One(ins = "open") /\ (c.txns > 0 => ~c.auto)
    BY <1>2 DEF TxInv, Counted
  <2>w. ASSUME next <= MaxWrites
        PROVE  /\ next \in Writes /\ next \notin c.pending /\ next \notin c.durable
               /\ next \notin insw
    BY <1>2, <2>w DEF TxInv, Shape, Histories, Past, Writes
  <2>i. /\ ins = "none" => insw = {}
        /\ ins \in {"none", "open"} /\ t \in {"none", "open"}
        /\ c.pending \cap c.durable = {}
        /\ t = "none" => c.pending = insw
        /\ t = "none" /\ ins = "none" => c.auto
    BY <1>2 DEF TxInv, Shape, Histories, Plain, Sound
  <2>p. ins = "open" => insw \subseteq c.pending
    BY <1>2 DEF TxInv, Counted
  <2>e. FailedCommit(c) = {}
    BY <1>o DEF FailedCommit
  <2>u. ASSUME c'.durable = c.durable, c'.pending = c.pending, UNCHANGED <<t, ins, insw>>
        PROVE  UNCHANGED Promise!vars
    BY <2>u DEF Promise!vars
  <2> USE DEF One
  <2>1. CASE Execute
    <3>0. ins = "none" /\ insw = {} /\ UNCHANGED <<t, ins, insw>>
      BY <2>1, <2>i DEF Execute, Idle
    <3>1. /\ c'.auto = c.auto
          /\ c.auto  => c'.durable = c.durable \cup {next} /\ c'.pending = c.pending
          /\ ~c.auto => c'.pending = c.pending \cup {next} /\ c'.durable = c.durable
      BY <2>1, <2>s, <2>w, WriteSound DEF Execute
    <3>4. next \in Writes /\ next \notin c.pending /\ next \notin c.durable
      BY <2>1, <2>w DEF Execute
    <3>2. CASE t = "none"
      <4>1. Promise!Statement(next)
        BY <3>0, <3>1, <3>2, <3>4, <2>i DEF Promise!Statement, Promise!Unused, Promise!Place
      <4> QED
        BY <3>0, <3>1, <3>2, <3>4, <4>1, <2>i DEF Plain, Promise!Next
    <3>3. CASE t = "open"
      <4>1. c'.pending = c.pending \cup {next} /\ c'.durable = c.durable
        BY <3>0, <3>1, <3>3, <2>s
      <4>2. Promise!Statement(next)
        BY <3>0, <3>3, <3>4, <4>1 DEF Promise!Statement, Promise!Unused, Promise!Place
      <4> QED
        BY <3>0, <3>3, <3>4, <4>1, <4>2 DEF Plain, Promise!Next
    <3> QED
      BY <3>2, <3>3, <2>i
  <2>2. CASE Begin
    <3>1. CASE UNCHANGED <<c, t>>
      BY <1>2, <2>2, <3>1, <2>u DEF Begin, Plain
    <3>2. CASE c' = Construct(c) /\ t' = "open"
      <4>1. c'.pending = c.pending /\ c'.durable = c.durable
        BY <3>2, <2>s, ConstructSound
      <4> QED
        BY <1>2, <2>2, <3>2, <4>1 DEF Begin, Idle, Plain, Promise!Next, Promise!Begin
    <3> QED
      BY <2>2, <3>1, <3>2 DEF Begin
  <2>3. CASE Commit
    <3>1. /\ t = "open" /\ c' \in DestroyCommitted(DoCommit(c)) /\ t' = "none"
          /\ ins = "none" /\ insw = {} /\ UNCHANGED <<ins, insw>>
      BY <2>3, <2>i, <2>e DEF Commit, Idle
    <3>2. c'.auto /\ c'.pending = {} /\ c'.durable = c.durable \cup c.pending
      BY <3>1, <2>s, <1>o, CommitSound
    <3> QED
      BY <3>1, <3>2 DEF Plain, Promise!Next, Promise!Commit
  <2>4. CASE Rollback
    <3>1. /\ t = "open" /\ c' \in DestroyOpen(c) /\ t' = "none"
          /\ ins = "none" /\ insw = {} /\ UNCHANGED <<ins, insw>>
      BY <2>4, <2>i DEF Rollback, Idle
    <3>2. c'.auto /\ c'.pending = {} /\ c'.durable = c.durable
      BY <3>1, <2>s, <1>o, DestroyOpenSound
    <3> QED
      BY <3>1, <3>2 DEF Plain, Promise!Next, Promise!Rollback
  <2>5. CASE InsertBegin
    <3>0. UNCHANGED <<t, insw>> /\ ins = "none" /\ insw = {}
      BY <2>5, <2>i DEF InsertBegin, Idle
    <3>1. CASE UNCHANGED <<c, ins>>
      BY <1>2, <3>0, <3>1, <2>u DEF Plain
    <3>2. CASE c' = Construct(c) /\ ins' = "open"
      <4>1. c'.pending = c.pending /\ c'.durable = c.durable
        BY <3>2, <2>s, ConstructSound
      <4> QED
        BY <1>2, <3>0, <3>2, <4>1 DEF Plain, Promise!Next, Promise!AppendBegin
    <3> QED
      BY <2>5, <3>1, <3>2 DEF InsertBegin, Obedient
  <2>6. CASE InsertBatch
    <3>1. /\ ins = "open" /\ UNCHANGED <<t, ins>> /\ insw' = insw \cup {next}
          /\ next <= MaxWrites /\ c' = DoWrite(c, next)
      BY <2>6, <2>i DEF InsertBatch, Idle
    <3>2. c'.pending = c.pending \cup {next} /\ c'.durable = c.durable
      BY <3>1, <2>i, <2>s, <2>w, WriteSound
    <3> QED
      <4>1. next \in Writes /\ next \notin c.pending /\ next \notin c.durable /\ next \notin insw
        BY <3>1, <2>w
      <4>2. (c.pending \cup {next}) \ (insw \cup {next}) = c.pending \ insw
        BY <4>1
      <4>3. Promise!AppendBatch(next)
        BY <3>1, <3>2, <4>1, <4>2 DEF Promise!AppendBatch, Promise!Unused
      <4> QED
        BY <3>1, <3>2, <2>i, <4>1, <4>3 DEF Plain, Promise!Next
  <2>7. CASE InsertFail
    <3>1. /\ t = "none" /\ ins = "open" /\ c' \in DestroyOpen(c)
          /\ ins' = "none" /\ insw' = {} /\ t' = t
      BY <2>7, <2>i, <1>o DEF InsertFail, Idle
    <3>2. c'.auto /\ c'.pending = {} /\ c'.durable = c.durable
      BY <3>1, <2>s, <1>o, DestroyOpenSound
    <3> QED
      BY <3>1, <3>2, <2>i DEF Plain, Promise!Next, Promise!AppendUndone
  <2>8. CASE InsertEnd
    <3>1. /\ ins = "open" /\ c' \in DestroyCommitted(DoCommit(c))
          /\ ins' = "none" /\ insw' = {} /\ t' = t
      BY <2>8, <2>i, <2>e DEF InsertEnd, Idle
    <3>2. CASE t = "open"
      <4>1. c'.pending = c.pending /\ c'.durable = c.durable
        BY <3>1, <3>2, <2>s, CommitSound
      <4> QED
        BY <3>1, <3>2, <4>1, <2>i, <2>p DEF Plain, Promise!Next, Promise!AppendDone, Promise!Place
    <3>3. CASE t = "none"
      <4>1. c'.auto /\ c'.pending = {} /\ c'.durable = c.durable \cup c.pending
        BY <3>1, <3>3, <2>s, <1>o, CommitSound
      <4> QED
        BY <3>1, <3>3, <4>1, <2>i DEF Plain, Promise!Next, Promise!AppendDone, Promise!Place
    <3> QED
      BY <3>2, <3>3, <2>i
  <2>9. CASE UNCHANGED vars
    BY <1>2, <2>9, <2>u DEF vars, Plain
  <2> QED
    BY <1>2, <2>1, <2>2, <2>3, <2>4, <2>5, <2>6, <2>7, <2>8, <2>9 DEF Next
<1> QED
  BY <1>1, <1>2, TxAlways, PTL DEF Spec, PromiseKept, Promise!Spec
=============================================================================
