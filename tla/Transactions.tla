----------------------------- MODULE Transactions -----------------------------
(***************************************************************************)
(* Transactions of one connection: nanodbc's reference-counted             *)
(* transaction objects, the one odbc_connection keeps between dbBegin and  *)
(* dbCommit/dbRollback (t_), and the one bind_list() keeps on its stack    *)
(* while dbAppendTable sends a data frame batch by batch (t).  Everything  *)
(* runs on R's main thread; the driver may refuse a request.               *)
(***************************************************************************)
EXTENDS Integers

CONSTANTS
  Batches,             \* bound: batches one dbAppendTable sends
  MaxWrites,           \* bound: writes in a behaviour
  TransactionAnswers,  \* what odbc_connection::supports_transactions() may answer
  Faults               \* what can go wrong, see FaultKinds

(***************************************************************************)
(*  begin     the driver refuses SQL_AUTOCOMMIT_OFF;                       *)
(*  batch     a batch fails, or is interrupted, outside dbBegin;           *)
(*  nested    a batch fails, or is interrupted, between dbBegin and the    *)
(*            dbCommit or dbRollback that ends it;                         *)
(*  commit    SQLEndTran(SQL_COMMIT) fails;                                *)
(*  rollback  SQLEndTran(SQL_ROLLBACK) fails in the destructor, silently;  *)
(*  restore   SQL_AUTOCOMMIT_ON fails in the destructor, silently.         *)
(***************************************************************************)
FaultKinds == {"begin", "batch", "nested", "commit", "rollback", "restore"}

ASSUME BatchesAssumption == Batches \in Nat
ASSUME MaxWritesAssumption == MaxWrites \in Nat
ASSUME AnswersAssumption == TransactionAnswers \subseteq BOOLEAN
ASSUME FaultsAssumption == Faults \subseteq FaultKinds

VARIABLES
  c,           \* the nanodbc connection and the driver's session, see TypeOK
  t,           \* odbc_connection::t_: no object, or one with its committed_ flag
  ins,         \* bind_list(): not running, without a transaction, or with one
  left,        \* batches the running bind_list() has still to send
  next,        \* the identity of the next write
  mine,        \* history: writes since dbBegin
  insw,        \* history: writes of the running bind_list()
  rolledBack   \* history: writes of transactions that ended without a commit

vars == <<c, t, ins, left, next, mine, insw, rolledBack>>

Writes == 1..MaxWrites

TypeOK ==
  /\ c \in [txns: Nat, rollback: BOOLEAN, auto: BOOLEAN,
            pending: SUBSET Writes, durable: SUBSET Writes]
  /\ t \in {"none", "open", "committed"}
  /\ ins \in {"none", "plain", "open"}
  /\ left \in 0..Batches
  /\ next \in 1..(MaxWrites + 1)
  /\ mine \in SUBSET Writes /\ insw \in SUBSET Writes
  /\ rolledBack \in SUBSET Writes

Init ==
  /\ c = [txns |-> 0, rollback |-> FALSE, auto |-> TRUE, pending |-> {}, durable |-> {}]
  /\ t = "none" /\ ins = "none" /\ left = 0 /\ next = 1
  /\ mine = {} /\ insw = {} /\ rolledBack = {}

-----------------------------------------------------------------------------
(* The driver's session. *)

\* A statement that writes n: at once in autocommit mode, else in the transaction.
DoWrite(d, n) ==
  IF d.auto THEN [d EXCEPT !.durable = @ \cup {n}]
            ELSE [d EXCEPT !.pending = @ \cup {n}]

\* SQLEndTran(SQL_COMMIT), SQLEndTran(SQL_ROLLBACK)
EndCommit(d) == [d EXCEPT !.durable = @ \cup d.pending, !.pending = {}]
EndRollback(d) == [d EXCEPT !.pending = {}]

\* SQL_AUTOCOMMIT_OFF; SQL_AUTOCOMMIT_ON, which commits what is pending.
AutocommitOff(d) == [d EXCEPT !.auto = FALSE]
AutocommitOn(d) == [EndCommit(d) EXCEPT !.auto = TRUE]

-----------------------------------------------------------------------------
(* nanodbc::transaction.  The operators of a destructor, or of a driver call that may  *)
(* fail, give the set of states it may leave.                                          *)

\* Mutant: the constructor leaves autocommit on.
ConstructAutocommit(d) == [d EXCEPT !.txns = @ + 1]

\* The constructor: autocommit off for the outermost one, ref_transaction().
Construct(d) ==
  [(IF d.txns = 0 THEN AutocommitOff(d) ELSE d) EXCEPT !.txns = @ + 1]

\* Mutant: commit() and the destructor leave the reference count alone.
UnrefNothing(d) == d

\* unref_transaction()
Unref(d) == [d EXCEPT !.txns = IF @ > 0 THEN @ - 1 ELSE @]

\* Mutant: a nested commit calls SQLEndTran as well.
CommitEndsAlways(d) == TRUE

\* commit() of the outermost transaction calls SQLEndTran.
CommitEnds(d) == Unref(d).txns = 0

\* What a destructor does once the count is zero: roll back if the connection is marked...
Undo(d) ==
  IF d.rollback
  THEN {[e EXCEPT !.rollback = FALSE] :
          e \in {EndRollback(d)} \cup (IF "rollback" \in Faults THEN {d} ELSE {})}
  ELSE {d}

\* ... then turn autocommit back on.
Restore(d) == {AutocommitOn(d)} \cup (IF "restore" \in Faults THEN {d} ELSE {})

\* Mutant: autocommit is only restored after a rollback.
FinishMarked(d) ==
  IF d.txns # 0 \/ ~d.rollback THEN {d} ELSE UNION {Restore(e) : e \in Undo(d)}

Finish(d) == IF d.txns # 0 THEN {d} ELSE UNION {Restore(e) : e \in Undo(d)}

\* Mutant: the destructor does not mark the connection for rollback.
DestroyOpenUnmarked(d) == Finish(Unref(d))

\* The destructor of a transaction whose committed_ flag is set, and of one without.
DestroyCommitted(d) == Finish(d)
DestroyOpen(d) == Finish(Unref([d EXCEPT !.rollback = TRUE]))

\* commit() when SQLEndTran succeeds or is not called.
DoCommit(d) == IF CommitEnds(d) THEN EndCommit(Unref(d)) ELSE Unref(d)

\* commit() when SQLEndTran fails: the driver keeps the transaction or has lost it.
FailedCommit(d) ==
  IF "commit" \in Faults /\ CommitEnds(d) THEN {Unref(d), EndRollback(Unref(d))} ELSE {}

-----------------------------------------------------------------------------
(* dbExecute, dbBegin, dbCommit, dbRollback, dbDisconnect. *)

Idle == ins = "none"

Mine(n) == IF t = "none" THEN mine ELSE mine \cup {n}

\* dbExecute() of one statement that writes.
Execute ==
  /\ Idle /\ next <= MaxWrites
  /\ c' = DoWrite(c, next)
  /\ next' = next + 1
  /\ mine' = Mine(next)
  /\ UNCHANGED <<t, ins, left, insw, rolledBack>>

\* odbc_connection::begin(); "Double begin" and a refused SQL_AUTOCOMMIT_OFF change
\* nothing.
Begin ==
  /\ Idle /\ t = "none"
  /\ \/ c' = Construct(c) /\ t' = "open"
     \/ "begin" \in Faults /\ UNCHANGED <<c, t>>
  /\ UNCHANGED <<ins, left, next, mine, insw, rolledBack>>

\* odbc_connection::commit(): t_->commit(), then t_.reset().  If SQLEndTran fails the
\* exception leaves t_ in place with committed_ set; a second dbCommit only resets it.
Commit ==
  /\ Idle
  /\ \/ t = "open" /\ c' \in DestroyCommitted(DoCommit(c)) /\ t' = "none" /\ mine' = {}
     \/ t = "open" /\ c' \in FailedCommit(c) /\ t' = "committed" /\ UNCHANGED mine
     \/ t = "committed" /\ c' \in DestroyCommitted(c) /\ t' = "none" /\ mine' = {}
  /\ UNCHANGED <<ins, left, next, insw, rolledBack>>

\* odbc_connection::rollback(): t_->rollback() marks the connection unless t_ has its
\* committed_ flag set, then t_.reset().  dbDisconnect() destroys t_ just the same.
Rollback ==
  /\ Idle
  /\ \/ t = "open" /\ c' \in DestroyOpen(c)
     \/ t = "committed" /\ c' \in DestroyCommitted(c)
  /\ t' = "none" /\ mine' = {}
  /\ rolledBack' = rolledBack \cup mine
  /\ UNCHANGED <<ins, left, next, insw>>

-----------------------------------------------------------------------------
(* dbAppendTable: bind_list(x, use_transaction = true, batch_rows). *)

\* The data frame has n batches; dbAppendTable does nothing for one without rows.
InsertBegin ==
  /\ Idle
  /\ \E n \in 1..Batches, supports \in TransactionAnswers :
       /\ next + n <= MaxWrites + 1
       /\ \/ ~supports /\ ins' = "plain" /\ left' = n /\ UNCHANGED c
          \/ supports /\ ins' = "open" /\ left' = n /\ c' = Construct(c)
          \/ supports /\ "begin" \in Faults /\ c.txns = 0 /\ UNCHANGED <<ins, left, c>>
  /\ UNCHANGED <<t, next, mine, insw, rolledBack>>

\* Mutant: the loop does not stop at the last row.
InsertBatchEndless ==
  /\ ~Idle /\ next <= MaxWrites
  /\ c' = DoWrite(c, next)
  /\ next' = next + 1 /\ left' = left - 1
  /\ insw' = insw \cup {next}
  /\ mine' = Mine(next)
  /\ UNCHANGED <<t, ins, rolledBack>>

\* One turn of the loop: bind and execute a batch.
InsertBatch ==
  /\ ~Idle /\ left > 0 /\ next <= MaxWrites
  /\ c' = DoWrite(c, next)
  /\ next' = next + 1 /\ left' = left - 1
  /\ insw' = insw \cup {next}
  /\ mine' = Mine(next)
  /\ UNCHANGED <<t, ins, rolledBack>>

\* A batch throws, or checkUserInterrupt() after it does: t is destroyed uncommitted.
InsertFail ==
  /\ ~Idle
  /\ (IF t = "none" THEN "batch" ELSE "nested") \in Faults
  /\ \/ ins = "open" /\ c' \in DestroyOpen(c)
     \/ ins = "plain" /\ UNCHANGED c
  /\ rolledBack' = IF ins = "open" /\ t # "open" THEN rolledBack \cup insw ELSE rolledBack
  /\ ins' = "none" /\ left' = 0 /\ insw' = {}
  /\ UNCHANGED <<t, next, mine>>

\* All batches are sent: t->commit(), and t goes out of scope whether or not it threw.
InsertEnd ==
  /\ ~Idle /\ left = 0
  /\ \/ ins = "plain" /\ UNCHANGED <<c, rolledBack>>
     \/ ins = "open" /\ c' \in DestroyCommitted(DoCommit(c)) /\ UNCHANGED rolledBack
     \/ /\ ins = "open"
        /\ \E d \in FailedCommit(c) : c' \in DestroyCommitted(d)
        /\ rolledBack' = rolledBack \cup insw
  /\ ins' = "none" /\ insw' = {}
  /\ UNCHANGED <<t, left, next, mine>>

Next ==
  \/ Execute \/ Begin \/ Commit \/ Rollback
  \/ InsertBegin \/ InsertBatch \/ InsertFail \/ InsertEnd

Spec == Init /\ [][Next]_vars

-----------------------------------------------------------------------------
(* Properties. *)

\* transactions_ counts the transaction objects that are still uncommitted: the one
\* dbBegin made and the one on bind_list()'s stack.  Whatever fails, no path out of
\* either leaves a reference behind or drops one twice.
RefCountExact ==
  c.txns = (IF t = "open" THEN 1 ELSE 0) + (IF ins = "open" THEN 1 ELSE 0)

\* A write made after dbBegin is not durable before dbCommit, however many
\* dbAppendTable calls open, commit or destroy a nested transaction meanwhile.
NothingTakesEffectEarly == t = "open" => mine \cap c.durable = {}

\* With no transaction object alive the session is back in autocommit mode, nothing is
\* pending and no rollback mark is left for a later transaction to trip over.
AutocommitRestored ==
  t = "none" /\ ins # "open" => c.auto /\ ~c.rollback /\ c.pending = {}

\* "If this transaction has not been committed, will will rollback any modifying ops"
\* (nanodbc.h, ~transaction): what was rolled back, by dbRollback, dbDisconnect or a
\* failed dbAppendTable, never takes effect.
RolledBackStaysUndone == rolledBack \cap c.durable = {}

\* What the session does is what dbBegin/dbCommit/dbRollback and an all-or-nothing
\* dbAppendTable promise: until bind_list() commits its own transaction no batch is
\* durable or part of dbBegin's work, then all are, and after a failure none is.
Promise == INSTANCE AtomicWrites WITH
  durable <- c.durable, work <- c.pending \ insw, open <- (t = "open"),
  append <- insw, appending <- (ins # "none")
PromiseKept == Promise!Spec
=============================================================================
