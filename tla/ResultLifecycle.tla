--------------------------- MODULE ResultLifecycle ---------------------------
(***************************************************************************)
(* One odbc_connection, the odbc_result objects R creates on it, and the   *)
(* two threads that share them while a query starts: R's main thread in    *)
(* run_interruptible() and the execution thread it launches.               *)
(*                                                                         *)
(* The connection keeps a RAW pointer to its current result; every result  *)
(* keeps a shared_ptr to the connection.  A result is an address: once its *)
(* object is deleted the address may be used for a new one.                *)
(***************************************************************************)
EXTENDS Integers, FiniteSets

CONSTANTS
  Results,        \* addresses at which odbc_result objects can live
  Null,           \* nullptr
  Modes,          \* values dbConnect's interruptible argument may have
  Faults          \* which environment faults can happen, see FaultKinds

(***************************************************************************)
(* What the environment may do to this code:                               *)
(*  cancel  SQLCancel returns an error for an allocated statement handle;  *)
(*  handle  SQLAllocHandle fails, the statement stays without a handle;    *)
(*  memory  std::make_shared<statement> throws.                            *)
(* Interrupts and their timing are not faults: the main thread's wait may  *)
(* time out wherever the execution thread is.                              *)
(***************************************************************************)
FaultKinds == {"cancel", "handle", "memory"}

ASSUME NullAssumption == Null \notin Results
ASSUME ResultsAssumption == IsFiniteSet(Results)
ASSUME ModesAssumption == Modes \subseteq BOOLEAN
ASSUME FaultsAssumption == Faults \subseteq FaultKinds

VARIABLES
  cptr,     \* R's connection@ptr has not been released
  uses,     \* use count of the shared_ptr<odbc_connection>
  hdbc,     \* TRUE while the ODBC connection is open
  async,    \* odbc_connection::interruptible_execution_
  current,  \* odbc_connection::current_result_
  obj,      \* obj[r]: is there an odbc_result at r, and is it constructed
  stmt,     \* stmt[r]: r's s_ is null, has no handle yet, or has one
  bound,    \* bound[r]: r's bound_
  self,     \* the result whose constructor is running
  m,        \* where R's main thread is
  w,        \* where odbc_result::execute() is
  eptr,     \* the exception the execution left, run_interruptible's eptr
  hit,      \* SQLCancel reached the driver call that execute() is in
  caught,   \* an interrupt was caught during the running constructor
  lost      \* history: the result whose constructor last left without resetting current_result_

lifecycleVars == <<cptr, uses, hdbc, async, current, obj, stmt, bound, self, m, w, eptr, hit,
                   caught, lost>>

connVars == <<cptr, uses, hdbc, async>>
threadVars == <<self, m, w, eptr, hit, caught>>

MainAt == {"idle", "exec", "wait", "check", "tell", "cancel", "clear", "join", "crashed"}
ExecAt == {"off", "set", "make", "open", "prepare", "execute", "raise", "ready"}

LifecycleTypeOK ==
  /\ cptr \in BOOLEAN
  /\ uses \in Nat
  /\ hdbc \in BOOLEAN
  /\ async \in BOOLEAN
  /\ current \in Results \cup {Null}
  /\ obj \in [Results -> {"free", "building", "live"}]
  /\ stmt \in [Results -> {"null", "new", "open"}]
  /\ bound \in [Results -> BOOLEAN]
  /\ self \in Results \cup {Null}
  /\ m \in MainAt
  /\ w \in ExecAt
  /\ eptr \in {"none", "database", "other"}
  /\ hit \in BOOLEAN
  /\ caught \in BOOLEAN
  /\ lost \in Results \cup {Null}

LifecycleInit ==
  /\ cptr = TRUE /\ uses = 1 /\ hdbc = TRUE /\ async \in Modes
  /\ current = Null
  /\ obj = [r \in Results |-> "free"]
  /\ stmt = [r \in Results |-> "null"]
  /\ bound = [r \in Results |-> FALSE]
  /\ self = Null
  /\ m = "idle" /\ w = "off" /\ eptr = "none" /\ hit = FALSE /\ caught = FALSE
  /\ lost = Null

-----------------------------------------------------------------------------
(***************************************************************************)
(* cancel_current_result(): current_result_->statement()->cancel().        *)
(* A null or freed current statement is undefined behaviour that ends the  *)
(* process; SQLCancel of a null handle is SQL_INVALID_HANDLE, which        *)
(* nanodbc throws as a database_error.                                     *)
(***************************************************************************)
CancelOutcomes ==
  CASE current = Null -> {"ok"}
    [] current # Null /\ obj[current] = "free" -> {"crash"}
    [] current # Null /\ obj[current] # "free" /\ stmt[current] = "null" -> {"crash"}
    [] current # Null /\ obj[current] # "free" /\ stmt[current] = "new" -> {"throw"}
    [] OTHER -> {"ok"} \cup (IF "cancel" \in Faults THEN {"throw"} ELSE {})

\* Mutant: the pointer is not reset after the cancel.
AfterCancelNoReset(out) == current

\* current_result_ after a call of set_current_result(nullptr) that ended in out:
\* the pointer is only reset once the cancel returned.
AfterCancel(out) == IF out = "ok" THEN Null ELSE current

\* Mutant: the last holder does not close the connection.
ReleaseLeak ==
  /\ uses' = uses - 1
  /\ hdbc' = hdbc

\* ~odbc_connection when the last shared_ptr goes: SQLDisconnect.
Release ==
  /\ uses' = uses - 1
  /\ hdbc' = (uses > 1)

\* The constructor of self throws: members are destroyed (the statement frees its
\* handle, the shared_ptr to the connection is dropped), ~odbc_result does not run.
Unwind ==
  /\ obj' = [obj EXCEPT ![self] = "free"]
  /\ stmt' = [stmt EXCEPT ![self] = "null"]
  /\ bound' = [bound EXCEPT ![self] = FALSE]
  /\ Release
  /\ self' = Null /\ w' = "off" /\ eptr' = "none" /\ hit' = FALSE /\ caught' = FALSE
  /\ UNCHANGED <<cptr, async>>

Crash ==
  /\ m' = "crashed"
  /\ UNCHANGED <<connVars, current, obj, stmt, bound, self, w, eptr, hit, caught, lost>>

-----------------------------------------------------------------------------
(* R's calls on the main thread. *)

\* dbConnect(): a new connection object once the previous one is gone.
Connect ==
  /\ m = "idle" /\ uses = 0
  /\ cptr' = TRUE /\ uses' = 1 /\ hdbc' = TRUE /\ async' \in Modes
  /\ current' = Null /\ lost' = Null
  /\ UNCHANGED <<obj, stmt, bound, threadVars>>

\* Mutant: connection_release() can be called twice.
DisconnectAgain ==
  /\ m = "idle"
  /\ cptr' = FALSE
  /\ Release
  /\ UNCHANGED <<async, current, obj, stmt, bound, threadVars, lost>>

\* dbDisconnect() or the finalizer of connection@ptr: connection_release().
Disconnect ==
  /\ m = "idle" /\ cptr
  /\ cptr' = FALSE
  /\ Release
  /\ UNCHANGED <<async, current, obj, stmt, bound, threadVars, lost>>

\* dbSendQuery()/dbSendStatement(): new_result() starts the constructor at address r,
\* which first cancels the previous result, then runs execute() on a thread of its
\* own or, without interruptible execution, on the main thread.
NewResult(r) ==
  /\ m = "idle" /\ cptr /\ obj[r] = "free"
  /\ \E out \in CancelOutcomes :
       \/ /\ out = "ok"
          /\ current' = AfterCancel(out)
          /\ obj' = [obj EXCEPT ![r] = "building"]
          /\ uses' = uses + 1
          /\ self' = r /\ w' = "set" /\ eptr' = "none" /\ hit' = FALSE /\ caught' = FALSE
          /\ m' = IF async THEN "wait" ELSE "exec"
          /\ lost' = Null
          /\ UNCHANGED <<cptr, hdbc, async, stmt, bound>>
       \/ /\ out = "throw"  \* the constructor unwinds, the old result stays current
          /\ UNCHANGED lifecycleVars
       \/ out = "crash" /\ Crash

\* Mutant: binding an older result makes it current again.
BindListSetsCurrent(r) ==
  /\ m = "idle" /\ obj[r] = "live" /\ ~bound[r]
  /\ bound' = [bound EXCEPT ![r] = TRUE]
  /\ current' = r
  /\ UNCHANGED <<connVars, obj, stmt, threadVars, lost>>

\* dbBind(): bind_list() executed the statement.
BindList(r) ==
  /\ m = "idle" /\ obj[r] = "live" /\ ~bound[r]
  /\ bound' = [bound EXCEPT ![r] = TRUE]
  /\ UNCHANGED <<connVars, current, obj, stmt, threadVars, lost>>

\* dbFetch() of a bound result that fails: set_current_result(nullptr), whichever
\* result is current.  (A fetch that succeeds leaves this state alone.)
FetchError(r) ==
  /\ m = "idle" /\ obj[r] = "live" /\ bound[r]
  /\ \E out \in CancelOutcomes :
       \/ /\ out # "crash"
          /\ current' = AfterCancel(out)
          /\ UNCHANGED <<connVars, obj, stmt, bound, threadVars, lost>>
       \/ out = "crash" /\ Crash

\* Mutant: the destructor leaves the connection's pointer alone.
ClearResultNoReset(r) ==
  /\ m = "idle" /\ obj[r] = "live"
  /\ obj' = [obj EXCEPT ![r] = "free"]
  /\ stmt' = [stmt EXCEPT ![r] = "null"]
  /\ bound' = [bound EXCEPT ![r] = FALSE]
  /\ Release
  /\ UNCHANGED <<cptr, async, current, threadVars, lost>>

\* dbClearResult() or the finalizer of result@ptr: ~odbc_result().  A failing
\* SQLCancel is caught and the connection's pointer reset all the same.
ClearResult(r) ==
  /\ m = "idle" /\ obj[r] = "live"
  /\ current' = IF current = r THEN Null ELSE current
  /\ obj' = [obj EXCEPT ![r] = "free"]
  /\ stmt' = [stmt EXCEPT ![r] = "null"]
  /\ bound' = [bound EXCEPT ![r] = FALSE]
  /\ Release
  /\ UNCHANGED <<cptr, async, threadVars, lost>>

-----------------------------------------------------------------------------
(* odbc_result::execute(), on the execution thread or on the main thread. *)

ExecStep(from, to) ==
  /\ m # "crashed" /\ w = from
  /\ w' = to
  /\ hit' = FALSE
  /\ UNCHANGED <<connVars, obj, self, m, caught, lost>>

\* catch (database_error): on the execution thread an odbc_error is built and thrown.
ExecError(from) ==
  /\ ExecStep(from, IF async THEN "raise" ELSE "ready")
  /\ eptr' = "database"

\* Mutant: execute() does not register its result.
ExecSetNothing ==
  /\ ExecStep("set", "make")
  /\ UNCHANGED <<current, stmt, bound, eptr>>

\* c_->set_current_result(this): returns at once when this is already current, else
\* cancels the current result (the constructor has just done that) and replaces it.
ExecSet ==
  /\ current = self \/ "ok" \in CancelOutcomes
  /\ ExecStep("set", "make")
  /\ current' = self
  /\ UNCHANGED <<stmt, bound, eptr>>

\* s_ = std::make_shared<nanodbc::statement>()
ExecMake ==
  \/ /\ ExecStep("make", "open")
     /\ stmt' = [stmt EXCEPT ![self] = "new"]
     /\ UNCHANGED <<current, bound, eptr>>
  \/ /\ "memory" \in Faults
     /\ ExecStep("make", "ready")
     /\ eptr' = "other"
     /\ UNCHANGED <<current, stmt, bound>>

\* statement_impl::open(): SQLAllocHandle, from prepare() or execute_direct().
ExecOpen ==
  \/ \E immediate \in BOOLEAN :
       /\ ExecStep("open", IF immediate THEN "execute" ELSE "prepare")
       /\ stmt' = [stmt EXCEPT ![self] = "open"]
       /\ bound' = [bound EXCEPT ![self] = immediate]
       /\ UNCHANGED <<current, eptr>>
  \/ /\ "handle" \in Faults
     /\ ExecError("open")
     /\ UNCHANGED <<current, stmt, bound>>

\* SQLPrepare and SQLNumParams; a cancelled call fails.  A query with parameters waits for dbBind.
ExecPrepare ==
  \/ \E params \in BOOLEAN :
       /\ ~hit
       /\ ExecStep("prepare", IF params THEN "ready" ELSE "execute")
       /\ bound' = [bound EXCEPT ![self] = ~params]
       /\ UNCHANGED <<current, stmt, eptr>>
  \/ ExecError("prepare") /\ UNCHANGED <<current, stmt, bound>>

\* SQLExecute / SQLExecDirect and the columns of the result; a cancelled call fails.
ExecExecute ==
  \/ ~hit /\ ExecStep("execute", "ready") /\ UNCHANGED <<current, stmt, bound, eptr>>
  \/ ExecError("execute") /\ UNCHANGED <<current, stmt, bound>>

\* throw odbc_error(e, sql_, *output_encoder_): translates the message with R's API.
ExecRaise ==
  /\ ExecStep("raise", "ready")
  /\ UNCHANGED <<current, stmt, bound, eptr>>

Exec == ExecSet \/ ExecMake \/ ExecOpen \/ ExecPrepare \/ ExecExecute \/ ExecRaise

-----------------------------------------------------------------------------
(* run_interruptible() on the main thread. *)

MainStep(from, to) ==
  /\ m = from
  /\ m' = to
  /\ UNCHANGED <<connVars, obj, stmt, bound, self, w, eptr, lost>>

\* wait_for(1s) timed out; the interrupt check that follows uses this stale answer.
MainTimeout == w # "ready" /\ MainStep("wait", "check") /\ UNCHANGED <<current, hit, caught>>

\* checkUserInterrupt() returns.
MainQuiet == MainStep("check", "wait") /\ UNCHANGED <<current, hit, caught>>

\* checkUserInterrupt() throws and is caught: raise_message() is next.
MainInterrupt ==
  /\ MainStep("check", "tell")
  /\ caught' = TRUE
  /\ UNCHANGED <<current, hit>>

\* raise_message() calls cli_inform(), which returns: cancel_fn() is next.
MainTold == MainStep("tell", "cancel") /\ UNCHANGED <<current, hit, caught>>

\* A handler of the message, or another interrupt, leaves raise_message() by an
\* exception: neither cancel_fn() nor cleanup_fn() is called.
MainTellFails == MainStep("tell", "join") /\ UNCHANGED <<current, hit, caught>>

\* cancel_fn() has nothing to cancel: set_current_result(nullptr) returns.
MainCancelNothing ==
  /\ current = Null
  /\ MainStep("cancel", "wait")
  /\ UNCHANGED <<current, hit, caught>>

\* cancel_fn() calls SQLCancel, which ends a driver call in progress and does nothing
\* to an idle statement.  A database_error leaves run_interruptible() through the
\* destructor of the future, which joins the thread.
MainCancel ==
  /\ current # Null
  /\ \E out \in CancelOutcomes :
       \/ /\ out = "ok"
          /\ MainStep("cancel", "clear")
          /\ hit' \in (IF w \in {"prepare", "execute"} THEN BOOLEAN ELSE {FALSE})
          /\ UNCHANGED <<current, caught>>
       \/ /\ out = "throw"
          /\ MainStep("cancel", "join")
          /\ UNCHANGED <<current, hit, caught>>
       \/ out = "crash" /\ m = "cancel" /\ Crash

\* current_result_ = nullptr, after SQLCancel returned.
MainClear ==
  /\ MainStep("clear", "wait")
  /\ current' = Null
  /\ UNCHANGED <<hit, caught>>

\* execute() returned without an exception: the constructor returns.
MainReturn ==
  /\ m \in {"wait", "exec"} /\ w = "ready" /\ eptr = "none"
  /\ m' = "idle" /\ w' = "off" /\ self' = Null /\ hit' = FALSE /\ caught' = FALSE
  /\ obj' = [obj EXCEPT ![self] = "live"]
  /\ UNCHANGED <<connVars, current, stmt, bound, eptr, lost>>

\* Mutant: the exception is only looked at after an interrupt.
MainCleanupInterrupted ==
  /\ m \in {"wait", "exec"} /\ w = "ready" /\ eptr # "none" /\ caught
  /\ current' = Null
  /\ m' = "idle"
  /\ Unwind
  /\ UNCHANGED lost

\* execute() left an exception: cleanup_fn(), or the handler in execute() itself,
\* calls set_current_result(nullptr); whatever that does, the constructor throws.
MainCleanup ==
  /\ m \in {"wait", "exec"} /\ w = "ready" /\ eptr # "none"
  /\ \E out \in CancelOutcomes :
       \/ /\ out # "crash"
          /\ current' = AfterCancel(out)
          /\ lost' = IF out = "throw" THEN self ELSE lost
          /\ m' = "idle"
          /\ Unwind
       \/ out = "crash" /\ Crash

\* Mutant: the thread is detached, the constructor unwinds while it runs.
MainJoinDetached ==
  /\ m = "join"
  /\ m' = "idle"
  /\ obj' = [obj EXCEPT ![self] = "free"]
  /\ stmt' = [stmt EXCEPT ![self] = "null"]
  /\ Release
  /\ UNCHANGED <<cptr, async, current, bound, self, w, eptr, hit, caught, lost>>

\* The future's destructor has joined the thread: the constructor throws, and nothing
\* has reset current_result_.
MainJoin ==
  /\ m = "join" /\ w = "ready"
  /\ m' = "idle"
  /\ Unwind
  /\ lost' = self
  /\ UNCHANGED current

MainTell == MainInterrupt \/ MainTold \/ MainTellFails
MainWait == MainTimeout \/ MainQuiet \/ MainTell \/ MainCancelNothing \/ MainCancel \/ MainClear
MainEnd == MainReturn \/ MainCleanup \/ MainJoin

-----------------------------------------------------------------------------
RCall ==
  \/ Connect
  \/ Disconnect
  \/ \E r \in Results : NewResult(r) \/ BindList(r) \/ FetchError(r) \/ ClearResult(r)

LifecycleNext == RCall \/ Exec \/ MainWait \/ MainEnd

LifecycleSpec == LifecycleInit /\ [][LifecycleNext]_lifecycleVars

(***************************************************************************)
(* The two threads keep running, every driver call and every message to    *)
(* the user returns or throws; users call and interrupt when they like.    *)
(***************************************************************************)
FairSpec ==
  /\ LifecycleSpec
  /\ WF_lifecycleVars(Exec) /\ WF_lifecycleVars(MainEnd)
  /\ WF_lifecycleVars(MainQuiet) /\ WF_lifecycleVars(MainTold \/ MainTellFails)
  /\ WF_lifecycleVars(MainCancelNothing)
  /\ WF_lifecycleVars(MainCancel) /\ WF_lifecycleVars(MainClear)

-----------------------------------------------------------------------------
(* Properties. *)

\* ~odbc_result: "we need to make sure the connection is not holding onto an invalid
\* reference".  Whatever fails, current_result_, which every cancel dereferences, is null or
\* points at an odbc_result that exists, or at one that was lost: its constructor left
\* run_interruptible() from inside the loop, past cleanup_fn(), when raise_message() or
\* cancel_fn() threw, or SQLCancel failed in cleanup_fn() itself.
NoDanglingCurrent == current # Null /\ obj[current] = "free" => current = lost

\* While execute() runs, the object it runs on exists: no path out of the
\* constructor, in particular the exception a failed cancel_fn() throws, frees the
\* result under the execution thread.
ThreadHasItsObject == w # "off" => self # Null /\ obj[self] = "building"

\* A statement handle is only ever open on an open connection, and the connection is
\* open exactly as long as R's pointer or some result refers to it: dbDisconnect with
\* results in use must neither close under them nor leak the connection.
ConnectionOutlivesStatements ==
  /\ \A r \in Results : stmt[r] = "open" => hdbc
  /\ hdbc <=> (cptr \/ \E r \in Results : obj[r] # "free")

\* A query that was not interrupted is the current result when its constructor
\* returns, so that dbIsValid() holds of what dbSendQuery() returns.
ReturnsCurrent ==
  [][\A r \in Results :
       obj[r] = "building" /\ obj'[r] = "live" /\ ~caught => current' = r]_lifecycleVars

\* dbIsValid() of a live result never turns from FALSE to TRUE: once superseded,
\* cancelled or failed, a result stays invalid.
NeverRevalidated ==
  [][\A r \in Results :
       obj[r] = "live" /\ obj'[r] = "live" /\ current # r => current' # r]_lifecycleVars

\* "Fix crash when interrupting execution using Ctrl-c" (NEWS.md): no
\* cancel_current_result() dereferences a null or freed statement.
NeverCrashes == m # "crashed"

\* Only two cancels do: one of a lost result, and one of a result without a statement, between
\* set_current_result(this) and the assignment of s_ or when no memory was left for it.  No
\* other order of calls, interrupts, failures of any kind and destructors crashes.
NoOtherCrash ==
  \/ NeverCrashes
  \/ current = lost /\ obj[current] = "free"
  \/ current = self /\ (w = "make" \/ eptr = "other")

\* run_interruptible() always returns or throws, whatever the timing of the interrupts
\* and whether its messages return, provided the driver's calls do; unless the process
\* has ended.
CallReturns == (m # "idle") ~> (m \in {"idle", "crashed"})
=============================================================================
