---------------------------- MODULE StatementProofs ----------------------------
(***************************************************************************)
(* Theorems about what one statement goes through, in two models: its life *)
(* in ResultLifecycle, for every finite set of result addresses and        *)
(* connections with or without interruptible execution, and the binding of *)
(* its parameters in BindParameters, for any query, any dbBind() calls     *)
(* with any vectors and data frames, and any of the failures.              *)
(***************************************************************************)
EXTENDS ResultLifecycle, BindParameters, FiniteSetTheorems, WellFoundedInduction, TLAPS

-----------------------------------------------------------------------------
(* The life of a result *)

(***************************************************************************)
(* The constructor that is running, if any, and nothing else, owns the     *)
(* address that is being built, in both threads.  The shapes of the values *)
(* (the part of LifecycleTypeOK that needs no counting) go with it.        *)
(***************************************************************************)
Shape ==
  /\ uses \in Int
  /\ current \in Results \cup {Null}
  /\ obj \in [Results -> {"free", "building", "live"}]
  /\ stmt \in [Results -> {"null", "new", "open"}]
  /\ self \in Results \cup {Null}
  /\ m \in MainAt
  /\ w \in ExecAt
  /\ eptr \in {"none", "database", "other"}
  /\ lost \in Results \cup {Null}

Owner ==
  /\ w # "off" <=> self # Null
  /\ m = "idle" => w = "off"
  /\ m \notin {"idle", "crashed"} => w # "off"
  /\ \A r \in Results : obj[r] = "building" <=> r = self

ThreadInv == Shape /\ Owner

\* The initial states satisfy the thread invariant.
LEMMA ThreadInit == LifecycleInit => ThreadInv
BY NullAssumption DEF LifecycleInit, ThreadInv, Shape, Owner, MainAt, ExecAt

\* Every step of either thread preserves the thread invariant.
LEMMA ThreadStep == ThreadInv /\ [LifecycleNext]_lifecycleVars => ThreadInv'
<1> SUFFICES ASSUME ThreadInv, [LifecycleNext]_lifecycleVars PROVE ThreadInv'
  OBVIOUS
<1> USE NullAssumption
<1> USE DEF ThreadInv, Shape, Owner, MainAt, ExecAt, connVars, threadVars
<1>1. CASE Connect
  BY <1>1 DEF Connect
<1>2. CASE Disconnect
  BY <1>2 DEF Disconnect, Release
<1>3. ASSUME NEW r \in Results, NewResult(r) PROVE ThreadInv'
  <2> USE DEF AfterCancel
  <2>1. CASE m' = "crashed"
    BY <1>3, <2>1 DEF NewResult, Crash, lifecycleVars
  <2>2. CASE UNCHANGED lifecycleVars
    BY <2>2 DEF lifecycleVars
  <2>3. CASE /\ m = "idle" /\ obj[r] = "free"
             /\ current' \in Results \cup {Null}
             /\ obj' = [obj EXCEPT ![r] = "building"]
             /\ uses' = uses + 1
             /\ self' = r /\ w' = "set" /\ eptr' = "none"
             /\ m' = IF async THEN "wait" ELSE "exec"
             /\ lost' = Null
             /\ UNCHANGED stmt
    BY <2>3
  <2> QED
    BY <1>3, <2>1, <2>2, <2>3 DEF NewResult, Crash
<1>4. ASSUME NEW r \in Results, BindList(r) PROVE ThreadInv'
  BY <1>4 DEF BindList
<1>5. ASSUME NEW r \in Results, FetchError(r) PROVE ThreadInv'
  BY <1>5 DEF FetchError, AfterCancel, Crash
<1>6. ASSUME NEW r \in Results, ClearResult(r) PROVE ThreadInv'
  BY <1>6 DEF ClearResult, Release
<1>7. CASE ExecSet
  BY <1>7 DEF ExecSet, ExecStep
<1>8. CASE ExecMake
  BY <1>8 DEF ExecMake, ExecStep
<1>9. CASE ExecOpen
  BY <1>9 DEF ExecOpen, ExecStep, ExecError
<1>10. CASE ExecPrepare
  BY <1>10 DEF ExecPrepare, ExecStep, ExecError
<1>11. CASE ExecExecute
  BY <1>11 DEF ExecExecute, ExecStep, ExecError
<1>12. CASE ExecRaise
  BY <1>12 DEF ExecRaise, ExecStep
<1>13. CASE MainTimeout \/ MainQuiet \/ MainTell \/ MainCancelNothing \/ MainClear
  BY <1>13 DEF MainTimeout, MainQuiet, MainTell, MainInterrupt, MainTold, MainTellFails,
                MainCancelNothing, MainClear, MainStep
<1>14. CASE MainCancel
  BY <1>14 DEF MainCancel, MainStep, Crash
<1>15. CASE MainReturn
  BY <1>15 DEF MainReturn
<1>16. CASE MainCleanup
  BY <1>16 DEF MainCleanup, Unwind, Release, AfterCancel, Crash
<1>17. CASE MainJoin
  BY <1>17 DEF MainJoin, Unwind, Release
<1>18. CASE UNCHANGED lifecycleVars
  BY <1>18 DEF lifecycleVars
<1> QED
  BY <1>1, <1>2, <1>3, <1>4, <1>5, <1>6, <1>7, <1>8, <1>9, <1>10, <1>11, <1>12, <1>13,
     <1>14, <1>15, <1>16, <1>17, <1>18
  DEF LifecycleNext, RCall, Exec, MainWait, MainEnd

\* The execution thread always has the object it runs on (ThreadHasItsObject), whatever
\* the timing of interrupts and whichever of the faults happen.
THEOREM ThreadSafety == LifecycleSpec => []ThreadHasItsObject
<1>1. ThreadInv => ThreadHasItsObject
  BY DEF ThreadInv, Shape, Owner, ThreadHasItsObject
<1> QED
  BY ThreadInit, ThreadStep, <1>1, PTL DEF LifecycleSpec

-----------------------------------------------------------------------------
(***************************************************************************)
(* The raw pointer is null or at the result being built while a            *)
(* constructor runs, and null, at a live result or at a lost one between   *)
(* calls.  A cancel then meets a statement, or it is one of those that end *)
(* the process: of a lost result, before s_ is assigned, and after memory  *)
(* ran out.                                                                *)
(***************************************************************************)
Statements ==
  /\ \A r \in Results : obj[r] = "live" => stmt[r] = "open"
  /\ \A r \in Results : obj[r] = "free" => stmt[r] = "null"
  /\ w \in {"set", "make"} => stmt[self] = "null"
  /\ w = "open" => stmt[self] = "new"
  /\ w \in {"prepare", "execute"} => stmt[self] = "open"
  /\ w = "raise" => stmt[self] # "null" /\ eptr = "database"
  /\ w = "ready" => \/ stmt[self] = "open"
                    \/ stmt[self] = "new" /\ eptr = "database"
                    \/ stmt[self] = "null" /\ eptr = "other"
  /\ w \in {"set", "make", "open", "prepare", "execute"} => eptr = "none"

\* The cancels that end the process.
Known ==
  \/ current = lost /\ obj[current] = "free"
  \/ current = self /\ (w = "make" \/ eptr = "other")

Pointer ==
  /\ current # Null /\ obj[current] = "free" => current = lost
  /\ w # "off" => current \in {Null, self}
  /\ w = "set" => current = Null
  /\ m = "crashed" => Known

PointerInv == ThreadInv /\ Statements /\ Pointer

\* The initial states satisfy the pointer invariant.
LEMMA PointerInit == LifecycleInit => PointerInv
<1> SUFFICES ASSUME LifecycleInit PROVE Statements /\ Pointer
  BY ThreadInit DEF PointerInv
<1> QED
  BY NullAssumption DEF LifecycleInit, Statements, Pointer

\* A cancel of an existing result that has a statement returns or throws.
LEMMA CancelExisting ==
  ASSUME current # Null => obj[current] # "free" /\ stmt[current] # "null"
  PROVE  /\ CancelOutcomes \subseteq {"ok", "throw"}
         /\ current = Null => CancelOutcomes = {"ok"}
BY DEF CancelOutcomes

\* Between calls a cancel returns or throws, as the current result is a live one, or it meets
\* the result that was lost.
LEMMA CancelIdle ==
  ASSUME PointerInv, m = "idle"
  PROVE  \/ CancelOutcomes \subseteq {"ok", "throw"}
         \/ CancelOutcomes = {"crash"} /\ current = lost /\ obj[current] = "free"
<1> USE NullAssumption DEF PointerInv, ThreadInv, Shape, Owner, Statements, Pointer
<1>1. CASE current # Null /\ obj[current] = "free"
  BY <1>1 DEF CancelOutcomes
<1>2. CASE current # Null => obj[current] # "free"
  <2>1. current # Null => obj[current] # "free" /\ stmt[current] # "null"
    BY <1>2
  <2> QED
    BY <2>1, CancelExisting
<1> QED
  BY <1>1, <1>2

\* A cancel while execute() runs: what it does follows from the statement of its result.
LEMMA CancelBuilding ==
  ASSUME PointerInv, w # "off"
  PROVE  /\ current = Null => CancelOutcomes = {"ok"}
         /\ stmt[self] # "null" => CancelOutcomes \subseteq {"ok", "throw"}
         /\ current # Null /\ stmt[self] = "null" => CancelOutcomes = {"crash"}
<1> USE NullAssumption DEF PointerInv, ThreadInv, Shape, Owner, Pointer
<1>1. current # Null => current = self /\ obj[current] # "free"
  OBVIOUS
<1>2. current = Null => CancelOutcomes = {"ok"}
  BY CancelExisting
<1>3. stmt[self] # "null" => CancelOutcomes \subseteq {"ok", "throw"}
  BY <1>1, CancelExisting
<1>4. current # Null /\ stmt[self] = "null" => CancelOutcomes = {"crash"}
  BY <1>1 DEF CancelOutcomes
<1> QED
  BY <1>2, <1>3, <1>4

\* Every step preserves the pointer invariant.
LEMMA PointerStep ==
  ASSUME PointerInv, [LifecycleNext]_lifecycleVars
  PROVE  PointerInv'
<1>0. ThreadInv'
  BY ThreadStep DEF PointerInv
<1> SUFFICES Statements' /\ Pointer'
  BY <1>0 DEF PointerInv
<1> USE NullAssumption
<1> USE DEF PointerInv, ThreadInv, Shape, Owner, MainAt, ExecAt, Statements, Pointer,
            connVars, threadVars
<1>1. CASE Connect
  BY <1>1 DEF Connect
<1>2. CASE Disconnect
  BY <1>2 DEF Disconnect, Release
<1>c. ASSUME Crash, Known PROVE Statements' /\ Pointer'
  BY <1>c DEF Crash, Known
<1>3. ASSUME NEW r \in Results, NewResult(r) PROVE Statements' /\ Pointer'
  <2>0. m = "idle"
    BY <1>3 DEF NewResult
  <2>1. CASE CancelOutcomes \subseteq {"ok", "throw"}
    <3>1. CASE /\ m = "idle" /\ obj[r] = "free" /\ current' = Null
               /\ obj' = [obj EXCEPT ![r] = "building"]
               /\ self' = r /\ w' = "set" /\ eptr' = "none"
               /\ m' \in {"wait", "exec"}
               /\ UNCHANGED stmt
      BY <3>1 DEF Known
    <3>2. CASE UNCHANGED lifecycleVars
      BY <3>2 DEF lifecycleVars, Known
    <3> QED
      BY <1>3, <2>1, <3>1, <3>2 DEF NewResult, AfterCancel
  <2>2. CASE CancelOutcomes = {"crash"} /\ current = lost /\ obj[current] = "free"
    BY <1>3, <2>2, <1>c DEF NewResult, Known
  <2> QED
    BY <2>0, <2>1, <2>2, CancelIdle
<1>4. ASSUME NEW r \in Results, BindList(r) PROVE Statements' /\ Pointer'
  BY <1>4 DEF BindList
<1>5. ASSUME NEW r \in Results, FetchError(r) PROVE Statements' /\ Pointer'
  <2>0. m = "idle"
    BY <1>5 DEF FetchError
  <2>1. CASE CancelOutcomes \subseteq {"ok", "throw"}
    <3>1. /\ m = "idle" /\ current' \in {Null, current}
          /\ UNCHANGED <<obj, stmt, self, m, w, eptr, lost>>
      BY <1>5, <2>1 DEF FetchError, AfterCancel
    <3> QED
      BY <3>1 DEF Known
  <2>2. CASE CancelOutcomes = {"crash"} /\ current = lost /\ obj[current] = "free"
    BY <1>5, <2>2, <1>c DEF FetchError, Known
  <2> QED
    BY <2>0, <2>1, <2>2, CancelIdle
<1>6. ASSUME NEW r \in Results, ClearResult(r) PROVE Statements' /\ Pointer'
  BY <1>6 DEF ClearResult, Release
<1>7. CASE ExecSet
  BY <1>7 DEF ExecSet, ExecStep
<1>8. CASE ExecMake
  BY <1>8 DEF ExecMake, ExecStep
<1>9. CASE ExecOpen
  BY <1>9 DEF ExecOpen, ExecStep, ExecError
<1>10. CASE ExecPrepare
  BY <1>10 DEF ExecPrepare, ExecStep, ExecError
<1>11. CASE ExecExecute
  BY <1>11 DEF ExecExecute, ExecStep, ExecError
<1>12. CASE ExecRaise
  BY <1>12 DEF ExecRaise, ExecStep
<1>13. CASE MainTimeout
  BY <1>13 DEF MainTimeout, MainStep
<1>14. CASE MainQuiet \/ MainTell \/ MainCancelNothing \/ MainClear
  BY <1>14 DEF MainQuiet, MainTell, MainInterrupt, MainTold, MainTellFails, MainCancelNothing,
               MainClear, MainStep
<1>15. CASE MainCancel
  <2>0. m = "cancel" /\ current = self
    BY <1>15 DEF MainCancel, MainStep
  <2>1. CASE stmt[self] # "null"
    BY <1>15, <2>0, <2>1, CancelBuilding DEF MainCancel, MainStep
  <2>2. CASE stmt[self] = "null"
    <3>1. Known
      BY <2>0, <2>2 DEF Known
    <3> QED
      BY <1>15, <2>0, <2>2, <3>1, <1>c, CancelBuilding DEF MainCancel
  <2> QED
    BY <2>1, <2>2
<1>16. CASE MainReturn
  BY <1>16 DEF MainReturn
<1>17. CASE MainCleanup
  <2>0. w = "ready"
    BY <1>17 DEF MainCleanup
  <2>1. CASE CancelOutcomes \subseteq {"ok", "throw"}
    BY <1>17, <2>0, <2>1 DEF MainCleanup, Unwind, AfterCancel
  <2>2. CASE current # Null /\ stmt[self] = "null"
    <3>1. Known
      BY <2>0, <2>2 DEF Known
    <3> QED
      BY <1>17, <2>0, <2>2, <3>1, <1>c, CancelBuilding DEF MainCleanup
  <2> QED
    BY <2>0, <2>1, <2>2, CancelBuilding
<1>18. CASE MainJoin
  BY <1>18 DEF MainJoin, Unwind
<1>19. CASE UNCHANGED lifecycleVars
  BY <1>19 DEF lifecycleVars, Known
<1> QED
  BY <1>1, <1>2, <1>3, <1>4, <1>5, <1>6, <1>7, <1>8, <1>9, <1>10, <1>11, <1>12, <1>13,
     <1>14, <1>15, <1>16, <1>17, <1>18, <1>19
  DEF LifecycleNext, RCall, Exec, MainWait, MainEnd

\* Whatever fails and however interrupts are timed, current_result_ dangles at no result but a
\* lost one: its constructor left run_interruptible() past cleanup_fn(), or SQLCancel failed there.
THEOREM PointerSafety == LifecycleSpec => []NoDanglingCurrent
<1>1. PointerInv /\ [LifecycleNext]_lifecycleVars => PointerInv'
  BY PointerStep
<1>2. PointerInv => NoDanglingCurrent
  BY DEF PointerInv, Pointer, NoDanglingCurrent
<1> QED
  BY PointerInit, <1>1, <1>2, PTL DEF LifecycleSpec

\* Whatever fails, cancel_current_result() meets a null or freed statement in two places only:
\* at such a lost result, and at a result that has no statement yet, or no memory for one.
THEOREM CrashFreedom == LifecycleSpec => []NoOtherCrash
<1>1. PointerInv /\ [LifecycleNext]_lifecycleVars => PointerInv'
  BY PointerStep
<1>2. PointerInv => NoOtherCrash
  BY DEF PointerInv, Pointer, Known, NeverCrashes, NoOtherCrash
<1> QED
  BY PointerInit, <1>1, <1>2, PTL DEF LifecycleSpec

-----------------------------------------------------------------------------
(***************************************************************************)
(* The shared_ptr<odbc_connection>: its use count is R's pointer and the   *)
(* results that exist, so the connection closes when the last of them goes.*)
(***************************************************************************)
Flags ==
  /\ cptr \in BOOLEAN
  /\ hdbc \in BOOLEAN
  /\ async \in BOOLEAN
  /\ bound \in [Results -> BOOLEAN]
  /\ hit \in BOOLEAN
  /\ caught \in BOOLEAN

Held(x) == {r \in Results : x[r] # "free"}
Count(x) == Cardinality(Held(x))
Lives == [Results -> {"free", "building", "live"}]

Counted ==
  /\ uses = (IF cptr THEN 1 ELSE 0) + Count(obj)
  /\ hdbc <=> uses > 0
  /\ \A r \in Results : obj[r] = "free" => stmt[r] = "null"

UseInv == ThreadInv /\ Flags /\ Counted

\* The number of results that exist is a natural number, zero when there are none.
LEMMA CountNat ==
  ASSUME NEW x \in Lives
  PROVE  Count(x) \in Nat /\ (Count(x) = 0 <=> Held(x) = {})
<1>1. IsFiniteSet(Held(x))
  BY ResultsAssumption, FS_Subset DEF Held
<1> QED
  BY <1>1, FS_CardinalityType, FS_EmptySet DEF Count

\* Constructing a result at a free address adds one.
LEMMA CountAdd ==
  ASSUME NEW x \in Lives, NEW r \in Results, x[r] = "free", NEW v \in {"building", "live"}
  PROVE  Count([x EXCEPT ![r] = v]) = Count(x) + 1
<1>1. IsFiniteSet(Held(x)) /\ r \notin Held(x)
  BY ResultsAssumption, FS_Subset DEF Held
<1>2. Held([x EXCEPT ![r] = v]) = Held(x) \cup {r}
  BY DEF Held, Lives
<1> QED
  BY <1>1, <1>2, FS_AddElement DEF Count

\* Destroying a result takes one away.
LEMMA CountRemove ==
  ASSUME NEW x \in Lives, NEW r \in Results, x[r] # "free"
  PROVE  Count([x EXCEPT ![r] = "free"]) = Count(x) - 1
<1>1. IsFiniteSet(Held(x)) /\ r \in Held(x)
  BY ResultsAssumption, FS_Subset DEF Held
<1>2. Held([x EXCEPT ![r] = "free"]) = Held(x) \ {r}
  BY DEF Held, Lives
<1> QED
  BY <1>1, <1>2, FS_RemoveElement DEF Count

\* A constructor that returns changes nothing in the count.
LEMMA CountKeep ==
  ASSUME NEW x \in Lives, NEW r \in Results, x[r] # "free"
  PROVE  Count([x EXCEPT ![r] = "live"]) = Count(x)
<1>1. Held([x EXCEPT ![r] = "live"]) = Held(x)
  BY DEF Held, Lives
<1> QED
  BY <1>1 DEF Count

\* The Boolean members stay Boolean.
LEMMA FlagsStep == ThreadInv /\ Flags /\ [LifecycleNext]_lifecycleVars => Flags'
<1> SUFFICES ASSUME ThreadInv, Flags, [LifecycleNext]_lifecycleVars PROVE Flags'
  OBVIOUS
<1>b. (uses > 1) \in BOOLEAN
  OBVIOUS
<1>e. \A r, v : v \in BOOLEAN => [bound EXCEPT ![r] = v] \in [Results -> BOOLEAN]
  BY DEF Flags
<1> USE DEF Flags, connVars, threadVars
<1>1. CASE Connect
  BY <1>1, ModesAssumption, Zenon DEF Connect
<1>2. CASE Disconnect
  BY <1>2, <1>b, Zenon DEF Disconnect, Release
<1>3. ASSUME NEW r \in Results, NewResult(r) PROVE Flags'
  BY <1>3 DEF NewResult, Crash, lifecycleVars
<1>4. ASSUME NEW r \in Results, BindList(r) PROVE Flags'
  BY <1>4 DEF BindList
<1>5. ASSUME NEW r \in Results, FetchError(r) PROVE Flags'
  BY <1>5 DEF FetchError, Crash
<1>6. ASSUME NEW r \in Results, ClearResult(r) PROVE Flags'
  BY <1>6, <1>b, <1>e, Zenon DEF ClearResult, Release
<1>7. CASE ExecSet
  BY <1>7 DEF ExecSet, ExecStep
<1>8. CASE ExecMake
  BY <1>8 DEF ExecMake, ExecStep
<1>9. CASE ExecOpen
  BY <1>9 DEF ExecOpen, ExecStep, ExecError
<1>10. CASE ExecPrepare
  BY <1>10 DEF ExecPrepare, ExecStep, ExecError
<1>11. CASE ExecExecute
  BY <1>11 DEF ExecExecute, ExecStep, ExecError
<1>12. CASE ExecRaise
  BY <1>12 DEF ExecRaise, ExecStep
<1>13. CASE MainTimeout \/ MainQuiet \/ MainTell \/ MainCancelNothing \/ MainClear
  BY <1>13 DEF MainTimeout, MainQuiet, MainTell, MainInterrupt, MainTold, MainTellFails,
                MainCancelNothing, MainClear, MainStep
<1>14. CASE MainCancel
  BY <1>14 DEF MainCancel, MainStep, Crash
<1>15. CASE MainReturn
  BY <1>15 DEF MainReturn
<1>16. CASE MainCleanup
  <2>1. CASE Unwind
    BY <2>1, <1>b, <1>e, Zenon DEF Unwind, Release
  <2>2. CASE Crash
    BY <2>2 DEF Crash
  <2> QED
    BY <1>16, <2>1, <2>2 DEF MainCleanup
<1>17. CASE MainJoin
  BY <1>17, <1>b, <1>e, Zenon DEF MainJoin, Unwind, Release
<1>18. CASE UNCHANGED lifecycleVars
  BY <1>18 DEF lifecycleVars
<1> QED
  BY <1>1, <1>2, <1>3, <1>4, <1>5, <1>6, <1>7, <1>8, <1>9, <1>10, <1>11, <1>12, <1>13,
     <1>14, <1>15, <1>16, <1>17, <1>18
  DEF LifecycleNext, RCall, Exec, MainWait, MainEnd

\* The last holder closes the connection: dropping one reference keeps the use count and
\* the connection's state in step.
LEMMA ReleaseCounted ==
  ASSUME UseInv, Release, uses > 0,
         uses' = (IF cptr' THEN 1 ELSE 0) + Count(obj'),
         \A r \in Results : obj'[r] = "free" => stmt'[r] = "null"
  PROVE  Counted'
<1>1. uses \in Int /\ uses' = uses - 1 /\ hdbc' = (uses > 1)
  BY DEF UseInv, ThreadInv, Shape, Release
<1>2. hdbc' <=> uses' > 0
  <2>1. (uses > 1) <=> (uses - 1 > 0)
    BY <1>1
  <2>2. hdbc' <=> (uses > 1)
    BY <1>1, Zenon
  <2> QED
    BY <1>1, <2>1, <2>2, Zenon
<1> QED
  BY <1>2 DEF Counted

\* Every step keeps the use count exact.
LEMMA CountedStep == UseInv /\ [LifecycleNext]_lifecycleVars => Counted'
<1> SUFFICES ASSUME UseInv, [LifecycleNext]_lifecycleVars PROVE Counted'
  OBVIOUS
<1> USE NullAssumption
<1>t. /\ obj \in Lives /\ obj \in [Results -> {"free", "building", "live"}]
      /\ stmt \in [Results -> {"null", "new", "open"}]
      /\ uses \in Int /\ Count(obj) \in Nat
      /\ \A r \in Results : obj[r] = "building" <=> r = self
      /\ w # "off" <=> self # Null
      /\ self \in Results \cup {Null}
      /\ m \notin {"idle", "crashed"} => w # "off"
  BY CountNat DEF UseInv, ThreadInv, Shape, Owner, Lives
<1>c. /\ uses = (IF cptr THEN 1 ELSE 0) + Count(obj)
      /\ hdbc <=> uses > 0
      /\ \A r \in Results : obj[r] = "free" => stmt[r] = "null"
  BY DEF UseInv, Counted
<1>0. CASE UNCHANGED <<connVars, obj, stmt>>
  BY <1>0, <1>c DEF Counted, connVars
<1>1. CASE Connect
  BY <1>1, <1>t, <1>c DEF Connect, Counted
<1>2. CASE Disconnect
  <2>1. uses > 0 /\ uses' = (IF cptr' THEN 1 ELSE 0) + Count(obj')
    BY <1>2, <1>t, <1>c DEF Disconnect, Release
  <2> QED
    BY <1>2, <1>c, <2>1, ReleaseCounted DEF Disconnect
<1>3. ASSUME NEW r \in Results, NewResult(r) PROVE Counted'
  <2>1. CASE UNCHANGED lifecycleVars
    BY <2>1, <1>0 DEF lifecycleVars, connVars
  <2>2. CASE Crash
    BY <2>2, <1>0 DEF Crash
  <2>3. CASE /\ cptr /\ obj[r] = "free" /\ obj' = [obj EXCEPT ![r] = "building"]
             /\ uses' = uses + 1 /\ UNCHANGED <<cptr, hdbc, stmt>>
    <3>1. Count(obj') = Count(obj) + 1
      BY <2>3, <1>t, CountAdd
    <3> QED
      BY <2>3, <3>1, <1>t, <1>c DEF Counted
  <2> QED
    BY <1>3, <2>1, <2>2, <2>3 DEF NewResult
<1>4. ASSUME NEW r \in Results, BindList(r) PROVE Counted'
  BY <1>4, <1>0 DEF BindList
<1>5. ASSUME NEW r \in Results, FetchError(r) PROVE Counted'
  BY <1>5, <1>0 DEF FetchError, Crash
<1>6. ASSUME NEW r \in Results, ClearResult(r) PROVE Counted'
  <2>1. Count(obj') = Count(obj) - 1 /\ Count(obj') \in Nat
    BY <1>6, <1>t, CountRemove, CountNat DEF ClearResult, Lives
  <2>2. uses > 0 /\ uses' = (IF cptr' THEN 1 ELSE 0) + Count(obj')
    BY <1>6, <2>1, <1>t, <1>c DEF ClearResult, Release
  <2>3. \A q \in Results : obj'[q] = "free" => stmt'[q] = "null"
    BY <1>6, <1>t, <1>c DEF ClearResult
  <2> QED
    BY <1>6, <2>2, <2>3, ReleaseCounted DEF ClearResult
<1>7. CASE Exec
  <2>1. UNCHANGED <<connVars, obj>> /\ w # "off"
    BY <1>7 DEF Exec, ExecSet, ExecMake, ExecOpen, ExecPrepare, ExecExecute, ExecRaise,
                ExecStep, ExecError
  <2>2. stmt' = stmt \/ \E v : stmt' = [stmt EXCEPT ![self] = v]
    BY <1>7 DEF Exec, ExecSet, ExecMake, ExecOpen, ExecPrepare, ExecExecute, ExecRaise
  <2>3. \A q \in Results : obj[q] = "free" => stmt'[q] = "null"
    BY <2>1, <2>2, <1>t, <1>c
  <2> QED
    BY <2>1, <2>3, <1>c DEF Counted, connVars
<1>8. CASE MainWait
  BY <1>8, <1>0 DEF MainWait, MainTimeout, MainQuiet, MainTell, MainInterrupt, MainTold,
                    MainTellFails, MainCancelNothing, MainCancel, MainClear, MainStep, Crash
<1>9. CASE MainReturn
  <2>1. self \in Results /\ obj[self] = "building"
    BY <1>9, <1>t DEF MainReturn
  <2>2. Count(obj') = Count(obj)
    BY <1>9, <2>1, <1>t, CountKeep DEF MainReturn
  <2>3. UNCHANGED <<cptr, uses, hdbc, stmt>> /\ obj' = [obj EXCEPT ![self] = "live"]
    BY <1>9 DEF MainReturn, connVars
  <2>4. \A q \in Results : obj'[q] = "free" => stmt'[q] = "null"
    BY <2>3, <1>t, <1>c
  <2> QED
    BY <2>2, <2>3, <2>4, <1>c DEF Counted
<1>10. ASSUME Unwind, w # "off" PROVE Counted'
  <2>1. self \in Results /\ obj[self] = "building"
    BY <1>10, <1>t
  <2>2. Count(obj') = Count(obj) - 1 /\ Count(obj') \in Nat
    BY <1>10, <2>1, <1>t, CountRemove, CountNat DEF Unwind, Lives
  <2>3. uses > 0 /\ uses' = (IF cptr' THEN 1 ELSE 0) + Count(obj')
    BY <1>10, <2>2, <1>t, <1>c DEF Unwind, Release
  <2>4. \A q \in Results : obj'[q] = "free" => stmt'[q] = "null"
    BY <1>10, <1>t, <1>c DEF Unwind
  <2> QED
    BY <1>10, <2>3, <2>4, ReleaseCounted DEF Unwind
<1>11. CASE MainCleanup
  BY <1>11, <1>10, <1>0, <1>t DEF MainCleanup, Crash
<1>12. CASE MainJoin
  BY <1>12, <1>10, <1>t DEF MainJoin
<1>13. CASE UNCHANGED lifecycleVars
  BY <1>13, <1>0 DEF lifecycleVars, connVars
<1> QED
  BY <1>1, <1>2, <1>3, <1>4, <1>5, <1>6, <1>7, <1>8, <1>9, <1>11, <1>12, <1>13
  DEF LifecycleNext, RCall, MainEnd

\* LifecycleSpec implies the counting invariant.
LEMMA UseAlways == LifecycleSpec => []UseInv
<1>1. LifecycleInit => UseInv
  <2> SUFFICES ASSUME LifecycleInit PROVE Flags /\ Counted
    BY ThreadInit DEF UseInv
  <2>1. Flags
    BY ModesAssumption, Zenon DEF LifecycleInit, Flags
  <2>2. Held(obj) = {}
    BY DEF LifecycleInit, Held
  <2>3. Count(obj) = 0
    BY <2>2, FS_EmptySet DEF Count
  <2>4. Counted
    BY <2>3 DEF LifecycleInit, Counted
  <2> QED
    BY <2>1, <2>4
<1>2. UseInv /\ [LifecycleNext]_lifecycleVars => UseInv'
  BY ThreadStep, FlagsStep, CountedStep DEF UseInv
<1> QED
  BY <1>1, <1>2, PTL DEF LifecycleSpec

\* The state always has its type; in particular the use count is never negative.
THEOREM TypeCorrect == LifecycleSpec => []LifecycleTypeOK
<1>1. UseInv => LifecycleTypeOK
  <2> SUFFICES ASSUME UseInv PROVE LifecycleTypeOK
    OBVIOUS
  <2>1. uses \in Nat
    BY CountNat DEF UseInv, ThreadInv, Shape, Counted, Lives
  <2> QED
    BY <2>1, Zenon DEF UseInv, ThreadInv, Shape, Flags, LifecycleTypeOK
<1> QED
  BY UseAlways, <1>1, PTL

\* The connection is open exactly as long as R's pointer or a result refers to it, and no
\* statement handle outlives it, whatever fails or is interrupted.
THEOREM ConnectionLifetime == LifecycleSpec => []ConnectionOutlivesStatements
<1>1. UseInv => ConnectionOutlivesStatements
  <2> SUFFICES ASSUME UseInv PROVE ConnectionOutlivesStatements
    OBVIOUS
  <2>1. Count(obj) \in Nat /\ (Count(obj) = 0 <=> Held(obj) = {})
    BY CountNat DEF UseInv, ThreadInv, Shape, Lives
  <2>2. hdbc <=> (cptr \/ Held(obj) # {})
    BY <2>1 DEF UseInv, Counted
  <2>3. \A r \in Results : stmt[r] = "open" => obj[r] # "free"
    BY DEF UseInv, Counted
  <2> QED
    BY <2>2, <2>3 DEF Held, ConnectionOutlivesStatements
<1> QED
  BY UseAlways, <1>1, PTL

-----------------------------------------------------------------------------
(***************************************************************************)
(* What a step may never do to the current result.                         *)
(***************************************************************************)

\* A live result that is not current never becomes current: only execute() registers a
\* result, and only while it is being built.
THEOREM Revalidation == LifecycleSpec => NeverRevalidated
<1>1. ASSUME ThreadInv, [LifecycleNext]_lifecycleVars, NEW r \in Results,
             obj[r] = "live", obj'[r] = "live", current # r, current' = r
      PROVE  FALSE
  <2>1. current' \notin {current, Null}
    BY <1>1, NullAssumption
  <2>2. ExecSet
    BY <1>1, <2>1 DEF LifecycleNext, RCall, Exec, MainWait, MainEnd, Connect, Disconnect, NewResult,
         BindList, FetchError, ClearResult, ExecMake, ExecOpen, ExecPrepare, ExecExecute,
         ExecRaise, MainTimeout, MainQuiet, MainTell, MainInterrupt, MainTold, MainTellFails,
         MainCancelNothing, MainCancel,
         MainClear, MainReturn, MainCleanup, MainJoin, AfterCancel, Crash, lifecycleVars
  <2>3. obj[r] = "building"
    BY <1>1, <2>2 DEF ExecSet, ThreadInv, Owner
  <2> QED
    BY <1>1, <2>3
<1>2. ThreadInv /\ [LifecycleNext]_lifecycleVars =>
        [\A r \in Results : obj[r] = "live" /\ obj'[r] = "live" /\ current # r => current' # r]_lifecycleVars
  BY <1>1
<1> QED
  BY ThreadInit, ThreadStep, <1>2, PTL DEF LifecycleSpec, NeverRevalidated

\* Until an interrupt is caught, the result that execute() registered stays current.
Registered ==
  /\ m \in {"tell", "cancel", "clear"} => caught
  /\ w \notin {"off", "set"} /\ ~caught => current = self

\* Every step preserves the registration.
LEMMA RegisteredStep == ThreadInv /\ Registered /\ [LifecycleNext]_lifecycleVars => Registered'
<1> SUFFICES ASSUME ThreadInv, Registered, [LifecycleNext]_lifecycleVars PROVE Registered'
  OBVIOUS
<1> USE DEF ThreadInv, Shape, Owner, Registered, connVars, threadVars
<1>1. CASE Connect \/ Disconnect
  BY <1>1 DEF Connect, Disconnect
<1>2. ASSUME NEW r \in Results, NewResult(r) PROVE Registered'
  BY <1>2 DEF NewResult, Crash, lifecycleVars
<1>3. ASSUME NEW r \in Results, BindList(r) \/ FetchError(r) \/ ClearResult(r)
      PROVE  Registered'
  BY <1>3 DEF BindList, FetchError, ClearResult, Crash
<1>4. CASE ExecSet
  BY <1>4 DEF ExecSet, ExecStep
<1>5. CASE ExecMake \/ ExecOpen \/ ExecPrepare \/ ExecExecute \/ ExecRaise
  BY <1>5 DEF ExecMake, ExecOpen, ExecPrepare, ExecExecute, ExecRaise, ExecStep, ExecError
<1>6. CASE MainTimeout \/ MainQuiet \/ MainTell \/ MainCancelNothing \/ MainClear
  BY <1>6 DEF MainTimeout, MainQuiet, MainTell, MainInterrupt, MainTold, MainTellFails,
                MainCancelNothing, MainClear, MainStep
<1>7. CASE MainCancel
  <2>1. m = "cancel" /\ UNCHANGED <<current, self, w>> /\ caught' = caught
    BY <1>7, Zenon DEF MainCancel, MainStep, Crash
  <2> QED
    BY <2>1
<1>8. CASE MainReturn
  BY <1>8 DEF MainReturn
<1>9. CASE MainCleanup \/ MainJoin
  BY <1>9 DEF MainCleanup, MainJoin, Unwind, Crash
<1>10. CASE UNCHANGED lifecycleVars
  BY <1>10 DEF lifecycleVars
<1> QED
  BY <1>1, <1>2, <1>3, <1>4, <1>5, <1>6, <1>7, <1>8, <1>9, <1>10
  DEF LifecycleNext, RCall, Exec, MainWait, MainEnd

\* A constructor that returns without having caught an interrupt returns the current
\* result, whatever else fails.
THEOREM Registration == LifecycleSpec => ReturnsCurrent
<1>1. LifecycleInit => Registered
  BY DEF LifecycleInit, Registered
<1>2. ASSUME ThreadInv, Registered, [LifecycleNext]_lifecycleVars, NEW r \in Results,
             obj[r] = "building", obj'[r] = "live", ~caught
      PROVE  current' = r
  <2>1. r = self /\ self \in Results /\ obj \in [Results -> {"free", "building", "live"}]
    BY <1>2 DEF ThreadInv, Owner, Shape
  <2>2. MainReturn
    BY <1>2, <2>1 DEF LifecycleNext, RCall, Exec, MainWait, MainEnd, Connect, Disconnect, NewResult,
         BindList, FetchError, ClearResult, ExecSet, ExecMake, ExecOpen, ExecPrepare,
         ExecExecute, ExecRaise, ExecStep, ExecError, MainTimeout, MainQuiet, MainTell, MainInterrupt,
         MainTold, MainTellFails, MainCancelNothing, MainCancel, MainClear, MainStep, MainCleanup, MainJoin, Unwind,
         Crash, lifecycleVars
  <2> QED
    BY <1>2, <2>1, <2>2 DEF MainReturn, Registered
<1>3. ThreadInv /\ Registered /\ [LifecycleNext]_lifecycleVars =>
        [\A r \in Results : obj[r] = "building" /\ obj'[r] = "live" /\ ~caught
                              => current' = r]_lifecycleVars
  BY <1>2
<1> QED
  BY ThreadInit, ThreadStep, <1>1, RegisteredStep, <1>3, PTL DEF LifecycleSpec, ReturnsCurrent

-----------------------------------------------------------------------------
(* A statement can be bound again *)

\* A table is open only while its columns are bound, or after a failure.
OpenOK ==
  /\ error = "open table" => broken
  /\ open_tvp /\ ~broken => phase = "table"

\* Every step keeps OpenOK.
LEMMA OpenStep == OpenOK /\ [Next]_vars => OpenOK'
<1> SUFFICES ASSUME OpenOK, [Next]_vars PROVE OpenOK'
  OBVIOUS
<1> USE DEF OpenOK
<1>1. ASSUME NEW ps \in SUBSET Params, DescribeParameters(ps) PROVE OpenOK'
  BY <1>1 DEF DescribeParameters
<1>2. ASSUME NEW c \in Calls, BindCall(c) PROVE OpenOK'
  BY <1>2 DEF BindCall
<1>3. CASE BatchBegin
  BY <1>3 DEF BatchBegin
<1>4. CASE BatchesDone
  BY <1>4 DEF BatchesDone, Return
<1>5. CASE BindColumn
  BY <1>5 DEF BindColumn
<1>6. CASE BindColumnFails
  BY <1>6 DEF BindColumnFails, Return, AtVector
<1>7. CASE OpenTvp
  BY <1>7 DEF OpenTvp
<1>8. CASE OpenTvpRefused
  BY <1>8 DEF OpenTvpRefused, Return, AtTable
<1>9. CASE OpenTvpFails
  BY <1>9 DEF OpenTvpFails, Return
<1>10. CASE TvpColumn
  BY <1>10 DEF TvpColumn
<1>11. CASE TvpColumnFails
  BY <1>11 DEF TvpColumnFails, TvpUnwinds, Return
<1>12. CASE TvpClose
  BY <1>12 DEF TvpClose
<1>13. CASE TvpCloseFails
  BY <1>13 DEF TvpCloseFails, TvpUnwinds, Return
<1>14. CASE Execute
  BY <1>14 DEF Execute
<1>15. CASE ExecuteFails
  BY <1>15 DEF ExecuteFails, Return
<1>16. CASE UNCHANGED vars
  BY <1>16 DEF vars
<1> QED
  BY <1>1, <1>2, <1>3, <1>4, <1>5, <1>6, <1>7, <1>8, <1>9, <1>10, <1>11, <1>12, <1>13, <1>14,
     <1>15, <1>16 DEF Next

\* A statement can be bound again after any failure that left no table open, and refuses a
\* data frame because a table is open only after one that did.
THEOREM StatementReusable == Spec => []ReusableUnlessBroken
<1>1. Init => OpenOK
  BY DEF Init, OpenOK
<1>2. OpenOK => ReusableUnlessBroken
  BY DEF OpenOK, ReusableUnlessBroken
<1> QED
  BY <1>1, <1>2, OpenStep, PTL DEF Spec

-----------------------------------------------------------------------------
(* Types *)

Binding == [value : Buffers, len : Buffers]

\* bind_list() works on a call of the right number of parameters; the table that is bound is
\* that of a parameter.
CallOK ==
  /\ phase \in {"batch", "column", "table"} =>
       call \in Calls /\ Len(call.x) = Len(sqlTypes) /\ binds > 0
  /\ phase \in {"column", "table"} => start < ParameterRows(call.x)
  /\ phase = "table" => col \in Params /\ call.x[col].type = "dataframe"
  /\ binds = 0 => tvps = {}

TypeInv == TypeOK /\ apd \in [Places -> Binding] /\ CallOK

\* The parameters of a query are numbered from one.
LEMMA ParamsType ==
  ASSUME sqlTypes \in ParamTypes
  PROVE  /\ Params = 1 .. Len(sqlTypes) /\ Len(sqlTypes) \in Nat \ {0}
         /\ \A p \in Params : sqlTypes[p] \in SqlTypes
BY ParamTypesAssumption DEF Params

\* What a call holds.
LEMMA CallType ==
  ASSUME NEW c \in Calls
  PROVE  /\ c.batch_rows \in Nat \ {0} /\ DOMAIN c.x = 1 .. Len(c.x) /\ Len(c.x) \in Nat
         /\ \A p \in DOMAIN c.x : IsVector(c.x[p]) \/ IsTable(c.x[p])
BY CallsAssumption DEF IsList

\* A vector is not a data frame.
LEMMA VectorType ==
  ASSUME NEW v, IsVector(v) \/ IsTable(v)
  PROVE  /\ v.type # "dataframe" <=> IsVector(v)
         /\ v.type = "dataframe" <=> IsTable(v)
         /\ Rows(v) \in Nat
         /\ IsTable(v) => /\ DOMAIN v.cols = 1 .. Len(v.cols) /\ Len(v.cols) \in Nat
                          /\ 1 \in DOMAIN v.cols
                          /\ \A c \in DOMAIN v.cols : /\ IsVector(v.cols[c])
                                                     /\ Len(v.cols[c].vals) = Rows(v)
<1>1. IsVector(v) => v.type # "dataframe" /\ Rows(v) \in Nat
  BY DEF IsVector, VectorTypes, Rows
<1>2. ASSUME IsTable(v)
      PROVE  /\ v.type = "dataframe" /\ DOMAIN v.cols = 1 .. Len(v.cols) /\ Len(v.cols) \in Nat
             /\ 1 \in DOMAIN v.cols
             /\ \A c \in DOMAIN v.cols : IsVector(v.cols[c]) /\ Len(v.cols[c].vals) = Rows(v)
  <2>1. DOMAIN v.cols = 1 .. Len(v.cols) /\ Len(v.cols) \in Nat /\ Len(v.cols) > 0
    BY <1>2 DEF IsTable, IsList
  <2>2. 1 \in DOMAIN v.cols
    BY <2>1
  <2> QED
    BY <1>2, <2>1, <2>2 DEF IsTable, Rows
<1>3. IsTable(v) => Rows(v) \in Nat
  <2> SUFFICES ASSUME IsTable(v) PROVE Rows(v) \in Nat
    OBVIOUS
  <2>1. IsVector(v.cols[1]) /\ Len(v.cols[1].vals) = Rows(v)
    BY <1>2
  <2> QED
    BY <2>1 DEF IsVector
<1> QED
  BY <1>1, <1>2, <1>3

\* A nonempty set of numbers has a least one.
LEMMA LeastNumber ==
  ASSUME NEW S \in SUBSET Nat, S # {}
  PROVE  \E x \in S : \A y \in S : x <= y
<1>1. PICK x \in S : \A y \in S : ~(<<y, x>> \in OpToRel(<, Nat))
  BY WFMin, NatLessThanWellFounded
<1> DEFINE R == {p \in Nat \X Nat : p[1] < p[2]}
<1>2. OpToRel(<, Nat) = R
  BY Zenon DEF OpToRel
<1>3. \A y \in S : ~(<<y, x>> \in R)
  BY <1>1, <1>2, Zenon
<1>4. ASSUME NEW y \in S, ~(x <= y) PROVE FALSE
  <2>1. y \in Nat /\ x \in Nat /\ y < x
    BY <1>4
  <2>2. <<y, x>> \in R
    BY <2>1
  <2> QED
    BY <1>3, <2>2
<1> QED
  BY <1>4

\* get_parameter_rows() is a number.
LEMMA ParameterRowsType ==
  ASSUME NEW c \in Calls
  PROVE  ParameterRows(c.x) \in Nat
<1> DEFINE vectors == {p \in DOMAIN c.x : c.x[p].type # "dataframe"}
<1>1. CASE vectors = {}
  BY <1>1 DEF ParameterRows
<1>2. CASE vectors # {}
  <2>1. vectors \in SUBSET Nat
    BY CallType
  <2>2. \E p \in vectors : \A q \in vectors : p <= q
    BY <1>2, <2>1, LeastNumber
  <2> DEFINE f == CHOOSE p \in vectors : \A q \in vectors : p <= q
  <2>3. f \in vectors
    BY <2>2
  <2>4. IsVector(c.x[f])
    BY <2>3, CallType, VectorType
  <2>5. ParameterRows(c.x) = Len(c.x[f].vals)
    BY <1>2 DEF ParameterRows
  <2> QED
    BY <2>4, <2>5 DEF IsVector
<1> QED
  BY <1>1, <1>2

\* Every batch but the last has batch_rows rows.
LEMMA BatchSizeType ==
  ASSUME call \in Calls, start \in Nat, start < ParameterRows(call.x)
  PROVE  /\ BatchSize \in Nat /\ BatchSize > 0
         /\ BatchSize = call.batch_rows \/ start + BatchSize = ParameterRows(call.x)
         /\ start + BatchSize <= ParameterRows(call.x) /\ BatchSize <= call.batch_rows
<1>1. ParameterRows(call.x) \in Nat /\ call.batch_rows \in Nat \ {0}
  BY ParameterRowsType, CallType
<1> QED
  BY <1>1 DEF BatchSize

\* Buffers made of an owner and its data.
LEMMA BufferType ==
  ASSUME NEW k \in Kinds, NEW p \in Params \cup {0}, NEW d \in Seq(Int)
  PROVE  [owner |-> <<k, p>>, data |-> d] \in Buffers
BY DEF Buffers

\* What a buffer is.
LEMMA BufferParts ==
  ASSUME NEW b \in Buffers
  PROVE  /\ b.data \in Seq(Int) /\ b.owner[1] \in Kinds /\ b.owner[2] \in Params \cup {0}
         /\ b.owner = <<b.owner[1], b.owner[2]>>
BY DEF Buffers

LEMMA FreedType == Freed \in Buffers /\ NullPointer \in Buffers /\ Unbound \in Binding
<1>1. "freed" \in Kinds /\ "null pointer" \in Kinds /\ 0 \in Params \cup {0} /\ <<>> \in Seq(Int)
  BY DEF Kinds
<1>2. Freed \in Buffers /\ NullPointer \in Buffers
  BY <1>1, BufferType DEF Freed, NullPointer
<1> QED
  BY <1>2 DEF Unbound, Binding

\* Freeing the memory of some owners replaces exactly the pointers to it.
LEMMA FreeType ==
  ASSUME NEW a \in [Places -> Binding], NEW owners
  PROVE  /\ Free(a, owners) \in [Places -> Binding]
         /\ \A q \in Places :
              /\ Free(a, owners)[q].value =
                   IF a[q].value.owner \in owners THEN Freed ELSE a[q].value
              /\ Free(a, owners)[q].len = IF a[q].len.owner \in owners THEN Freed ELSE a[q].len
              /\ a[q].value.owner \notin owners /\ a[q].len.owner \notin owners =>
                   Free(a, owners)[q] = a[q]
<1> DEFINE After(b) == IF b.owner \in owners THEN Freed ELSE b
<1>1. Free(a, owners) = [q \in Places |-> [value |-> After(a[q].value), len |-> After(a[q].len)]]
  BY DEF Free
<1>2. ASSUME NEW q \in Places
      PROVE  /\ Free(a, owners)[q] \in Binding
             /\ Free(a, owners)[q].value = After(a[q].value)
             /\ Free(a, owners)[q].len = After(a[q].len)
             /\ a[q].value.owner \notin owners /\ a[q].len.owner \notin owners =>
                  Free(a, owners)[q] = a[q]
  <2>1. a[q] \in Binding /\ a[q].value \in Buffers /\ a[q].len \in Buffers
    BY DEF Binding
  <2>2. After(a[q].value) \in Buffers /\ After(a[q].len) \in Buffers
    BY <2>1, FreedType
  <2>3. Free(a, owners)[q] = [value |-> After(a[q].value), len |-> After(a[q].len)]
    BY <1>1
  <2>4. a[q] = [value |-> a[q].value, len |-> a[q].len]
    BY <2>1 DEF Binding
  <2> HIDE DEF After
  <2>5. Free(a, owners)[q] \in Binding
    BY <2>2, <2>3 DEF Binding
  <2>6. a[q].value.owner \notin owners /\ a[q].len.owner \notin owners =>
          After(a[q].value) = a[q].value /\ After(a[q].len) = a[q].len
    BY DEF After
  <2> QED
    BY <2>3, <2>4, <2>5, <2>6
<1>3. Free(a, owners) \in [Places -> Binding]
  <2>1. DOMAIN Free(a, owners) = Places
    BY <1>1
  <2> HIDE DEF After
  <2> QED
    BY <1>1, <1>2, <2>1
<1> QED
  BY <1>2, <1>3

\* The slices and flags that are bound are sequences of numbers.
LEMMA SliceType ==
  ASSUME NEW v, IsVector(v), NEW from \in Nat, NEW n \in Nat
  PROVE  /\ Stored(v, from, n) \in Seq(Int)
         /\ \A f \in NullFlags(v, from, n) : f \in [1 .. n -> BOOLEAN] /\ LenOrNull(f) \in Seq(Int)
<1>1. \A i \in Int : At(v, i) \in Int
  BY DEF At, IsVector, Garbage
<1>2. \A i \in 1 .. n : (IF At(v, from + i) = Missing THEN Garbage ELSE At(v, from + i)) \in Int
  BY <1>1 DEF Garbage
<1>3. Stored(v, from, n) \in [1 .. n -> Int]
  BY <1>2 DEF Stored
<1>4. ASSUME NEW f \in NullFlags(v, from, n) PROVE f \in [1 .. n -> BOOLEAN]
  <2>1. CASE v.type = "datetime_int"
    BY <1>4, <2>1 DEF NullFlags
  <2>2. CASE v.type = "date_int"
    BY <1>4, <2>2 DEF NullFlags
  <2>3. CASE v.type \notin {"datetime_int", "date_int"}
    <3>1. f = [i \in 1 .. n |-> At(v, from + i) = Missing]
      BY <1>4, <2>3 DEF NullFlags
    <3> QED
      BY <3>1
  <2> QED
    BY <2>1, <2>2, <2>3
<1>5. ASSUME NEW f \in [1 .. n -> BOOLEAN] PROVE LenOrNull(f) \in [1 .. n -> Int]
  BY DEF LenOrNull, Missing
<1>6. \A g \in [1 .. n -> Int] : g \in Seq(Int)
  OBVIOUS
<1> QED
  BY <1>3, <1>4, <1>5, <1>6

\* The owners of the memory of a parameter and of the columns of a table.
LEMMA HolderType ==
  ASSUME NEW t, NEW p \in Params
  PROVE  /\ Holder(t, p)[1] \in Kinds /\ TvpImpl(p)[1] \in Kinds /\ TvpHolder(t, p)[1] \in Kinds
         /\ Holder(t, p) = <<Holder(t, p)[1], p>> /\ TvpImpl(p) = <<TvpImpl(p)[1], p>>
         /\ TvpHolder(t, p) = <<TvpHolder(t, p)[1], p>>
         /\ Holder(t, p)[2] = p /\ TvpImpl(p)[2] = p /\ TvpHolder(t, p)[2] = p
         /\ Holder(t, p)[1] # "freed" /\ TvpImpl(p)[1] # "freed" /\ TvpHolder(t, p)[1] # "freed"
         /\ Holder(t, p)[1] # "table on the stack" /\ TvpImpl(p)[1] # "null pointer"
         /\ p \notin temporary => /\ TvpImpl(p)[1] # "table on the stack"
                                  /\ TvpHolder(t, p)[1] # "table on the stack"
<1>1. PICK k \in Kinds \ {"freed", "table on the stack", "table type"} : Holder(t, p) = <<k, p>>
  BY DEF Holder, Kinds
<1>2. PICK i \in {"table on the stack", "tvp_data_"} :
         TvpImpl(p) = <<i, p>> /\ (p \notin temporary => i = "tvp_data_")
  BY DEF TvpImpl
<1>3. \E j \in Kinds \ {"freed", "table type"} :
         TvpHolder(t, p) = <<j, p>> /\ (p \notin temporary => j # "table on the stack")
  <2>1. CASE t = "direct"
    <3>1. "list" \in Kinds \ {"freed", "table type"} /\ "list" # "table on the stack"
      BY DEF Kinds
    <3> QED
      BY <2>1, <3>1 DEF TvpHolder
  <2>2. CASE t \in {"string", "raw"}
    <3>1. i \in Kinds \ {"freed", "table type"} /\ (p \notin temporary => i # "table on the stack")
      BY <1>2 DEF Kinds
    <3>2. TvpHolder(t, p) = TvpImpl(p)
      BY <2>2 DEF TvpHolder
    <3> QED
      BY <1>2, <3>1, <3>2, Zenon
  <2>3. CASE t \notin {"direct", "string", "raw"}
    <3>1. "tvp_buffers_" \in Kinds \ {"freed", "table type"} /\ "tvp_buffers_" # "table on the stack"
      BY DEF Kinds
    <3> QED
      BY <2>3, <3>1 DEF TvpHolder
  <2> QED
    BY <2>1, <2>2, <2>3
<1>4. PICK j \in Kinds \ {"freed", "table type"} :
         TvpHolder(t, p) = <<j, p>> /\ (p \notin temporary => j # "table on the stack")
  BY <1>3
<1>5. \A x : <<x, p>>[1] = x /\ <<x, p>>[2] = p
  OBVIOUS
<1>6. /\ i \in Kinds /\ i # "freed" /\ i # "null pointer"
      /\ (i = "tvp_data_" => i # "table on the stack")
      /\ k \in Kinds /\ k # "freed" /\ k # "table on the stack" /\ j \in Kinds /\ j # "freed"
  BY <1>1, <1>2, <1>4 DEF Kinds
<1> QED
  BY <1>1, <1>2, <1>4, <1>5, <1>6, Zenon

LEMMA TableBindingType ==
  ASSUME NEW p \in Params, NEW n \in Nat
  PROVE  TableBinding(p, n) \in Binding
<1>1. "table type" \in Kinds /\ "bind_len_or_null_" \in Kinds /\ p \in Params \cup {0}
      /\ <<n>> \in Seq(Int) /\ <<1>> \in Seq(Int)
  BY DEF Kinds
<1>2. [owner |-> <<"table type", p>>, data |-> <<n>>] \in Buffers
  BY <1>1, BufferType
<1>3. [owner |-> <<"bind_len_or_null_", p>>, data |-> <<1>>] \in Buffers
  BY <1>1, BufferType
<1> QED
  BY <1>2, <1>3 DEF TableBinding, Binding

\* The bindings of one query have one type.
LEMMA SameQuery ==
  ASSUME sqlTypes' = sqlTypes
  PROVE  /\ Params' = Params /\ Places' = Places /\ Buffers' = Buffers /\ Binding' = Binding
         /\ \A p \in Params : <<p, 0>> \in Places
<1>1. Params' = Params
  BY DEF Params
<1>2. Places' = Places /\ Buffers' = Buffers
  BY <1>1 DEF Places, Buffers
<1>3. 0 \in 0 .. TableCols
  BY TableColsAssumption
<1> QED
  BY <1>1, <1>2, <1>3 DEF Binding, Places

\* While a list is bound, the vector or the data frame at hand.
LEMMA AtHand ==
  ASSUME TypeInv
  PROVE  /\ phase \in {"batch", "column", "table"} =>
              /\ DOMAIN call.x = Params
              /\ \A p \in Params : IsVector(call.x[p]) \/ IsTable(call.x[p])
         /\ AtVector => IsVector(call.x[col])
         /\ AtTable \/ phase = "table" => /\ col \in Params /\ IsTable(call.x[col])
                                          /\ call.x[col].type = "dataframe"
         /\ phase \in {"column", "table"} => BatchSize \in Nat /\ BatchSize > 0
<1>1. ASSUME phase \in {"batch", "column", "table"}
      PROVE  /\ DOMAIN call.x = Params /\ call \in Calls
             /\ \A p \in Params : IsVector(call.x[p]) \/ IsTable(call.x[p])
  <2>1. sqlTypes \in ParamTypes /\ call \in Calls /\ Len(call.x) = Len(sqlTypes)
    BY <1>1 DEF TypeInv, TypeOK, CallOK
  <2> QED
    BY <2>1, CallType, ParamsType
<1>2. AtVector => IsVector(call.x[col])
  BY <1>1, VectorType DEF AtVector
<1>3. AtTable \/ phase = "table" => /\ col \in Params /\ IsTable(call.x[col])
                                   /\ call.x[col].type = "dataframe"
  BY <1>1, VectorType DEF AtTable, TypeInv, CallOK
<1>4. ASSUME phase \in {"column", "table"} PROVE BatchSize \in Nat /\ BatchSize > 0
  <2>1. start \in Nat /\ start < ParameterRows(call.x)
    BY <1>4 DEF TypeInv, TypeOK, CallOK
  <2> QED
    BY <1>1, <1>4, <2>1, BatchSizeType
<1> QED
  BY <1>1, <1>2, <1>3, <1>4

\* What BindColumn() enters for a vector.
BoundVector(v, nulls) ==
  [value |-> [owner |-> Holder(v.type, col), data |-> Stored(v, start, BatchSize)],
   len |-> [owner |-> <<"bind_len_or_null_", col>>, data |-> LenOrNull(nulls)]]

\* What TvpColumn() enters for a column of a table.
BoundColumn(v, nulls) ==
  [value |-> [owner |-> TvpHolder(v.type, col), data |-> Stored(v, 0, Rows(call.x[col]))],
   len |-> TvpLengths(v, nulls)]

LEMMA BoundVectorType ==
  ASSUME TypeInv, AtVector, NEW nulls \in NullFlags(call.x[col], start, BatchSize)
  PROVE  BoundVector(call.x[col], nulls) \in Binding
<1> DEFINE v == call.x[col]
<1>1. IsVector(v) /\ BatchSize \in Nat /\ start \in Nat /\ col \in Params
  BY AtHand DEF AtVector, TypeInv, TypeOK
<1>2. Stored(v, start, BatchSize) \in Seq(Int) /\ LenOrNull(nulls) \in Seq(Int)
  BY <1>1, SliceType
<1>3. Holder(v.type, col) = <<Holder(v.type, col)[1], col>> /\ Holder(v.type, col)[1] \in Kinds
  BY <1>1, HolderType
<1>4. "bind_len_or_null_" \in Kinds /\ col \in Params \cup {0}
  BY <1>1 DEF Kinds
<1> HIDE DEF v
<1>5. [owner |-> Holder(v.type, col), data |-> Stored(v, start, BatchSize)] \in Buffers
  BY <1>2, <1>3, <1>4, BufferType
<1>6. [owner |-> <<"bind_len_or_null_", col>>, data |-> LenOrNull(nulls)] \in Buffers
  BY <1>2, <1>4, BufferType
<1>7. BoundVector(v, nulls) \in Binding
  BY <1>5, <1>6 DEF BoundVector, Binding
<1> QED
  BY <1>7 DEF v

LEMMA BoundColumnType ==
  ASSUME TypeInv, phase = "table", tcol <= Len(call.x[col].cols),
         NEW nulls \in NullFlags(call.x[col].cols[tcol], 0, Rows(call.x[col]))
  PROVE  BoundColumn(call.x[col].cols[tcol], nulls) \in Binding
<1> DEFINE v == call.x[col].cols[tcol]
           n == Rows(call.x[col])
<1>1. col \in Params /\ IsTable(call.x[col]) /\ tcol \in Nat /\ tcol > 0
  <2>1. tcol \in 1 .. TableCols + 1
    BY DEF TypeInv, TypeOK
  <2> QED
    BY <2>1, AtHand, TableColsAssumption
<1>2. IsVector(v) /\ n \in Nat
  <2>1. tcol \in DOMAIN call.x[col].cols
    BY <1>1, VectorType
  <2> QED
    BY <1>1, <2>1, VectorType
<1>3. Stored(v, 0, n) \in Seq(Int) /\ LenOrNull(nulls) \in Seq(Int)
  BY <1>2, SliceType
<1>4. TvpHolder(v.type, col) = <<TvpHolder(v.type, col)[1], col>> /\ TvpHolder(v.type, col)[1] \in Kinds
  BY <1>1, HolderType
<1>5. TvpImpl(col) = <<TvpImpl(col)[1], col>> /\ TvpImpl(col)[1] \in Kinds
  BY <1>1, HolderType
<1>6. col \in Params \cup {0}
  BY <1>1
<1> HIDE DEF v, n
<1>7. [owner |-> TvpHolder(v.type, col), data |-> Stored(v, 0, n)] \in Buffers
  BY <1>3, <1>4, <1>6, BufferType
<1>8. [owner |-> TvpImpl(col), data |-> LenOrNull(nulls)] \in Buffers
  BY <1>3, <1>5, <1>6, BufferType
<1>9. TvpLengths(v, nulls) \in Buffers
  BY <1>8, FreedType DEF TvpLengths
<1>10. BoundColumn(v, nulls) = [value |-> [owner |-> TvpHolder(v.type, col), data |-> Stored(v, 0, n)],
                                len |-> TvpLengths(v, nulls)]
  BY DEF BoundColumn, n
<1>11. BoundColumn(v, nulls) \in Binding
  BY <1>7, <1>9, <1>10 DEF Binding
<1> QED
  BY <1>11 DEF v

\* Every step leaves the driver with well-formed bindings, and with those of the same query.
LEMMA BindingsStep ==
  ASSUME TypeInv, [Next]_vars
  PROVE  apd' \in [Places -> Binding] /\ sqlTypes' = sqlTypes
<1>1. apd \in [Places -> Binding]
  BY DEF TypeInv
<1> DEFINE Ok == apd' \in [Places -> Binding] /\ sqlTypes' = sqlTypes
<1>2. \A owners : Free(apd, owners) \in [Places -> Binding]
  BY <1>1, FreeType
<1>3. \A a \in [Places -> Binding] : Free(a, All("list")) \in [Places -> Binding]
  BY FreeType
<1>4. \A p, t : Prepared(p, t) \in [Places -> Binding]
  BY <1>2 DEF Prepared
<1>5. \A p \in Params : <<p, 0>> \in Places
  BY TableColsAssumption DEF Places
<1>6. ASSUME NEW ps \in SUBSET Params, DescribeParameters(ps) PROVE Ok
  BY <1>1, <1>6 DEF DescribeParameters
<1>7. ASSUME NEW c \in Calls, BindCall(c) PROVE Ok
  BY <1>1, <1>7 DEF BindCall
<1>8. CASE BatchBegin
  BY <1>2, <1>8 DEF BatchBegin
<1>9. CASE BatchesDone
  BY <1>2, <1>9 DEF BatchesDone, Return
<1>10. CASE BindColumn
  <2>1. AtVector /\ sqlTypes' = sqlTypes
    BY <1>10 DEF BindColumn
  <2>2. PICK nulls \in NullFlags(call.x[col], start, BatchSize), q \in VectorPlaces :
          apd' = [Prepared(col, call.x[col].type) EXCEPT ![q] = BoundVector(call.x[col], nulls)]
    BY <1>10 DEF BindColumn, BoundVector
  <2>3. BoundVector(call.x[col], nulls) \in Binding
    BY <2>1, BoundVectorType
  <2> QED
    BY <1>4, <2>1, <2>2, <2>3
<1>11. CASE BindColumnFails
  BY <1>1, <1>3, <1>4, <1>11 DEF BindColumnFails, Return
<1>12. CASE OpenTvp
  <2>1. AtTable /\ sqlTypes' = sqlTypes
        /\ apd' = [Prepared(col, "direct") EXCEPT ![<<col, 0>>] = TableBinding(col, Rows(call.x[col]))]
    BY <1>12 DEF OpenTvp
  <2>2. TableBinding(col, Rows(call.x[col])) \in Binding
    BY <2>1, AtHand, VectorType, TableBindingType
  <2> QED
    BY <1>4, <2>1, <2>2
<1>13. CASE OpenTvpRefused
  BY <1>1, <1>3, <1>4, <1>13 DEF OpenTvpRefused, Return
<1>14. CASE OpenTvpFails
  BY <1>3, <1>4, <1>14 DEF OpenTvpFails, Return
<1>15. CASE TvpColumn
  <2>1. phase = "table" /\ tcol <= Len(call.x[col].cols) /\ sqlTypes' = sqlTypes
    BY <1>15 DEF TvpColumn
  <2>2. PICK nulls \in NullFlags(call.x[col].cols[tcol], 0, Rows(call.x[col])) :
          apd' = [q \in Places |-> IF q = Target(tcol)
                                   THEN BoundColumn(call.x[col].cols[tcol], nulls) ELSE apd[q]]
    BY <1>15 DEF TvpColumn, BoundColumn
  <2>3. BoundColumn(call.x[col].cols[tcol], nulls) \in Binding
    BY <2>1, BoundColumnType
  <2> QED
    BY <1>1, <2>1, <2>2, <2>3
<1>16. CASE TvpColumnFails
  BY <1>2, <1>3, <1>16 DEF TvpColumnFails, TvpUnwinds, Return
<1>17. CASE TvpClose
  BY <1>2, <1>17 DEF TvpClose
<1>18. CASE TvpCloseFails
  BY <1>2, <1>3, <1>18 DEF TvpCloseFails, TvpUnwinds, Return
<1>19. CASE Execute
  BY <1>1, <1>19 DEF Execute
<1>20. CASE ExecuteFails
  BY <1>2, <1>20 DEF ExecuteFails, Return
<1>21. CASE UNCHANGED vars
  BY <1>1, <1>21 DEF vars
<1> QED
  BY <1>6, <1>7, <1>8, <1>9, <1>10, <1>11, <1>12, <1>13, <1>14, <1>15, <1>16, <1>17, <1>18,
     <1>19, <1>20, <1>21 DEF Next

\* The descriptions, and the tables that were opened.
DescrOK ==
  /\ descr \in [Params -> SqlTypes \cup {"unknown", "varchar"}]
  /\ tvps \subseteq {p \in Params : descr[p] = "table"}
  /\ temporary \subseteq tvps
  /\ binds = 0 => tvps = {}

\* Where bind_list() is, and in which call.
FlowOK ==
  /\ describes \in BOOLEAN /\ open_tvp \in BOOLEAN /\ broken \in BOOLEAN
  /\ phase \in {"idle", "bound", "batch", "column", "table"}
  /\ call \in Calls \cup {NoCall} /\ start \in Nat
  /\ col \in 1 .. Len(sqlTypes) + 1 /\ tcol \in 1 .. TableCols + 1
  /\ DOMAIN got = Params
  /\ binds \in 0 .. MaxBinds
  /\ error \in {"none", "rejected", "driver", "describe", "open table"}
  /\ phase \in {"batch", "column", "table"} =>
       call \in Calls /\ Len(call.x) = Len(sqlTypes) /\ binds > 0
  /\ phase \in {"column", "table"} => start < ParameterRows(call.x)
  /\ phase = "table" => col \in Params /\ call.x[col].type = "dataframe"

LEMMA TypeParts ==
  TypeInv <=> sqlTypes \in ParamTypes /\ apd \in [Places -> Binding] /\ DescrOK /\ FlowOK
<1>1. apd \in [Places -> Binding] => \A q \in Places : apd[q].value \in Buffers /\ apd[q].len \in Buffers
  BY DEF Binding
<1>2. {open_tvp, broken} \subseteq BOOLEAN <=> open_tvp \in BOOLEAN /\ broken \in BOOLEAN
  BY Zenon
<1> QED
  BY <1>1, <1>2, Zenon DEF TypeInv, TypeOK, CallOK, DescrOK, FlowOK

LEMMA DescribedType ==
  ASSUME sqlTypes \in ParamTypes, DescrOK, NEW p \in Params
  PROVE  /\ Described(p) \in [Params -> SqlTypes \cup {"unknown", "varchar"}]
         /\ \A q \in Params : descr[q] = "table" => Described(p)[q] = "table"
<1>1. sqlTypes[p] \in SqlTypes
  BY ParamsType
<1> QED
  BY <1>1 DEF DescrOK, Described

LEMMA DescrStep ==
  ASSUME TypeInv, [Next]_vars, sqlTypes' = sqlTypes
  PROVE  DescrOK'
<1>1. DescrOK /\ sqlTypes \in ParamTypes /\ binds \in Nat
  <2>1. DescrOK /\ sqlTypes \in ParamTypes /\ binds \in 0 .. MaxBinds
    BY TypeParts, Zenon DEF FlowOK
  <2> QED
    BY <2>1, MaxBindsAssumption
<1>2. Params' = Params
  BY SameQuery
<1>3. ASSUME NEW p \in Params, descr' = Described(p), tvps' = tvps, temporary' = temporary,
             binds' = binds
      PROVE  DescrOK'
  BY <1>1, <1>2, <1>3, DescribedType DEF DescrOK
<1>4. ASSUME NEW p \in Params, descr' = Described(p), tvps' = tvps \cup {p}, descr'[p] = "table",
             temporary' = temporary \cup (tvps \cap {p}), binds' = binds, binds # 0
      PROVE  DescrOK'
  BY <1>1, <1>2, <1>4, DescribedType DEF DescrOK
<1>5. ASSUME UNCHANGED <<descr, tvps, temporary, binds>> PROVE DescrOK'
  BY <1>1, <1>2, <1>5 DEF DescrOK
<1>6. ASSUME NEW ps \in SUBSET Params, DescribeParameters(ps) PROVE DescrOK'
  <2>1. \A p \in Params : sqlTypes[p] \in SqlTypes
    BY <1>1, ParamsType
  <2>2. tvps = {} /\ temporary = {}
    BY <1>1, <1>6 DEF DescribeParameters, DescrOK
  <2>3. /\ descr' = [p \in Params |-> IF p \in ps THEN sqlTypes[p] ELSE descr[p]]
        /\ tvps' = tvps /\ temporary' = temporary /\ binds' = binds
    BY <1>6 DEF DescribeParameters
  <2> QED
    BY <1>1, <1>2, <2>1, <2>2, <2>3 DEF DescrOK
<1>7. ASSUME NEW c \in Calls, BindCall(c) PROVE DescrOK'
  <2>1. binds' = binds + 1 /\ UNCHANGED <<descr, tvps, temporary>>
    BY <1>7 DEF BindCall
  <2> QED
    BY <1>1, <1>2, <2>1 DEF DescrOK
<1>8. CASE BindColumn
  BY <1>3, <1>8 DEF BindColumn, AtVector
<1>9. CASE BindColumnFails
  <2>1. col \in Params /\ (descr' = descr \/ descr' = Described(col))
        /\ UNCHANGED <<tvps, temporary, binds>>
    BY <1>9 DEF BindColumnFails, AtVector
  <2> QED
    BY <1>3, <1>5, <2>1
<1>10. AtTable => binds # 0
  <2>1. phase = "column" => binds > 0
    BY TypeParts DEF FlowOK
  <2> QED
    BY <2>1 DEF AtTable
<1>11. CASE OpenTvp
  BY <1>4, <1>10, <1>11 DEF OpenTvp, AtTable, Refused
<1>12. CASE OpenTvpRefused
  <2>1. col \in Params /\ (descr' = descr \/ descr' = Described(col))
        /\ UNCHANGED <<tvps, temporary, binds>>
    BY <1>12 DEF OpenTvpRefused, AtTable
  <2> QED
    BY <1>3, <1>5, <2>1
<1>13. CASE OpenTvpFails
  BY <1>4, <1>10, <1>13 DEF OpenTvpFails, AtTable, Refused
<1>14. CASE BatchBegin \/ BatchesDone \/ Execute \/ ExecuteFails
  BY <1>5, <1>14 DEF BatchBegin, BatchesDone, Execute, ExecuteFails
<1>15. CASE TvpColumn \/ TvpColumnFails \/ TvpClose \/ TvpCloseFails
  BY <1>5, <1>15 DEF TvpColumn, TvpColumnFails, TvpClose, TvpCloseFails
<1>16. CASE UNCHANGED vars
  BY <1>5, <1>16 DEF vars
<1> QED
  BY <1>6, <1>7, <1>8, <1>9, <1>11, <1>12, <1>13, <1>14, <1>15, <1>16 DEF Next

LEMMA FlowStep ==
  ASSUME TypeInv, [Next]_vars, sqlTypes' = sqlTypes
  PROVE  FlowOK'
<1> DEFINE Errors == {"none", "rejected", "driver", "describe", "open table"}
<1>1. FlowOK /\ Params' = Params
  BY TypeParts, SameQuery
<1>2. describes \in BOOLEAN /\ open_tvp \in BOOLEAN /\ broken \in BOOLEAN
  BY <1>1, Zenon DEF FlowOK
<1>3. /\ Params = 1 .. Len(sqlTypes) /\ Len(sqlTypes) \in Nat
      /\ col \in 1 .. Len(sqlTypes) + 1 /\ tcol \in 1 .. TableCols + 1
      /\ start \in Nat /\ DOMAIN got = Params
  <2>1. sqlTypes \in ParamTypes
    BY TypeParts
  <2> QED
    BY <1>1, <2>1, ParamsType DEF FlowOK
<1>4. ASSUME phase' \in {"idle", "bound"}, error' \in Errors, open_tvp' \in BOOLEAN,
             broken' \in BOOLEAN, UNCHANGED <<describes, result, got, binds>>
      PROVE  FlowOK'
  <2>1. UNCHANGED <<call, start, col, tcol>>
    BY <1>4 DEF result
  <2>2. phase' \notin {"batch", "column", "table"}
        /\ phase' \in {"idle", "bound", "batch", "column", "table"}
    BY <1>4
  <2> QED
    BY <1>1, <1>4, <2>1, <2>2 DEF FlowOK
<1>5. ASSUME NEW ps \in SUBSET Params, DescribeParameters(ps) PROVE FlowOK'
  BY <1>1, <1>2, <1>5 DEF DescribeParameters, FlowOK, result
<1>6. ASSUME NEW c \in Calls, BindCall(c) PROVE FlowOK'
  <2>1. /\ call' = c /\ start' = 0 /\ binds' = binds + 1 /\ binds < MaxBinds
        /\ UNCHANGED <<describes, open_tvp, col, tcol, broken>>
        /\ got' = [p \in Params |-> <<>>]
    BY <1>6 DEF BindCall
  <2>2. \/ phase' = "idle" /\ error' = "rejected"
        \/ phase' = "batch" /\ error' = "none" /\ Len(c.x) = Len(sqlTypes)
    BY <1>6 DEF BindCall
  <2>3. binds' \in 0 .. MaxBinds /\ binds' > 0
    <3>1. binds \in 0 .. MaxBinds
      BY <1>1, Zenon DEF FlowOK
    <3> QED
      BY <2>1, <3>1, MaxBindsAssumption
  <2>4. DOMAIN got' = Params
    BY <2>1
  <2>5. phase' \in {"idle", "batch"} /\ error' \in {"rejected", "none"}
        /\ (phase' = "batch" => Len(c.x) = Len(sqlTypes))
    BY <2>2
  <2> QED
    BY <1>1, <1>2, <2>1, <2>3, <2>4, <2>5 DEF FlowOK
<1>7. CASE BatchBegin
  <2>1. /\ phase = "batch" /\ phase' = "column" /\ start < ParameterRows(call.x) /\ col' = 1
        /\ UNCHANGED <<describes, open_tvp, call, start, tcol, got, binds, error, broken>>
    BY <1>7 DEF BatchBegin
  <2>2. col' \in 1 .. Len(sqlTypes) + 1
    BY <1>3, <2>1
  <2> QED
    BY <1>1, <1>2, <2>1, <2>2 DEF FlowOK
<1>8. CASE BatchesDone
  BY <1>2, <1>4, <1>8 DEF BatchesDone, Return
<1>9. CASE BindColumn
  <2>1. /\ phase = "column" /\ col \in Params /\ col' = col + 1
        /\ UNCHANGED <<describes, open_tvp, phase, call, start, tcol, got, binds, error, broken>>
    BY <1>9 DEF BindColumn, AtVector
  <2>2. col' \in 1 .. Len(sqlTypes) + 1
    BY <1>3, <2>1
  <2> QED
    BY <1>1, <1>2, <2>1, <2>2 DEF FlowOK
<1>10. CASE BindColumnFails
  <2>1. /\ phase' = "idle" /\ error' \in Errors
        /\ UNCHANGED <<describes, open_tvp, result, got, binds, broken>>
    BY <1>10 DEF BindColumnFails, Return
  <2> QED
    BY <1>2, <1>4, <2>1
<1>11. CASE OpenTvp
  <2>1. /\ phase = "column" /\ col \in Params /\ call.x[col].type = "dataframe"
        /\ phase' = "table" /\ open_tvp' = TRUE /\ tcol' = 1
        /\ UNCHANGED <<describes, call, start, col, got, binds, error, broken>>
    BY <1>11 DEF OpenTvp, AtTable
  <2>2. tcol' \in 1 .. TableCols + 1
    BY <2>1, TableColsAssumption
  <2> QED
    BY <1>1, <1>2, <2>1, <2>2 DEF FlowOK
<1>12. CASE OpenTvpRefused
  <2>1. /\ phase' = "idle" /\ error' \in Errors
        /\ UNCHANGED <<describes, open_tvp, result, got, binds, broken>>
    BY <1>12 DEF OpenTvpRefused, Return
  <2> QED
    BY <1>2, <1>4, <2>1
<1>13. CASE OpenTvpFails
  <2>1. /\ phase' = "idle" /\ error' = "driver" /\ open_tvp' \in BOOLEAN /\ broken' = TRUE
        /\ UNCHANGED <<describes, result, got, binds>>
    BY <1>13 DEF OpenTvpFails, Return
  <2> QED
    BY <1>4, <2>1
<1>14. CASE TvpColumn
  <2>1. /\ phase = "table" /\ tcol <= TableCols /\ tcol' = tcol + 1
        /\ UNCHANGED <<describes, open_tvp, phase, call, start, col, got, binds, error, broken>>
    BY <1>14 DEF TvpColumn
  <2>2. tcol' \in 1 .. TableCols + 1
    BY <1>3, <2>1, TableColsAssumption
  <2> QED
    BY <1>1, <1>2, <2>1, <2>2 DEF FlowOK
<1>15. CASE TvpColumnFails \/ TvpCloseFails
  <2>1. /\ phase' = "idle" /\ error' = "driver" /\ open_tvp' \in BOOLEAN /\ broken' = TRUE
        /\ UNCHANGED <<describes, result, got, binds>>
    BY <1>15 DEF TvpColumnFails, TvpCloseFails, TvpUnwinds, Return
  <2> QED
    BY <1>4, <2>1
<1>16. CASE TvpClose
  <2>1. /\ phase = "table" /\ col' = col + 1 /\ phase' = "column" /\ open_tvp' = FALSE
        /\ UNCHANGED <<describes, call, start, tcol, got, binds, error, broken>>
    BY <1>16 DEF TvpClose
  <2>2. col \in Params
    BY <1>1, <2>1 DEF FlowOK
  <2>3. col' \in 1 .. Len(sqlTypes) + 1
    BY <1>3, <2>1, <2>2
  <2> QED
    BY <1>1, <1>2, <2>1, <2>3 DEF FlowOK
<1>17. CASE Execute
  <2>1. /\ phase = "column" /\ phase' = "batch" /\ start' = start + call.batch_rows
        /\ UNCHANGED <<describes, open_tvp, call, col, tcol, binds, error, broken>>
    BY <1>17 DEF Execute
  <2>2. DOMAIN got' = Params
    BY <1>17 DEF Execute
  <2>3. start' \in Nat
    <3>1. call \in Calls
      BY <1>1, <2>1 DEF FlowOK
    <3> QED
      BY <1>3, <2>1, <3>1, CallType
  <2> QED
    BY <1>1, <1>2, <2>1, <2>2, <2>3 DEF FlowOK
<1>18. CASE ExecuteFails
  BY <1>2, <1>4, <1>18 DEF ExecuteFails, Return
<1>19. CASE UNCHANGED vars
  BY <1>1, <1>2, <1>19 DEF vars, result, FlowOK
<1> QED
  BY <1>5, <1>6, <1>7, <1>8, <1>9, <1>10, <1>11, <1>12, <1>13, <1>14, <1>15, <1>16, <1>17,
     <1>18, <1>19 DEF Next

\* Every step keeps the types.
LEMMA TypeStep == TypeInv /\ [Next]_vars => TypeInv'
<1> SUFFICES ASSUME TypeInv, [Next]_vars PROVE TypeInv'
  OBVIOUS
<1>1. apd' \in [Places -> Binding] /\ sqlTypes' = sqlTypes /\ sqlTypes \in ParamTypes
  BY BindingsStep, TypeParts
<1>2. DescrOK' /\ FlowOK'
  BY <1>1, DescrStep, FlowStep
<1>3. Places' = Places /\ Binding' = Binding
  BY <1>1, SameQuery
<1>4. (sqlTypes \in ParamTypes /\ apd \in [Places -> Binding] /\ DescrOK /\ FlowOK)'
  BY <1>1, <1>2, <1>3
<1>5. TypeInv' <=> (sqlTypes \in ParamTypes /\ apd \in [Places -> Binding] /\ DescrOK /\ FlowOK)'
  BY TypeParts, PTL
<1> QED
  BY <1>4, <1>5

LEMMA TypeInit == Init => TypeInv
<1> SUFFICES ASSUME Init PROVE TypeInv
  OBVIOUS
<1>1. sqlTypes \in ParamTypes /\ apd \in [Places -> Binding]
  <2>1. apd = [q \in Places |-> Unbound] /\ sqlTypes \in ParamTypes
    BY DEF Init
  <2> QED
    BY <2>1, FreedType
<1>2. DescrOK
  BY DEF Init, DescrOK
<1>3. FlowOK
  <2>1. Len(sqlTypes) \in Nat
    BY <1>1, ParamsType
  <2>2. 1 \in 1 .. Len(sqlTypes) + 1 /\ 1 \in 1 .. TableCols + 1 /\ 0 \in 0 .. MaxBinds
    BY <2>1, TableColsAssumption, MaxBindsAssumption
  <2>3. /\ describes \in BOOLEAN /\ open_tvp = FALSE /\ broken = FALSE
        /\ phase = "idle" /\ call = NoCall /\ start = 0 /\ col = 1 /\ tcol = 1
        /\ DOMAIN got = Params /\ binds = 0 /\ error = "none"
    BY DEF Init
  <2> QED
    BY <2>2, <2>3 DEF FlowOK
<1> QED
  BY <1>1, <1>2, <1>3, TypeParts

-----------------------------------------------------------------------------
(* The memory the driver reads is there *)

\* The columns of a parameter that the driver reads: 0 is the parameter itself.
Columns(p) ==
  {0} \cup IF call.x[p].type = "dataframe" /\ Rows(call.x[p]) > 0 THEN DOMAIN call.x[p].cols ELSE {}

\* The memory of a binding exists, and belongs to a parameter up to n.
LiveTo(b, n) ==
  /\ b.value.owner[1] # "freed" /\ b.value.owner[2] <= n
  /\ b.len.owner[1] # "freed" /\ b.len.owner[2] <= n
HeldTo(p, c, n) == <<p, c>> \in Places /\ LiveTo(apd[<<p, c>>], n)

\* No binding is in a table that is destroyed when bind_df() returns.
NoStack ==
  temporary = {} =>
    \A q \in Places : /\ apd[q].value.owner[1] # "table on the stack"
                      /\ apd[q].len.owner[1] # "table on the stack"

\* With a table left open the parameter it belongs to cannot be passed.
OpenStuck ==
  /\ open_tvp => \E t \in tvps : phase = "column" => col <= t
  /\ phase = "table" => tvps # {}

\* What is bound so far is there, and belongs to parameters bound so far: prepare_bind() for
\* the next one frees none of it.
LiveInv ==
  temporary = {} =>
    /\ phase = "column" /\ ~open_tvp =>
         \A p \in Params : p < col => \A c \in Columns(p) : HeldTo(p, c, col - 1)
    /\ phase = "table" =>
         \A p \in Params : p <= col => \A c \in Columns(p) : p < col \/ c < tcol => HeldTo(p, c, col)

LEMMA StackStep ==
  ASSUME TypeInv, NoStack, [Next]_vars
  PROVE  NoStack' /\ temporary \subseteq temporary'
<1> DEFINE Clean(a) == \A q \in Places : /\ a[q].value.owner[1] # "table on the stack"
                                          /\ a[q].len.owner[1] # "table on the stack"
<1>1. apd \in [Places -> Binding] /\ sqlTypes' = sqlTypes /\ Places' = Places
  BY BindingsStep, SameQuery DEF TypeInv
<1>2. temporary = {} => Clean(apd)
  BY DEF NoStack
<1>3. ASSUME NEW a \in [Places -> Binding], Clean(a), NEW owners PROVE Clean(Free(a, owners))
  <2>1. Freed.owner[1] # "table on the stack"
    BY DEF Freed
  <2>2. \A q \in Places :
          /\ Free(a, owners)[q].value = Freed \/ Free(a, owners)[q].value = a[q].value
          /\ Free(a, owners)[q].len = Freed \/ Free(a, owners)[q].len = a[q].len
    BY FreeType
  <2> QED
    BY <1>3, <2>1, <2>2
<1>4. ASSUME NEW owners, temporary = {} PROVE Clean(Free(apd, owners))
  <2> HIDE DEF Clean
  <2> QED
    BY <1>1, <1>2, <1>3, <1>4
<1>5. \A owners : temporary = {} => Clean(Free(apd, owners))
  BY <1>4
<1>6. ASSUME NEW p, NEW t, temporary = {}
      PROVE  /\ Clean(Prepared(p, t)) /\ Prepared(p, t) \in [Places -> Binding]
             /\ Clean(Free(Prepared(p, t), All("list")))
  <2> HIDE DEF Clean
  <2>1. Clean(Prepared(p, t)) /\ Prepared(p, t) \in [Places -> Binding]
    BY <1>1, <1>5, <1>6, FreeType DEF Prepared
  <2> QED
    BY <1>3, <2>1
<1>7. SUFFICES ASSUME temporary' = {} => temporary = {} /\ Clean(apd')
               PROVE  NoStack'
  <2>1. temporary \subseteq temporary'
    <3>1. CASE \E ps \in SUBSET Params : DescribeParameters(ps)
      BY <3>1 DEF DescribeParameters
    <3>2. CASE \E c \in Calls : BindCall(c)
      BY <3>2 DEF BindCall
    <3>3. CASE BatchBegin \/ BatchesDone \/ BindColumn \/ BindColumnFails \/ OpenTvpRefused
      BY <3>3 DEF BatchBegin, BatchesDone, BindColumn, BindColumnFails, OpenTvpRefused
    <3>4. CASE OpenTvp \/ OpenTvpFails
      BY <3>4 DEF OpenTvp, OpenTvpFails
    <3>5. CASE TvpColumn \/ TvpColumnFails \/ TvpClose \/ TvpCloseFails \/ Execute \/ ExecuteFails
      BY <3>5 DEF TvpColumn, TvpColumnFails, TvpClose, TvpCloseFails, Execute, ExecuteFails
    <3>6. CASE UNCHANGED vars
      BY <3>6 DEF vars
    <3> QED
      BY <3>1, <3>2, <3>3, <3>4, <3>5, <3>6 DEF Next
  <2>2. ASSUME temporary' = {}, temporary = {} PROVE Clean(apd')
    <3> HIDE DEF Clean
    <3>1. CASE \E ps \in SUBSET Params : DescribeParameters(ps)
      BY <1>2, <2>2, <3>1 DEF DescribeParameters
    <3>2. CASE \E c \in Calls : BindCall(c)
      BY <1>2, <2>2, <3>2 DEF BindCall
    <3>3. CASE BatchBegin \/ BatchesDone
      BY <1>5, <2>2, <3>3 DEF BatchBegin, BatchesDone, Return
    <3>4. CASE BindColumn
      <4>1. PICK nulls \in NullFlags(call.x[col], start, BatchSize), q \in VectorPlaces :
              apd' = [Prepared(col, call.x[col].type) EXCEPT ![q] = BoundVector(call.x[col], nulls)]
        BY <3>4 DEF BindColumn, BoundVector
      <4>2. /\ BoundVector(call.x[col], nulls).value.owner[1] # "table on the stack"
            /\ BoundVector(call.x[col], nulls).len.owner[1] # "table on the stack"
        <5>1. Holder(call.x[col].type, col)[1] # "table on the stack"
          BY <3>4, HolderType DEF BindColumn, AtVector
        <5> QED
          BY <5>1 DEF BoundVector
      <4> QED
        BY <1>6, <2>2, <4>1, <4>2 DEF Clean
    <3>5. CASE BindColumnFails
      BY <1>5, <1>6, <2>2, <3>5 DEF BindColumnFails, Return
    <3>6. CASE OpenTvp
      <4>1. apd' = [Prepared(col, "direct") EXCEPT ![<<col, 0>>] = TableBinding(col, Rows(call.x[col]))]
        BY <3>6 DEF OpenTvp
      <4>2. /\ TableBinding(col, Rows(call.x[col])).value.owner[1] # "table on the stack"
            /\ TableBinding(col, Rows(call.x[col])).len.owner[1] # "table on the stack"
        BY DEF TableBinding
      <4> QED
        BY <1>6, <2>2, <4>1, <4>2 DEF Clean
    <3>7. CASE OpenTvpRefused
      BY <1>5, <1>6, <2>2, <3>7 DEF OpenTvpRefused, Return
    <3>8. CASE OpenTvpFails
      BY <1>6, <2>2, <3>8 DEF OpenTvpFails, Return
    <3>9. CASE TvpColumn
      <4>1. phase = "table"
        BY <3>9 DEF TvpColumn
      <4>2. PICK nulls \in NullFlags(call.x[col].cols[tcol], 0, Rows(call.x[col])) :
              apd' = [q \in Places |-> IF q = Target(tcol)
                                       THEN BoundColumn(call.x[col].cols[tcol], nulls) ELSE apd[q]]
        BY <3>9 DEF TvpColumn, BoundColumn
      <4> DEFINE v == call.x[col].cols[tcol]
      <4>3. col \in Params /\ col \notin temporary
        BY <2>2, <4>1, AtHand
      <4>4. TvpHolder(v.type, col)[1] # "table on the stack" /\ TvpImpl(col)[1] # "table on the stack"
        BY <4>3, HolderType
      <4>5. TvpLengths(v, nulls).owner[1] # "table on the stack"
        BY <4>4 DEF TvpLengths, NullPointer
      <4>6. /\ BoundColumn(v, nulls).value.owner[1] # "table on the stack"
            /\ BoundColumn(v, nulls).len.owner[1] # "table on the stack"
        BY <4>4, <4>5 DEF BoundColumn
      <4> HIDE DEF v
      <4>7. apd' = [q \in Places |-> IF q = Target(tcol) THEN BoundColumn(v, nulls) ELSE apd[q]]
        BY <4>2 DEF v
      <4> QED
        BY <1>2, <2>2, <4>6, <4>7 DEF Clean
    <3>10. CASE TvpColumnFails \/ TvpCloseFails
      <4>1. apd' = Free(Free(apd, All("table on the stack")), All("list"))
        BY <3>10 DEF TvpColumnFails, TvpCloseFails, TvpUnwinds, Return
      <4>2. Free(apd, All("table on the stack")) \in [Places -> Binding]
        BY <1>1, FreeType
      <4> QED
        BY <1>3, <1>5, <2>2, <4>1, <4>2
    <3>11. CASE TvpClose
      BY <1>5, <2>2, <3>11 DEF TvpClose
    <3>12. CASE Execute
      BY <1>2, <2>2, <3>12 DEF Execute
    <3>13. CASE ExecuteFails
      BY <1>5, <2>2, <3>13 DEF ExecuteFails, Return
    <3>14. CASE UNCHANGED vars
      BY <1>2, <2>2, <3>14 DEF vars
    <3> QED
      BY <3>1, <3>2, <3>3, <3>4, <3>5, <3>6, <3>7, <3>8, <3>9, <3>10, <3>11, <3>12, <3>13, <3>14
         DEF Next
  <2>3. temporary' = {} => temporary = {} /\ Clean(apd')
    <3> HIDE DEF Clean
    <3> QED
      BY <2>1, <2>2
  <2> QED
    BY <2>1, <2>3
<1> QED
  BY <1>1, <1>7 DEF NoStack

LEMMA StuckStep ==
  ASSUME TypeInv, OpenStuck, [Next]_vars
  PROVE  OpenStuck'
<1>1. /\ tvps \subseteq {p \in Params : descr[p] = "table"} /\ open_tvp \in BOOLEAN
      /\ Params = 1 .. Len(sqlTypes) /\ Len(sqlTypes) \in Nat
  BY TypeParts, ParamsType DEF DescrOK, FlowOK
<1>2. ASSUME open_tvp' = open_tvp, tvps' = tvps, phase' # "column",
             phase' = "table" => phase = "table"
      PROVE  OpenStuck'
  BY <1>2 DEF OpenStuck
<1>3. ASSUME NEW ps \in SUBSET Params, DescribeParameters(ps) PROVE OpenStuck'
  BY <1>2, <1>3 DEF DescribeParameters
<1>4. ASSUME NEW c \in Calls, BindCall(c) PROVE OpenStuck'
  BY <1>2, <1>4 DEF BindCall
<1>5. CASE BatchBegin
  <2>1. open_tvp' = open_tvp /\ tvps' = tvps /\ col' = 1 /\ phase' = "column"
    BY <1>5 DEF BatchBegin
  <2> QED
    BY <1>1, <2>1 DEF OpenStuck
<1>6. CASE BatchesDone \/ BindColumnFails \/ OpenTvpRefused \/ ExecuteFails \/ Execute
  BY <1>2, <1>6 DEF BatchesDone, BindColumnFails, OpenTvpRefused, ExecuteFails, Execute, Return
<1>7. CASE BindColumn
  <2>1. /\ phase = "column" /\ col \in Params /\ Described(col)[col] # "table" /\ col' = col + 1
        /\ UNCHANGED <<open_tvp, tvps, phase>>
    BY <1>7 DEF BindColumn, AtVector
  <2>2. col \notin tvps
    BY <1>1, <2>1, TypeParts, DescribedType
  <2> QED
    BY <1>1, <2>1, <2>2 DEF OpenStuck
<1>8. CASE OpenTvp \/ OpenTvpFails
  <2>1. col \in tvps' /\ phase' # "column"
    BY <1>8 DEF OpenTvp, OpenTvpFails, Return
  <2> QED
    BY <2>1 DEF OpenStuck
<1>9. CASE TvpColumn
  BY <1>2, <1>9 DEF TvpColumn
<1>10. CASE TvpColumnFails \/ TvpCloseFails
  <2>1. phase = "table" /\ phase' # "column" /\ tvps' = tvps
    BY <1>10 DEF TvpColumnFails, TvpCloseFails, TvpUnwinds, Return
  <2>2. tvps # {}
    BY <2>1 DEF OpenStuck
  <2> QED
    BY <2>1, <2>2 DEF OpenStuck
<1>11. CASE TvpClose
  BY <1>11 DEF TvpClose, OpenStuck
<1>12. CASE UNCHANGED vars
  BY <1>12 DEF vars, result, OpenStuck
<1> QED
  BY <1>3, <1>4, <1>5, <1>6, <1>7, <1>8, <1>9, <1>10, <1>11, <1>12 DEF Next

\* prepare_bind() for a parameter keeps what belongs to those before it.
LEMMA PreparedKeeps ==
  ASSUME TypeInv, col \in Params, NEW t, NEW q \in Places, LiveTo(apd[q], col - 1)
  PROVE  Prepared(col, t)[q] = apd[q]
<1>1. apd \in [Places -> Binding] /\ col \in Nat
  <2>1. sqlTypes \in ParamTypes /\ apd \in [Places -> Binding]
    BY TypeParts
  <2> QED
    BY <2>1, ParamsType
<1>2. apd[q].value \in Buffers /\ apd[q].len \in Buffers
  BY <1>1 DEF Binding
<1>3. apd[q].value.owner[2] # col /\ apd[q].len.owner[2] # col
  <2>1. \A x : x \in Params \cup {0} => x \in Int
    BY TypeParts, ParamsType
  <2>2. apd[q].value.owner[2] \in Int /\ apd[q].len.owner[2] \in Int
    BY <1>2, <2>1, BufferParts
  <2> QED
    BY <1>1, <2>2 DEF LiveTo
<1>4. \A o \in {<<"bind_len_or_null_", col>>, Holder(t, col)} : o[2] = col
  <2>1. Holder(t, col)[2] = col
    BY HolderType
  <2>2. <<"bind_len_or_null_", col>>[2] = col
    OBVIOUS
  <2> QED
    BY <2>1, <2>2
<1>5. /\ apd[q].value.owner \notin {<<"bind_len_or_null_", col>>, Holder(t, col)} \ All("list")
      /\ apd[q].len.owner \notin {<<"bind_len_or_null_", col>>, Holder(t, col)} \ All("list")
  BY <1>3, <1>4
<1> QED
  BY <1>1, <1>5, FreeType DEF Prepared

\* A table_valued_parameter that goes away takes nothing along that a binding points to.
LEMMA StackKeeps ==
  ASSUME TypeInv, NoStack, temporary = {}, NEW q \in Places
  PROVE  Free(apd, All("table on the stack"))[q] = apd[q]
<1>1. apd \in [Places -> Binding]
  BY DEF TypeInv
<1>2. ASSUME NEW o \in All("table on the stack") PROVE o[1] = "table on the stack"
  <2>1. PICK p \in Params : o = <<"table on the stack", p>>
    BY <1>2, Zenon DEF All
  <2> QED
    BY <2>1
<1>3. /\ apd[q].value.owner \notin All("table on the stack")
      /\ apd[q].len.owner \notin All("table on the stack")
  BY <1>2 DEF NoStack
<1> DEFINE owners == All("table on the stack")
<1> HIDE DEF owners
<1>4. apd[q].value.owner \notin owners /\ apd[q].len.owner \notin owners
  BY <1>3 DEF owners
<1>5. Free(apd, owners)[q] = apd[q]
  BY <1>1, <1>4, FreeType
<1> QED
  BY <1>5 DEF owners

\* Memory of parameters up to k is of parameters up to any later n.
LEMMA LiveLater ==
  ASSUME TypeInv, NEW b \in Binding, NEW k \in Int, NEW n \in Int, k <= n, LiveTo(b, k)
  PROVE  LiveTo(b, n)
<1>1. \A x : x \in Params \cup {0} => x \in Int
  BY TypeParts, ParamsType
<1>2. b.value \in Buffers /\ b.len \in Buffers
  BY DEF Binding
<1>3. b.value.owner[2] \in Int /\ b.len.owner[2] \in Int
  BY <1>1, <1>2, BufferParts
<1> QED
  BY <1>3 DEF LiveTo

\* What the three actions that bind something enter is live.
LEMMA BoundIsLive ==
  ASSUME TypeInv, col \in Params
  PROVE  /\ \A v, nulls : LiveTo(BoundVector(v, nulls), col)
         /\ \A v, nulls : LiveTo(BoundColumn(v, nulls), col)
         /\ \A n : LiveTo(TableBinding(col, n), col)
<1>1. col \in Nat /\ col <= col /\ 0 <= col
  BY TypeParts, ParamsType
<1>2. ASSUME NEW v, NEW nulls PROVE LiveTo(BoundVector(v, nulls), col)
  <2>1. Holder(v.type, col)[1] # "freed" /\ Holder(v.type, col)[2] = col
    BY HolderType
  <2> QED
    BY <1>1, <2>1 DEF LiveTo, BoundVector
<1>3. ASSUME NEW v, NEW nulls PROVE LiveTo(BoundColumn(v, nulls), col)
  <2>1. TvpHolder(v.type, col)[1] # "freed" /\ TvpHolder(v.type, col)[2] = col
    BY HolderType
  <2>2. TvpImpl(col)[1] # "freed" /\ TvpImpl(col)[2] = col
    BY HolderType
  <2>3. TvpLengths(v, nulls).owner[1] # "freed" /\ TvpLengths(v, nulls).owner[2] <= col
    BY <1>1, <2>2 DEF TvpLengths, NullPointer
  <2> QED
    BY <1>1, <2>1, <2>3 DEF LiveTo, BoundColumn
<1>4. ASSUME NEW n PROVE LiveTo(TableBinding(col, n), col)
  BY <1>1 DEF LiveTo, TableBinding
<1> QED
  BY <1>2, <1>3, <1>4

\* The columns of a parameter are numbered.
LEMMA ColumnsType ==
  ASSUME TypeInv, phase \in {"batch", "column", "table"}, NEW p \in Params
  PROVE  /\ Columns(p) \subseteq Nat /\ 0 \in Columns(p)
         /\ IsTable(call.x[p]) => /\ \A c \in Columns(p) : c <= Len(call.x[p].cols)
                                  /\ \A c \in Columns(p) : c > 0 => Rows(call.x[p]) > 0
         /\ IsVector(call.x[p]) => Columns(p) = {0}
<1>1. IsVector(call.x[p]) \/ IsTable(call.x[p])
  BY AtHand
<1>2. IsVector(call.x[p]) => Columns(p) = {0}
  BY <1>1, VectorType DEF Columns
<1>3. ASSUME IsTable(call.x[p])
      PROVE  /\ Columns(p) \subseteq Nat /\ \A c \in Columns(p) : c <= Len(call.x[p].cols)
             /\ \A c \in Columns(p) : c > 0 => Rows(call.x[p]) > 0
  <2>1. DOMAIN call.x[p].cols = 1 .. Len(call.x[p].cols) /\ Len(call.x[p].cols) \in Nat
    BY <1>3, VectorType
  <2> QED
    BY <2>1 DEF Columns
<1> QED
  BY <1>1, <1>2, <1>3 DEF Columns

LEMMA PreparedType ==
  ASSUME TypeInv
  PROVE  /\ \A p, t : Prepared(p, t) \in [Places -> Binding]
         /\ \A p \in Params : <<p, 0>> \in Places
<1>1. apd \in [Places -> Binding]
  BY DEF TypeInv
<1>2. \A p, t : Prepared(p, t) \in [Places -> Binding]
  BY <1>1, FreeType DEF Prepared
<1>3. \A p \in Params : <<p, 0>> \in Places
  BY TableColsAssumption DEF Places
<1> QED
  BY <1>2, <1>3

LEMMA Numbers ==
  ASSUME TypeInv
  PROVE  col \in Nat /\ tcol \in Nat /\ tcol > 0 /\ Params \subseteq Nat /\ start \in Nat
<1>1. /\ sqlTypes \in ParamTypes /\ col \in 1 .. Len(sqlTypes) + 1 /\ tcol \in 1 .. TableCols + 1
      /\ start \in Nat
  BY TypeParts, Zenon DEF FlowOK
<1> QED
  BY <1>1, ParamsType, TableColsAssumption

\* What a step leaves of the bindings of earlier parameters: all of it, while a list is bound.
Kept == \A p \in Params : p < col => \A c \in Columns(p) : apd'[<<p, c>>] = apd[<<p, c>>]

\* Binding one vector leaves what is bound, and enters the vector.
LEMMA BindColumnKeeps ==
  ASSUME TypeInv, LiveInv, temporary = {}, BindColumn, ~open_tvp
  PROVE  /\ Kept
         /\ \E nulls \in NullFlags(call.x[col], start, BatchSize) :
              apd'[<<col, 0>>] = BoundVector(call.x[col], nulls)
<1>1. AtVector /\ phase = "column" /\ col \in Params
  BY DEF BindColumn, AtVector
<1>2. VectorPlaces = {<<col, 0>>}
  BY DEF VectorPlaces
<1>3. PICK nulls \in NullFlags(call.x[col], start, BatchSize) :
        apd' = [Prepared(col, call.x[col].type) EXCEPT ![<<col, 0>>] = BoundVector(call.x[col], nulls)]
  BY <1>2 DEF BindColumn, BoundVector
<1>4. Prepared(col, call.x[col].type) \in [Places -> Binding] /\ <<col, 0>> \in Places
  BY <1>1, PreparedType
<1>5. ASSUME NEW p \in Params, p < col, NEW c \in Columns(p) PROVE apd'[<<p, c>>] = apd[<<p, c>>]
  <2>1. HeldTo(p, c, col - 1)
    BY <1>1, <1>5 DEF LiveInv
  <2>2. <<p, c>> \in Places /\ Prepared(col, call.x[col].type)[<<p, c>>] = apd[<<p, c>>]
    BY <1>1, <2>1, PreparedKeeps DEF HeldTo
  <2>3. <<p, c>> # <<col, 0>>
    <3>1. p \in Int /\ col \in Int
      BY <1>1, TypeParts, ParamsType
    <3> QED
      BY <1>5, <3>1
  <2> QED
    BY <1>3, <1>4, <2>2, <2>3
<1> QED
  BY <1>3, <1>4, <1>5 DEF Kept

\* So does opening a table, which enters its number of rows.
LEMMA OpenTvpKeeps ==
  ASSUME TypeInv, LiveInv, temporary = {}, OpenTvp
  PROVE  Kept /\ apd'[<<col, 0>>] = TableBinding(col, Rows(call.x[col]))
<1>1. AtTable /\ phase = "column" /\ col \in Params /\ ~open_tvp
  BY DEF OpenTvp, AtTable, Refused
<1>2. apd' = [Prepared(col, "direct") EXCEPT ![<<col, 0>>] = TableBinding(col, Rows(call.x[col]))]
  BY DEF OpenTvp
<1>3. Prepared(col, "direct") \in [Places -> Binding] /\ <<col, 0>> \in Places
  BY <1>1, PreparedType
<1>4. ASSUME NEW p \in Params, p < col, NEW c \in Columns(p) PROVE apd'[<<p, c>>] = apd[<<p, c>>]
  <2>1. HeldTo(p, c, col - 1)
    BY <1>1, <1>4 DEF LiveInv
  <2>2. <<p, c>> \in Places /\ Prepared(col, "direct")[<<p, c>>] = apd[<<p, c>>]
    BY <1>1, <2>1, PreparedKeeps DEF HeldTo
  <2>3. <<p, c>> # <<col, 0>>
    <3>1. p \in Int /\ col \in Int
      BY <1>1, TypeParts, ParamsType
    <3> QED
      BY <1>4, <3>1
  <2> QED
    BY <1>2, <1>3, <2>2, <2>3
<1> QED
  BY <1>2, <1>3, <1>4 DEF Kept

LEMMA LiveStep ==
  ASSUME TypeInv, NoStack, LiveInv, [Next]_vars
  PROVE  LiveInv'
<1>1. /\ apd \in [Places -> Binding] /\ apd' \in [Places -> Binding] /\ Places' = Places
      /\ Params' = Params /\ temporary \subseteq temporary'
  BY BindingsStep, SameQuery, StackStep DEF TypeInv
<1>2. col \in Int /\ tcol \in Int /\ Params \subseteq Int
  BY Numbers
<1>3. ASSUME phase' \notin {"column", "table"} PROVE LiveInv'
  BY <1>3 DEF LiveInv
<1>4. SUFFICES ASSUME temporary' = {} PROVE LiveInv'
  BY DEF LiveInv
<1>5. temporary = {}
  BY <1>1, <1>4
<1>6. CASE \E ps \in SUBSET Params : DescribeParameters(ps)
  BY <1>3, <1>6 DEF DescribeParameters
<1>7. CASE \E c \in Calls : BindCall(c)
  BY <1>3, <1>7 DEF BindCall
<1>8. CASE BatchBegin
  <2>1. phase' = "column" /\ col' = 1
    BY <1>8 DEF BatchBegin
  <2>2. \A p \in Params : ~(p < 1)
    BY TypeParts, ParamsType
  <2> QED
    BY <1>1, <2>1, <2>2 DEF LiveInv
<1>9. CASE BindColumn
  <2>1. /\ AtVector /\ phase = "column" /\ col \in Params /\ col' = col + 1
        /\ UNCHANGED <<phase, open_tvp, call>>
    BY <1>9 DEF BindColumn, AtVector
  <2>2. \A p : Columns(p)' = Columns(p)
    BY <2>1 DEF Columns, Rows
  <2>3. ASSUME ~open_tvp, NEW p \in Params, p <= col, NEW c \in Columns(p)
        PROVE  <<p, c>> \in Places /\ LiveTo(apd'[<<p, c>>], col)
    <3>1. CASE p < col
      <4>1. HeldTo(p, c, col - 1)
        BY <1>5, <2>1, <2>3, <3>1 DEF LiveInv
      <4>2. <<p, c>> \in Places /\ LiveTo(apd[<<p, c>>], col - 1) /\ apd[<<p, c>>] \in Binding
        BY <1>1, <4>1 DEF HeldTo
      <4>3. LiveTo(apd[<<p, c>>], col)
        BY <1>2, <4>2, LiveLater
      <4>4. apd'[<<p, c>>] = apd[<<p, c>>]
        BY <1>5, <1>9, <2>3, <3>1, BindColumnKeeps DEF Kept
      <4> QED
        BY <4>2, <4>3, <4>4
    <3>2. CASE p = col
      <4>1. c = 0
        BY <2>1, <2>3, <3>2, AtHand, ColumnsType
      <4>2. LiveTo(apd'[<<col, 0>>], col)
        BY <1>5, <1>9, <2>1, <2>3, BindColumnKeeps, BoundIsLive
      <4>3. <<col, 0>> \in Places
        BY <2>1, TableColsAssumption DEF Places
      <4> QED
        BY <3>2, <4>1, <4>2, <4>3
    <3> QED
      BY <1>2, <2>3, <3>1, <3>2
  <2>4. /\ phase' = "column" /\ open_tvp' = open_tvp /\ col' - 1 = col
        /\ \A p \in Params : p < col' => p <= col
    BY <1>2, <2>1
  <2> QED
    BY <1>1, <2>2, <2>3, <2>4 DEF LiveInv, HeldTo, LiveTo
<1>10. CASE OpenTvp
  <2>1. /\ AtTable /\ phase = "column" /\ col \in Params /\ ~open_tvp
        /\ phase' = "table" /\ tcol' = 1 /\ UNCHANGED <<call, col>>
    BY <1>10 DEF OpenTvp, AtTable, Refused
  <2>2. \A p : Columns(p)' = Columns(p)
    BY <2>1 DEF Columns, Rows
  <2>3. ASSUME NEW p \in Params, p <= col, NEW c \in Columns(p), p < col \/ c < 1
        PROVE  <<p, c>> \in Places /\ LiveTo(apd'[<<p, c>>], col)
    <3>1. CASE p < col
      <4>1. HeldTo(p, c, col - 1)
        BY <1>5, <2>1, <2>3, <3>1 DEF LiveInv
      <4>2. <<p, c>> \in Places /\ LiveTo(apd[<<p, c>>], col - 1) /\ apd[<<p, c>>] \in Binding
        BY <1>1, <4>1 DEF HeldTo
      <4>3. LiveTo(apd[<<p, c>>], col)
        BY <1>2, <4>2, LiveLater
      <4>4. apd'[<<p, c>>] = apd[<<p, c>>]
        BY <1>5, <1>10, <2>3, <3>1, OpenTvpKeeps DEF Kept
      <4> QED
        BY <4>2, <4>3, <4>4
    <3>2. CASE p = col
      <4>1. c = 0
        <5>1. c \in Nat
          BY <2>1, <2>3, ColumnsType
        <5> QED
          BY <1>2, <2>3, <3>2, <5>1
      <4>2. LiveTo(apd'[<<col, 0>>], col)
        BY <1>5, <1>10, <2>1, OpenTvpKeeps, BoundIsLive
      <4>3. <<col, 0>> \in Places
        BY <2>1, TableColsAssumption DEF Places
      <4> QED
        BY <3>2, <4>1, <4>2, <4>3
    <3> QED
      BY <1>2, <2>3, <3>1, <3>2
  <2> QED
    BY <1>1, <2>1, <2>2, <2>3 DEF LiveInv, HeldTo, LiveTo
<1>11. CASE TvpColumn
  <2>1. /\ phase = "table" /\ tcol <= Len(call.x[col].cols) /\ tcol <= TableCols
        /\ tcol' = tcol + 1 /\ UNCHANGED <<phase, call, col>>
    BY <1>11 DEF TvpColumn
  <2>2. \A p : Columns(p)' = Columns(p)
    BY <2>1 DEF Columns, Rows
  <2>3. PICK nulls \in NullFlags(call.x[col].cols[tcol], 0, Rows(call.x[col])) :
          apd' = [q \in Places |-> IF q = Target(tcol)
                                   THEN BoundColumn(call.x[col].cols[tcol], nulls) ELSE apd[q]]
    BY <1>11 DEF TvpColumn, BoundColumn
  <2>4. col \in Params /\ IsTable(call.x[col])
    BY <2>1, AtHand
  <2>5. LiveTo(BoundColumn(call.x[col].cols[tcol], nulls), col)
    BY <2>4, BoundIsLive
  <2>6. ASSUME NEW p \in Params, p <= col, NEW c \in Columns(p), p < col \/ c < tcol + 1
        PROVE  <<p, c>> \in Places /\ LiveTo(apd'[<<p, c>>], col)
    <3>1. CASE <<p, c>> = Target(tcol) /\ <<p, c>> \in Places
      BY <2>3, <2>5, <3>1
    <3>2. CASE <<p, c>> # Target(tcol) /\ (p < col \/ c < tcol)
      <4>1. HeldTo(p, c, col)
        BY <1>5, <2>1, <2>6, <3>2 DEF LiveInv
      <4> QED
        BY <2>3, <3>2, <4>1 DEF HeldTo
    <3>3. CASE p < col \/ c < tcol
      <4>1. HeldTo(p, c, col)
        BY <1>5, <2>1, <2>6, <3>3 DEF LiveInv
      <4> QED
        BY <3>1, <3>2, <3>3, <4>1 DEF HeldTo
    <3>4. CASE p = col /\ c = tcol
      <4>1. tcol > 0 /\ tcol \in 0 .. TableCols
        BY <2>1, Numbers, TableColsAssumption
      <4>2. Rows(call.x[col]) > 0
        BY <2>1, <2>4, <2>6, <3>4, <4>1, ColumnsType
      <4>3. <<p, c>> = Target(tcol)
        BY <3>4, <4>2 DEF Target
      <4>4. <<p, c>> \in Places
        BY <2>4, <3>4, <4>1 DEF Places
      <4> QED
        BY <3>1, <4>3, <4>4
    <3> QED
      <4>1. c \in Int
        BY <2>1, <2>6, ColumnsType
      <4> QED
        BY <1>2, <2>6, <3>3, <3>4, <4>1
  <2> QED
    BY <1>1, <2>1, <2>2, <2>6 DEF LiveInv, HeldTo, LiveTo
<1>12. CASE TvpClose
  <2>1. /\ phase = "table" /\ tcol > Len(call.x[col].cols) /\ phase' = "column" /\ col' = col + 1
        /\ call' = call
    BY <1>12 DEF TvpClose
  <2>6. apd' = Free(apd, All("table on the stack"))
    BY <1>12 DEF TvpClose
  <2>2. \A p : Columns(p)' = Columns(p)
    BY <2>1 DEF Columns, Rows
  <2>3. col \in Params /\ IsTable(call.x[col])
    BY <2>1, AtHand
  <2>4. ASSUME NEW p \in Params, p <= col, NEW c \in Columns(p)
        PROVE  <<p, c>> \in Places /\ LiveTo(apd'[<<p, c>>], col)
    <3>1. p < col \/ c < tcol
      <4>1. CASE p = col
        <5>1. phase \in {"batch", "column", "table"} /\ IsTable(call.x[p]) /\ c \in Columns(p)
          BY <2>1, <2>3, <2>4, <4>1
        <5>2. c \in Nat /\ c <= Len(call.x[p].cols)
          BY <5>1, ColumnsType
        <5>3. Len(call.x[p].cols) \in Nat /\ tcol > Len(call.x[p].cols)
          BY <2>1, <4>1, <5>1, VectorType
        <5> QED
          BY <1>2, <5>2, <5>3
      <4> QED
        BY <1>2, <2>4, <4>1
    <3>2. HeldTo(p, c, col)
      BY <1>5, <2>1, <2>4, <3>1 DEF LiveInv
    <3>3. <<p, c>> \in Places /\ apd'[<<p, c>>] = apd[<<p, c>>]
      BY <1>5, <2>6, <3>2, StackKeeps DEF HeldTo
    <3> QED
      BY <3>2, <3>3 DEF HeldTo
  <2>5. col' - 1 = col /\ \A p \in Params : p < col' => p <= col
    BY <1>2, <2>1
  <2> QED
    BY <1>1, <2>1, <2>2, <2>4, <2>5 DEF LiveInv, HeldTo, LiveTo
<1>13. CASE BatchesDone \/ BindColumnFails \/ OpenTvpRefused \/ OpenTvpFails \/ TvpColumnFails
            \/ TvpCloseFails \/ Execute \/ ExecuteFails
  BY <1>3, <1>13 DEF BatchesDone, BindColumnFails, OpenTvpRefused, OpenTvpFails, TvpColumnFails,
     TvpCloseFails, Execute, ExecuteFails, TvpUnwinds, Return
<1>14. CASE UNCHANGED vars
  BY <1>1, <1>14 DEF vars, result, LiveInv, HeldTo, Columns
<1> QED
  BY <1>6, <1>7, <1>8, <1>9, <1>10, <1>11, <1>12, <1>13, <1>14 DEF Next

MemoryInv == TypeInv /\ NoStack /\ OpenStuck /\ LiveInv

LEMMA MemoryInit == Init => MemoryInv
<1> SUFFICES ASSUME Init PROVE MemoryInv
  OBVIOUS
<1>1. NoStack
  <2>1. apd = [q \in Places |-> Unbound]
    BY DEF Init
  <2>2. Unbound.value.owner[1] = "freed" /\ Unbound.len.owner[1] = "freed"
    BY DEF Unbound, Freed
  <2> QED
    BY <2>1, <2>2 DEF NoStack
<1>2. OpenStuck /\ LiveInv
  <2>1. open_tvp = FALSE /\ phase = "idle"
    BY DEF Init
  <2> QED
    BY <2>1 DEF OpenStuck, LiveInv
<1> QED
  BY <1>1, <1>2, TypeInit DEF MemoryInv

LEMMA MemoryStep == MemoryInv /\ [Next]_vars => MemoryInv'
<1> SUFFICES ASSUME MemoryInv, [Next]_vars PROVE MemoryInv'
  OBVIOUS
<1>1. TypeInv'
  BY TypeStep DEF MemoryInv
<1>2. NoStack' /\ OpenStuck' /\ LiveInv'
  BY StackStep, StuckStep, LiveStep DEF MemoryInv
<1> QED
  BY <1>1, <1>2 DEF MemoryInv

\* With every parameter bound no table is open.
LEMMA AllBound ==
  ASSUME MemoryInv, AboutToExecute
  PROVE  ~open_tvp /\ phase = "column" /\ \A p \in Params : p < col
<1>1. /\ tvps \subseteq Params /\ Params = 1 .. Len(sqlTypes) /\ Len(sqlTypes) \in Nat
      /\ col \in 1 .. Len(sqlTypes) + 1
  BY TypeParts, ParamsType DEF MemoryInv, DescrOK, FlowOK
<1> QED
  BY <1>1 DEF MemoryInv, OpenStuck, AboutToExecute

\* Whatever was bound, failed and was bound again before: when SQLExecute() is called every
\* pointer the driver reads a parameter through is to memory that exists, unless a second data
\* frame was given for one parameter, and no data frame was bound to what is not a table.
THEOREM BuffersAreSound == Spec => []BuffersSound
<1>1. MemoryInv => BuffersSound
  <2> SUFFICES ASSUME MemoryInv PROVE BuffersSound
    OBVIOUS
  <2>1. TypeOK
    BY DEF MemoryInv, TypeInv
  <2>2. ASSUME AboutToExecute, temporary = {}, NEW p \in Params, NEW c \in Columns(p)
        PROVE  Freed \notin {apd[<<p, c>>].value, apd[<<p, c>>].len}
    <3>1. HeldTo(p, c, col - 1)
      BY <2>2, AllBound DEF MemoryInv, LiveInv
    <3>2. Freed.owner[1] = "freed"
      BY DEF Freed
    <3> QED
      BY <3>1, <3>2 DEF HeldTo, LiveTo
  <2> QED
    BY <2>1, <2>2 DEF BuffersSound, ReadsLiveMemory, Columns
<1> QED
  BY <1>1, MemoryInit, MemoryStep, PTL DEF Spec

-----------------------------------------------------------------------------
(* The driver reads what was given *)

\* The rows the next SQLExecute() reads for a parameter are those of the batch.
Exact(p) == \A i \in 1 .. BatchSize : RowRead(p, i) = RowGiven(p, start + i)

\* The same for the columns of the table at hand that are bound.
TableExact ==
  /\ IsTableBinding(col) /\ apd[<<col, 0>>].value.data = <<Rows(call.x[col])>>
  /\ \A c \in DOMAIN call.x[col].cols : c < tcol =>
       \A j \in 1 .. Rows(call.x[col]) : Read(<<col, c>>, j) = call.x[col].cols[c].vals[j]

RowValues == Seq(Seq(Int))

\* What was read is what was given, up to the batch at hand.
ReadSoFar ==
  \A p \in Params :
    /\ got[p] \in Seq(RowValues)
    /\ \A i \in 1 .. Len(got[p]) : got[p][i] = RowGiven(p, i)
    /\ phase = "bound" => Len(got[p]) = ParameterRows(call.x)
    /\ phase = "batch" => Len(got[p]) = IF start < ParameterRows(call.x) THEN start
                                        ELSE ParameterRows(call.x)
    /\ phase \in {"column", "table"} => Len(got[p]) = start

RowsInv ==
  SoundCall =>
    /\ ReadSoFar
    /\ phase = "table" \/ (phase = "column" /\ ~open_tvp) => \A p \in Params : p < col => Exact(p)
    /\ phase = "table" => TableExact

\* What the driver reads through one binding.
ReadAt(b, i) ==
  CASE Freed \in {b.value, b.len} -> Garbage
    [] b.len # NullPointer /\ (i > Len(b.len.data) \/ b.len.data[i] = Missing) -> Missing
    [] OTHER -> IF i \in DOMAIN b.value.data THEN b.value.data[i] ELSE Garbage

LEMMA ReadIsReadAt == \A q, i : Read(q, i) = ReadAt(apd[q], i)
BY DEF Read, ReadAt

\* In a sound vector an entry is flagged exactly if it is NA, and stored if it is not.
LEMMA SliceExact ==
  ASSUME NEW v, IsVector(v), SoundVector(v), NEW from \in Nat, NEW n \in Nat,
         NEW nulls \in NullFlags(v, from, n), NEW i \in 1 .. n
  PROVE  /\ nulls[i] <=> At(v, from + i) = Missing
         /\ At(v, from + i) # Missing => Stored(v, from, n)[i] = At(v, from + i)
<1>1. At(v, from + i) # Missing => Stored(v, from, n)[i] = At(v, from + i)
  BY DEF Stored
<1>2. nulls[i] <=> At(v, from + i) = Missing
  <2>1. v.type # "date_int"
    BY DEF SoundVector, IntegerStored
  <2>2. CASE v.type = "datetime_int"
    <3>1. nulls = [k \in 1 .. n |-> FALSE]
      BY <2>2 DEF NullFlags
    <3>2. \A k \in DOMAIN v.vals : v.vals[k] # Missing
      BY <2>2 DEF SoundVector, IntegerStored
    <3>3. At(v, from + i) # Missing
      BY <3>2 DEF At, Garbage, Missing
    <3> QED
      BY <3>1, <3>3
  <2>3. CASE v.type # "datetime_int"
    <3>1. nulls = [k \in 1 .. n |-> At(v, from + k) = Missing]
      BY <2>1, <2>3 DEF NullFlags
    <3> QED
      BY <3>1
  <2> QED
    BY <2>2, <2>3
<1> QED
  BY <1>1, <1>2

\* What is read through a binding of a slice is the slice.
LEMMA ReadExact ==
  ASSUME NEW v, IsVector(v), SoundVector(v), NEW from \in Nat, NEW n \in Nat,
         NEW nulls \in NullFlags(v, from, n), NEW i \in 1 .. n, NEW b,
         b.value.owner[1] # "freed", b.len.owner[1] # "freed", b.value.data = Stored(v, from, n),
         IF b.len = NullPointer THEN At(v, from + i) # Missing ELSE b.len.data = LenOrNull(nulls)
  PROVE  ReadAt(b, i) = At(v, from + i)
<1>1. Freed \notin {b.value, b.len}
  <2>1. Freed.owner[1] = "freed"
    BY DEF Freed
  <2> QED
    BY <2>1
<1>2. /\ nulls[i] <=> At(v, from + i) = Missing
      /\ At(v, from + i) # Missing => Stored(v, from, n)[i] = At(v, from + i)
  BY SliceExact
<1>3. DOMAIN Stored(v, from, n) = 1 .. n
  BY DEF Stored
<1>4. CASE b.len = NullPointer
  <2>1. ReadAt(b, i) = IF i \in DOMAIN b.value.data THEN b.value.data[i] ELSE Garbage
    BY <1>1, <1>4 DEF ReadAt
  <2> QED
    BY <1>2, <1>3, <1>4, <2>1
<1>5. CASE b.len # NullPointer
  <2>1. nulls \in [1 .. n -> BOOLEAN]
    BY SliceType
  <2>2. /\ b.len.data \in [1 .. n -> Int]
        /\ b.len.data[i] = IF nulls[i] THEN Missing ELSE 1
    BY <1>5, <2>1 DEF LenOrNull, Missing
  <2>3. Len(b.len.data) = n
    BY <2>2
  <2>4. b.len.data[i] = Missing <=> At(v, from + i) = Missing
    BY <1>2, <2>2 DEF Missing
  <2>5. ReadAt(b, i) = IF b.len.data[i] = Missing THEN Missing
                       ELSE IF i \in DOMAIN b.value.data THEN b.value.data[i] ELSE Garbage
    BY <1>1, <1>5, <2>3 DEF ReadAt
  <2> QED
    BY <1>2, <1>3, <2>4, <2>5
<1> QED
  BY <1>4, <1>5

LEMMA NullPointerOwner == NullPointer.owner[1] = "null pointer" /\ NullPointer.owner[1] # "freed"
BY DEF NullPointer

\* The rows that were given are rows.
LEMMA RowGivenType ==
  ASSUME TypeInv, phase \in {"batch", "column", "table"}, NEW p \in Params, NEW i \in Int
  PROVE  RowGiven(p, i) \in RowValues
<1>1. IsVector(call.x[p]) \/ IsTable(call.x[p])
  BY AtHand
<1>2. CASE IsVector(call.x[p])
  <2>1. At(call.x[p], i) \in Int
    BY <1>2 DEF At, IsVector, Garbage
  <2>2. RowGiven(p, i) = << <<At(call.x[p], i)>> >>
    BY <1>1, <1>2, VectorType DEF RowGiven
  <2>3. <<At(call.x[p], i)>> \in Seq(Int)
    BY <2>1
  <2> QED
    BY <2>2, <2>3 DEF RowValues
<1>3. CASE IsTable(call.x[p])
  <2>1. RowGiven(p, i) = [c \in 1 .. Len(call.x[p].cols) |-> call.x[p].cols[c].vals]
    BY <1>1, <1>3, VectorType DEF RowGiven
  <2>2. Len(call.x[p].cols) \in Nat /\ DOMAIN call.x[p].cols = 1 .. Len(call.x[p].cols)
        /\ \A c \in DOMAIN call.x[p].cols : IsVector(call.x[p].cols[c])
    BY <1>3, VectorType
  <2>3. \A c \in 1 .. Len(call.x[p].cols) : call.x[p].cols[c].vals \in Seq(Int)
    BY <2>2 DEF IsVector
  <2> QED
    BY <2>1, <2>2, <2>3 DEF RowValues
<1> QED
  BY <1>1, <1>2, <1>3

\* Exactness only depends on the bindings of the parameter.
LEMMA ExactKept ==
  ASSUME TypeInv, SoundCall, phase \in {"batch", "column", "table"}, NEW p \in Params,
         call' = call, start' = start, Exact(p),
         \A c \in Columns(p) : apd'[<<p, c>>] = apd[<<p, c>>]
  PROVE  Exact(p)'
<1>1. BatchSize' = BatchSize
  BY DEF BatchSize, ParameterRows
<1>2. \A i : RowGiven(p, i)' = RowGiven(p, i)
  BY DEF RowGiven, At
<1>3. 0 \in Columns(p) /\ apd'[<<p, 0>>] = apd[<<p, 0>>]
  BY ColumnsType
<1>4. ASSUME NEW i PROVE RowRead(p, i)' = RowRead(p, i)
  <2>1. CASE call.x[p].type # "dataframe"
    BY <1>3, <2>1, ReadIsReadAt DEF RowRead, Read
  <2>2. CASE call.x[p].type = "dataframe" /\ ~IsTableBinding(p)
    BY <1>3, <2>2 DEF RowRead, IsTableBinding
  <2>3. CASE call.x[p].type = "dataframe" /\ IsTableBinding(p)
    <3>1. DOMAIN call.x = Params /\ IsTable(call.x[p])
      BY <2>3, AtHand, VectorType
    <3>2. Rows(call.x[p]) > 0
      BY <2>3, <3>1 DEF SoundCall, SoundTable
    <3>3. 1 .. Len(call.x[p].cols) \subseteq Columns(p)
      BY <2>3, <3>1, <3>2, VectorType DEF Columns
    <3>4. \A c \in 1 .. Len(call.x[p].cols) : \A j : Read(<<p, c>>, j)' = Read(<<p, c>>, j)
      BY <3>3 DEF Read
    <3>5. RowRead(p, i) = [c \in 1 .. Len(call.x[p].cols) |->
                             [j \in 1 .. apd[<<p, 0>>].value.data[1] |-> Read(<<p, c>>, j)]]
      BY <2>3 DEF RowRead
    <3>6. RowRead(p, i)' = [c \in 1 .. Len(call.x[p].cols) |->
                              [j \in 1 .. apd[<<p, 0>>].value.data[1] |-> Read(<<p, c>>, j)']]
      BY <1>3, <2>3 DEF RowRead, IsTableBinding
    <3> QED
      BY <3>4, <3>5, <3>6
  <2> QED
    BY <2>1, <2>2, <2>3
<1> QED
  BY <1>1, <1>2, <1>4 DEF Exact

\* A vector that is bound is read as it was given.
LEMMA VectorExact ==
  ASSUME TypeInv, LiveInv, SoundCall, BindColumn, ~open_tvp, NEW p, p = col
  PROVE  Exact(p)'
<1>1. /\ AtVector /\ phase = "column" /\ col \in Params /\ call' = call /\ start' = start
      /\ temporary = {} /\ call.x[p].type # "dataframe"
  BY DEF BindColumn, AtVector, SoundCall
<1> DEFINE v == call.x[p]
<1>2. IsVector(v) /\ BatchSize \in Nat /\ start \in Nat /\ DOMAIN call.x = Params
  BY <1>1, AtHand, Numbers
<1>3. SoundVector(v)
  BY <1>1, <1>2 DEF SoundCall
<1>4. PICK nulls \in NullFlags(v, start, BatchSize) : apd'[<<p, 0>>] = BoundVector(v, nulls)
  BY <1>1, BindColumnKeeps
<1> DEFINE b == BoundVector(v, nulls)
<1>5. /\ b.value.owner[1] # "freed" /\ b.len.owner[1] # "freed"
      /\ b.value.data = Stored(v, start, BatchSize)
      /\ b.len.data = LenOrNull(nulls) /\ b.len.owner[1] # "null pointer"
  <2>1. Holder(v.type, col)[1] # "freed"
    BY <1>1, HolderType
  <2> QED
    BY <2>1 DEF BoundVector
<1>6. b.len # NullPointer
  BY <1>5, NullPointerOwner
<1> HIDE DEF b, v
<1>7. ASSUME NEW i \in 1 .. BatchSize PROVE ReadAt(b, i) = At(v, start + i)
  BY <1>2, <1>3, <1>5, <1>6, ReadExact
<1>8. BatchSize' = BatchSize
  BY <1>1 DEF BatchSize, ParameterRows
<1>9. \A i : RowRead(p, i)' = << <<ReadAt(b, i)>> >>
  BY <1>1, <1>4 DEF RowRead, Read, ReadAt, b
<1>10. \A i : RowGiven(p, i)' = << <<At(v, i)>> >>
  BY <1>1 DEF RowGiven, At, v
<1> QED
  BY <1>1, <1>7, <1>8, <1>9, <1>10 DEF Exact

\* A column of a table that is bound is read as it was given, and the others stay so.
LEMMA ColumnExact ==
  ASSUME TypeInv, SoundCall, TvpColumn, TableExact
  PROVE  TableExact'
<1>1. /\ phase = "table" /\ tcol <= Len(call.x[col].cols) /\ tcol <= TableCols /\ tcol' = tcol + 1
      /\ call' = call /\ col' = col /\ tcol \in Nat /\ tcol > 0
  BY Numbers DEF TvpColumn
<1> DEFINE f == call.x[col]
           v == f.cols[tcol]
           n == Rows(f)
<1>2. col \in Params /\ IsTable(f) /\ f.type = "dataframe" /\ DOMAIN call.x = Params
  BY <1>1, AtHand
<1>3. /\ SoundTable(f) /\ n > 0 /\ n \in Nat /\ DOMAIN f.cols = 1 .. Len(f.cols) /\ tcol \in DOMAIN f.cols
      /\ \A c \in DOMAIN f.cols : IsVector(f.cols[c]) /\ Len(f.cols[c].vals) = n
  <2>1. SoundTable(f) /\ n > 0
    BY <1>2 DEF SoundCall, SoundTable
  <2> QED
    BY <1>1, <1>2, <2>1, VectorType
<1>4. IsVector(v) /\ SoundVector(v) /\ Len(v.vals) = n
  BY <1>3 DEF SoundTable
<1>5. Target(tcol) = <<col, tcol>>
  BY <1>3 DEF Target
<1>6. PICK nulls \in NullFlags(v, 0, n) :
        apd' = [q \in Places |-> IF q = <<col, tcol>> THEN BoundColumn(v, nulls) ELSE apd[q]]
  BY <1>5 DEF TvpColumn, BoundColumn
<1>7. <<col, 0>> \in Places /\ <<col, tcol>> \in Places /\ <<col, 0>> # <<col, tcol>>
  BY <1>1, <1>2, TableColsAssumption DEF Places
<1> DEFINE b == BoundColumn(v, nulls)
<1>8. /\ b.value.owner[1] # "freed" /\ b.value.data = Stored(v, 0, n) /\ b.len = TvpLengths(v, nulls)
  <2>1. TvpHolder(v.type, col)[1] # "freed"
    BY <1>2, HolderType
  <2> QED
    BY <2>1 DEF BoundColumn
<1>9. /\ b.len.owner[1] # "freed"
      /\ b.len = NullPointer => v.type = "string" /\ n <= 1
      /\ b.len # NullPointer => b.len.data = LenOrNull(nulls)
  <2>1. TvpImpl(col)[1] # "freed" /\ TvpImpl(col)[1] # "null pointer"
    BY <1>2, HolderType
  <2>2. CASE v.type = "string" /\ n <= 1
    <3>1. b.len = NullPointer
      BY <1>8, <2>2 DEF TvpLengths
    <3> QED
      BY <2>2, <3>1, NullPointerOwner
  <2>3. CASE ~(v.type = "string" /\ n <= 1)
    <3>1. b.len = [owner |-> TvpImpl(col), data |-> LenOrNull(nulls)]
      BY <1>8, <2>3 DEF TvpLengths
    <3>2. b.len.owner = TvpImpl(col) /\ b.len.data = LenOrNull(nulls)
      BY <3>1
    <3>3. b.len # NullPointer
      BY <2>1, <3>2, NullPointerOwner
    <3> QED
      BY <2>1, <3>2, <3>3
  <2> QED
    BY <2>2, <2>3
<1>10. ASSUME NEW j \in 1 .. n PROVE At(v, 0 + j) = v.vals[j] /\ (b.len = NullPointer => v.vals[j] # Missing)
  <2>1. At(v, 0 + j) = v.vals[j]
    BY <1>3, <1>4 DEF At, IsVector
  <2>2. ASSUME b.len = NullPointer PROVE v.vals[j] # Missing
    <3>1. n = 1 /\ j = 1 /\ v.type = "string"
      BY <1>3, <1>9, <2>2
    <3> QED
      BY <1>3, <3>1 DEF SoundTable
  <2> QED
    BY <2>1, <2>2
<1>11. apd'[<<col, 0>>] = apd[<<col, 0>>] /\ apd'[<<col, tcol>>] = b
  BY <1>6, <1>7
<1> HIDE DEF b, v
<1>12. ASSUME NEW j \in 1 .. n PROVE ReadAt(b, j) = v.vals[j]
  <2>1. IF b.len = NullPointer THEN At(v, 0 + j) # Missing ELSE b.len.data = LenOrNull(nulls)
    BY <1>9, <1>10
  <2>2. n \in Nat /\ 0 \in Nat
    BY <1>3
  <2> HIDE DEF n
  <2>3. ReadAt(b, j) = At(v, 0 + j)
    BY <1>4, <1>8, <1>9, <2>1, <2>2, ReadExact
  <2> QED
    BY <1>10, <2>3
<1>13. ASSUME NEW c \in DOMAIN f.cols, c < tcol + 1, NEW j \in 1 .. n
       PROVE  ReadAt(apd'[<<col, c>>], j) = f.cols[c].vals[j]
  <2>1. CASE c = tcol
    BY <1>11, <1>12, <2>1 DEF v
  <2>2. CASE c < tcol
    <3>1. <<col, c>> \in Places /\ <<col, c>> # <<col, tcol>>
      BY <1>1, <1>2, <1>3, <2>2, TableColsAssumption DEF Places
    <3>2. apd'[<<col, c>>] = apd[<<col, c>>]
      BY <1>6, <3>1
    <3>3. Read(<<col, c>>, j) = f.cols[c].vals[j]
      BY <2>2, <1>13 DEF TableExact
    <3> QED
      BY <3>2, <3>3, ReadIsReadAt
  <2> QED
    BY <1>1, <1>3, <1>13, <2>1, <2>2
<1>14. \A c, j : Read(<<col, c>>, j)' = ReadAt(apd'[<<col, c>>], j)
  BY <1>1 DEF Read, ReadAt
<1>15. call.x[col]' = f /\ Rows(call.x[col])' = n /\ col' = col /\ tcol' = tcol + 1
  BY <1>1 DEF Rows
<1>16. (IsTableBinding(col) /\ apd[<<col, 0>>].value.data = <<Rows(call.x[col])>>)'
  BY <1>11, <1>15 DEF TableExact, IsTableBinding
<1> HIDE DEF f, n
<1> QED
  BY <1>13, <1>14, <1>15, <1>16 DEF TableExact

\* A table whose columns are all bound is read as it was given.
LEMMA TableIsExact ==
  ASSUME TypeInv, NoStack, LiveInv, SoundCall, TvpClose, TableExact, NEW p, p = col
  PROVE  Exact(p)'
<1>1. /\ phase = "table" /\ tcol > Len(call.x[p].cols) /\ call' = call /\ start' = start
      /\ temporary = {}
  BY DEF TvpClose, SoundCall
<1>11. apd' = Free(apd, All("table on the stack"))
  BY DEF TvpClose
<1> DEFINE f == call.x[p]
           n == Rows(f)
<1>2. /\ p \in Params /\ IsTable(f) /\ f.type = "dataframe" /\ DOMAIN call.x = Params
  BY <1>1, AtHand
<1>3. /\ n > 0 /\ n \in Nat /\ DOMAIN f.cols = 1 .. Len(f.cols) /\ Len(f.cols) \in Nat
      /\ \A c \in DOMAIN f.cols : IsVector(f.cols[c]) /\ Len(f.cols[c].vals) = n
  <2>1. n > 0
    BY <1>2 DEF SoundCall, SoundTable
  <2> QED
    BY <1>1, <1>2, <2>1, VectorType
<1>4. \A c \in 1 .. Len(f.cols) : c < tcol
  <2>1. tcol \in Nat
    BY Numbers
  <2>2. tcol > Len(f.cols) /\ Len(f.cols) \in Nat
    BY <1>1, <1>3
  <2> HIDE DEF f
  <2> QED
    BY <2>1, <2>2
<1>5. ASSUME NEW c \in {0} \cup 1 .. Len(f.cols) PROVE apd'[<<p, c>>] = apd[<<p, c>>]
  <2>1. c \in Columns(p) /\ c < tcol
    BY <1>2, <1>3, <1>4, Numbers DEF Columns
  <2>2. HeldTo(p, c, col)
    <3>1. col \in Nat /\ p <= col
      BY Numbers
    <3> QED
      BY <1>1, <1>2, <2>1, <3>1 DEF LiveInv
  <2>3. <<p, c>> \in Places
    BY <2>2 DEF HeldTo
  <2> QED
    BY <1>1, <1>11, <2>3, StackKeeps
<1>6. /\ apd'[<<p, 0>>].value.owner = <<"table type", p>>
      /\ apd'[<<p, 0>>].value.data[1] = n
  <2>1. apd[<<p, 0>>].value.owner = <<"table type", p>> /\ apd[<<p, 0>>].value.data = <<n>>
    BY DEF TableExact, IsTableBinding
  <2>2. apd'[<<p, 0>>] = apd[<<p, 0>>]
    BY <1>5
  <2>3. \A x : <<x>>[1] = x
    OBVIOUS
  <2> HIDE DEF n
  <2> QED
    BY <2>1, <2>2, <2>3, Zenon
<1>7. \A c \in 1 .. Len(f.cols), j \in 1 .. n : Read(<<p, c>>, j)' = f.cols[c].vals[j]
  <2>1. ASSUME NEW c \in 1 .. Len(f.cols), NEW j \in 1 .. n PROVE Read(<<p, c>>, j) = f.cols[c].vals[j]
    <3>1. c \in DOMAIN f.cols /\ c < tcol
      BY <1>3, <1>4
    <3> QED
      BY <3>1 DEF TableExact
  <2> QED
    <3>1. \A c \in 1 .. Len(f.cols) : \A j : Read(<<p, c>>, j)' = Read(<<p, c>>, j)
      BY <1>5 DEF Read
    <3> QED
      BY <2>1, <3>1
<1>8. \A i : RowRead(p, i)' = [c \in 1 .. Len(f.cols) |-> [j \in 1 .. n |-> Read(<<p, c>>, j)']]
  BY <1>1, <1>2, <1>6 DEF RowRead, IsTableBinding
<1>9. \A c \in 1 .. Len(f.cols) : [j \in 1 .. n |-> Read(<<p, c>>, j)'] = f.cols[c].vals
  <2> SUFFICES ASSUME NEW c \in 1 .. Len(f.cols)
               PROVE  [j \in 1 .. n |-> Read(<<p, c>>, j)'] = f.cols[c].vals
    OBVIOUS
  <2>1. f.cols[c].vals = [j \in 1 .. n |-> f.cols[c].vals[j]]
    BY <1>3 DEF IsVector
  <2> QED
    BY <1>7, <2>1
<1>10. \A i : RowGiven(p, i)' = [c \in 1 .. Len(f.cols) |-> f.cols[c].vals]
  BY <1>1, <1>2 DEF RowGiven
<1> QED
  BY <1>8, <1>9, <1>10 DEF Exact

LEMMA Joined ==
  ASSUME NEW S, NEW s \in Seq(S), NEW t \in Seq(S)
  PROVE  /\ s \o t \in Seq(S) /\ Len(s \o t) = Len(s) + Len(t)
         /\ \A i \in 1 .. Len(s) + Len(t) : (s \o t)[i] = IF i <= Len(s) THEN s[i] ELSE t[i - Len(s)]
OBVIOUS

\* What SQLExecute() reads continues what was read before.
LEMMA ExecuteReads ==
  ASSUME MemoryInv, ReadSoFar, \A p \in Params : Exact(p), Execute
  PROVE  ReadSoFar'
<1>1. /\ phase = "column" /\ phase' = "batch" /\ start' = start + call.batch_rows /\ call' = call
      /\ sqlTypes' = sqlTypes
      /\ got' = [p \in Params |-> got[p] \o [i \in 1 .. BatchSize |-> RowRead(p, i)]]
  BY DEF Execute
<1>2. TypeInv /\ Params' = Params
  BY <1>1, SameQuery DEF MemoryInv
<1>3. /\ call \in Calls /\ start \in Nat /\ start < ParameterRows(call.x)
  BY <1>1, <1>2 DEF TypeInv, TypeOK, CallOK
<1> DEFINE B == BatchSize
           rows == ParameterRows(call.x)
<1>4. /\ B \in Nat /\ rows \in Nat /\ call.batch_rows \in Nat
      /\ B = call.batch_rows \/ start + B = rows
      /\ start + B <= rows /\ B <= call.batch_rows
  BY <1>3, BatchSizeType, ParameterRowsType, CallType
<1>5. ParameterRows(call.x)' = rows
  BY <1>1 DEF ParameterRows
<1>6. \A p, i : RowGiven(p, i)' = RowGiven(p, i)
  BY <1>1 DEF RowGiven, At
<1>7. ASSUME NEW p \in Params
      PROVE  /\ got'[p] \in Seq(RowValues) /\ Len(got'[p]) = start + B
             /\ \A i \in 1 .. Len(got'[p]) : got'[p][i] = RowGiven(p, i)
  <2> DEFINE s == [i \in 1 .. B |-> RowRead(p, i)]
  <2>1. /\ got[p] \in Seq(RowValues) /\ Len(got[p]) = start
        /\ \A i \in 1 .. start : got[p][i] = RowGiven(p, i)
    BY <1>1 DEF ReadSoFar
  <2>2. \A i \in 1 .. B : RowRead(p, i) = RowGiven(p, start + i) /\ RowRead(p, i) \in RowValues
    <3>1. \A i \in 1 .. B : RowRead(p, i) = RowGiven(p, start + i)
      BY DEF Exact
    <3>2. \A i \in 1 .. B : RowGiven(p, start + i) \in RowValues
      BY <1>1, <1>2, <1>3, <1>4, RowGivenType
    <3> QED
      BY <3>1, <3>2
  <2>3. s \in Seq(RowValues) /\ Len(s) = B /\ \A i \in 1 .. B : s[i] = RowGiven(p, start + i)
    BY <1>4, <2>2
  <2>4. got'[p] = got[p] \o s
    BY <1>1
  <2> HIDE DEF s, B
  <2>5. got'[p] \in Seq(RowValues) /\ Len(got'[p]) = start + B
    BY <2>1, <2>3, <2>4, Joined
  <2>6. ASSUME NEW i \in 1 .. start + B PROVE got'[p][i] = RowGiven(p, i)
    <3>1. CASE i <= start
      <4>1. got'[p][i] = got[p][i]
        BY <1>3, <1>4, <2>1, <2>3, <2>4, <3>1, Joined
      <4> QED
        BY <2>1, <3>1, <4>1
    <3>2. CASE i > start
      <4>1. i - start \in 1 .. B /\ start + (i - start) = i
        BY <1>3, <1>4, <3>2
      <4>2. got'[p][i] = s[i - start]
        <5>1. /\ i \in 1 .. Len(got[p]) + Len(s) /\ ~(i <= Len(got[p])) /\ Len(got[p]) = start
              /\ got[p] \in Seq(RowValues) /\ s \in Seq(RowValues)
          BY <1>3, <1>4, <2>1, <2>3, <3>2
        <5>2. (got[p] \o s)[i] = s[i - Len(got[p])]
          BY <5>1, Joined
        <5> QED
          BY <2>4, <5>1, <5>2
      <4> QED
        BY <2>3, <4>1, <4>2
    <3> QED
      BY <1>3, <1>4, <3>1, <3>2
  <2> QED
    BY <2>5, <2>6
<1>8. start + B = IF start' < rows THEN start' ELSE rows
  <2> HIDE DEF B, rows
  <2> QED
    BY <1>1, <1>3, <1>4
<1> HIDE DEF B, rows
<1> QED
  BY <1>1, <1>2, <1>5, <1>6, <1>7, <1>8 DEF ReadSoFar

\* Every other step within a call leaves what was read.
LEMMA ReadKept ==
  ASSUME TypeInv, ReadSoFar, Params' = Params, got' = got, call' = call, start' = start,
         \/ phase' = phase \/ phase' = "idle"
         \/ phase = "batch" /\ phase' = "column" /\ start < ParameterRows(call.x)
         \/ phase = "batch" /\ phase' = "bound" /\ ~(start < ParameterRows(call.x))
         \/ {phase, phase'} \subseteq {"column", "table"}
  PROVE  ReadSoFar'
<1>1. ParameterRows(call.x)' = ParameterRows(call.x)
  BY DEF ParameterRows
<1>2. \A p, i : RowGiven(p, i)' = RowGiven(p, i)
  BY DEF RowGiven, At
<1>3. ASSUME NEW p \in Params
      PROVE  /\ phase' = "bound" => Len(got[p]) = ParameterRows(call.x)
             /\ phase' = "batch" => Len(got[p]) = IF start < ParameterRows(call.x) THEN start
                                                  ELSE ParameterRows(call.x)
             /\ phase' \in {"column", "table"} => Len(got[p]) = start
  BY DEF ReadSoFar
<1> QED
  BY <1>1, <1>2, <1>3 DEF ReadSoFar

LEMMA RowsStep ==
  ASSUME MemoryInv, RowsInv, [Next]_vars
  PROVE  RowsInv'
<1>1. /\ TypeInv /\ NoStack /\ LiveInv /\ Params' = Params /\ temporary \subseteq temporary'
      /\ sqlTypes' = sqlTypes
  BY BindingsStep, SameQuery, StackStep DEF MemoryInv
<1>2. col \in Nat /\ tcol \in Nat /\ Params \subseteq Nat
  BY <1>1, Numbers
<1>3. ASSUME call' = call, SoundCall' PROVE SoundCall /\ temporary = {}
  BY <1>1, <1>3 DEF SoundCall, SoundTable, Rows
<1>4. ASSUME call' = call, got' = got, start' = start,
             \/ phase' = "idle"
             \/ phase = "batch" /\ phase' = "bound" /\ ~(start < ParameterRows(call.x))
      PROVE  RowsInv'
  <2> SUFFICES ASSUME SoundCall' PROVE ReadSoFar'
    BY <1>4 DEF RowsInv
  <2>1. ReadSoFar
    BY <1>3, <1>4 DEF RowsInv
  <2> QED
    BY <1>1, <1>4, <2>1, ReadKept
<1>5. CASE \E ps \in SUBSET Params : DescribeParameters(ps)
  BY <1>4, <1>5 DEF DescribeParameters, result
<1>6. CASE \E c \in Calls : BindCall(c)
  <2>1. PICK c \in Calls : BindCall(c)
    BY <1>6
  <2>2. /\ call' = c /\ start' = 0 /\ got' = [p \in Params |-> <<>>] /\ phase' \in {"idle", "batch"}
    BY <2>1 DEF BindCall
  <2>3. ParameterRows(call.x)' \in Nat
    BY <2>2, ParameterRowsType
  <2>4. <<>> \in Seq(RowValues) /\ Len(<<>>) = 0
    OBVIOUS
  <2>5. ASSUME NEW p \in Params PROVE got'[p] = <<>>
    BY <2>2
  <2>6. ReadSoFar'
    BY <1>1, <2>2, <2>3, <2>4, <2>5 DEF ReadSoFar
  <2> QED
    BY <2>2, <2>6 DEF RowsInv
<1>7. CASE BatchBegin
  <2>1. /\ phase = "batch" /\ phase' = "column" /\ start < ParameterRows(call.x) /\ col' = 1
        /\ UNCHANGED <<call, start, got>>
    BY <1>7 DEF BatchBegin
  <2> SUFFICES ASSUME SoundCall' PROVE ReadSoFar' /\ \A p \in Params : ~(p < 1)
    BY <1>1, <2>1 DEF RowsInv
  <2>2. ReadSoFar
    BY <1>3, <2>1 DEF RowsInv
  <2>3. \A p \in Params : ~(p < 1)
    BY <1>1, TypeParts, ParamsType
  <2> QED
    BY <1>1, <2>1, <2>2, <2>3, ReadKept
<1>8. CASE BatchesDone
  <2>1. /\ phase = "batch" /\ phase' = "bound" /\ start >= ParameterRows(call.x)
        /\ UNCHANGED <<call, start, got>>
    BY <1>8 DEF BatchesDone, Return, result
  <2>2. start \in Nat /\ ParameterRows(call.x) \in Nat
    <3>1. call \in Calls
      BY <1>1, <2>1 DEF TypeInv, CallOK
    <3> QED
      BY <1>1, <3>1, Numbers, ParameterRowsType
  <2>3. ~(start < ParameterRows(call.x))
    BY <2>1, <2>2
  <2> QED
    BY <1>4, <2>1, <2>3
<1>9. CASE BindColumn
  <2>1. /\ phase = "column" /\ col \in Params /\ col' = col + 1
        /\ UNCHANGED <<phase, open_tvp, call, start, got>>
    BY <1>9 DEF BindColumn, AtVector
  <2> SUFFICES ASSUME SoundCall' PROVE ReadSoFar' /\ (~open_tvp => \A p \in Params : p < col + 1 => Exact(p)')
    BY <1>1, <2>1 DEF RowsInv
  <2>2. SoundCall /\ temporary = {} /\ ReadSoFar
    BY <1>3, <2>1 DEF RowsInv
  <2>3. ASSUME ~open_tvp, NEW p \in Params, p < col + 1 PROVE Exact(p)'
    <3>1. CASE p < col
      <4>1. Exact(p)
        BY <2>1, <2>2, <2>3, <3>1 DEF RowsInv
      <4>2. \A c \in Columns(p) : apd'[<<p, c>>] = apd[<<p, c>>]
        BY <1>1, <1>9, <2>2, <2>3, <3>1, BindColumnKeeps DEF Kept
      <4> QED
        BY <1>1, <2>1, <2>2, <4>1, <4>2, ExactKept
    <3>2. CASE p = col
      BY <1>1, <1>9, <2>2, <2>3, <3>2, VectorExact
    <3> QED
      BY <1>2, <2>3, <3>1, <3>2
  <2>4. ReadSoFar'
    BY <1>1, <2>1, <2>2, ReadKept
  <2> QED
    BY <2>3, <2>4
<1>10. CASE OpenTvp
  <2>1. /\ phase = "column" /\ col \in Params /\ ~open_tvp /\ phase' = "table" /\ tcol' = 1
        /\ UNCHANGED <<call, col, start, got>>
    BY <1>10 DEF OpenTvp, AtTable, Refused
  <2> SUFFICES ASSUME SoundCall'
               PROVE  ReadSoFar' /\ TableExact' /\ \A p \in Params : p < col => Exact(p)'
    BY <1>1, <2>1 DEF RowsInv
  <2>2. SoundCall /\ temporary = {} /\ ReadSoFar
    BY <1>3, <2>1 DEF RowsInv
  <2>3. ASSUME NEW p \in Params, p < col PROVE Exact(p)'
    <3>1. Exact(p)
      BY <2>1, <2>2, <2>3 DEF RowsInv
    <3>2. \A c \in Columns(p) : apd'[<<p, c>>] = apd[<<p, c>>]
      BY <1>1, <1>10, <2>2, <2>3, OpenTvpKeeps DEF Kept
    <3> QED
      BY <1>1, <2>1, <2>2, <3>1, <3>2, ExactKept
  <2>4. TableExact'
    <3>1. apd'[<<col, 0>>] = TableBinding(col, Rows(call.x[col]))
      BY <1>1, <1>10, <2>2, OpenTvpKeeps
    <3>2. /\ TableBinding(col, Rows(call.x[col])).value.owner = <<"table type", col>>
          /\ TableBinding(col, Rows(call.x[col])).value.data = <<Rows(call.x[col])>>
      BY DEF TableBinding
    <3>3. Rows(call.x[col])' = Rows(call.x[col])
      BY <2>1 DEF Rows
    <3>4. \A c \in DOMAIN call.x[col].cols : ~(c < 1)
      BY <1>1, <1>10, AtHand, VectorType DEF OpenTvp
    <3> QED
      BY <2>1, <3>1, <3>2, <3>3, <3>4 DEF TableExact, IsTableBinding
  <2>5. ReadSoFar'
    BY <1>1, <2>1, <2>2, ReadKept
  <2> QED
    BY <2>3, <2>4, <2>5
<1>11. CASE TvpColumn
  <2>1. /\ phase = "table" /\ UNCHANGED <<phase, call, col, start, got>>
    BY <1>11 DEF TvpColumn
  <2> SUFFICES ASSUME SoundCall'
               PROVE  ReadSoFar' /\ TableExact' /\ \A p \in Params : p < col => Exact(p)'
    BY <1>1, <2>1 DEF RowsInv
  <2>2. SoundCall /\ temporary = {} /\ ReadSoFar /\ TableExact
    BY <1>3, <2>1 DEF RowsInv
  <2>3. ASSUME NEW p \in Params, p < col PROVE Exact(p)'
    <3>1. Exact(p)
      BY <2>1, <2>2, <2>3 DEF RowsInv
    <3>2. ASSUME NEW c \in Columns(p) PROVE apd'[<<p, c>>] = apd[<<p, c>>]
      <4>1. HeldTo(p, c, col)
        BY <1>1, <1>2, <2>1, <2>2, <2>3 DEF LiveInv
      <4>2. DOMAIN call.x = Params /\ call.x[col].type = "dataframe" /\ col \in Params
        BY <1>1, <2>1, AtHand
      <4>3. Target(tcol) = <<col, tcol>>
        BY <2>2, <4>2 DEF Target, SoundCall, SoundTable
      <4>4. <<p, c>> # Target(tcol)
        BY <1>2, <2>3, <4>3
      <4> QED
        BY <1>11, <4>1, <4>4 DEF TvpColumn, HeldTo
    <3> QED
      BY <1>1, <2>1, <2>2, <3>1, <3>2, ExactKept
  <2>4. TableExact'
    BY <1>1, <1>11, <2>2, ColumnExact
  <2>5. ReadSoFar'
    BY <1>1, <2>1, <2>2, ReadKept
  <2> QED
    BY <2>3, <2>4, <2>5
<1>12. CASE TvpClose
  <2>1. /\ phase = "table" /\ phase' = "column" /\ col' = col + 1 /\ UNCHANGED <<call, start, got>>
    BY <1>12 DEF TvpClose
  <2>2. apd' = Free(apd, All("table on the stack"))
    BY <1>12 DEF TvpClose
  <2> SUFFICES ASSUME SoundCall' PROVE ReadSoFar' /\ \A p \in Params : p < col + 1 => Exact(p)'
    BY <1>1, <2>1 DEF RowsInv
  <2>3. SoundCall /\ temporary = {} /\ ReadSoFar /\ TableExact
    BY <1>3, <2>1 DEF RowsInv
  <2>4. ASSUME NEW p \in Params, p < col + 1 PROVE Exact(p)'
    <3>1. CASE p < col
      <4>1. Exact(p)
        BY <2>1, <2>3, <2>4, <3>1 DEF RowsInv
      <4>2. ASSUME NEW c \in Columns(p) PROVE apd'[<<p, c>>] = apd[<<p, c>>]
        <5>1. HeldTo(p, c, col)
          BY <1>1, <1>2, <2>1, <2>3, <2>4, <3>1 DEF LiveInv
        <5>2. <<p, c>> \in Places
          BY <5>1 DEF HeldTo
        <5> QED
          BY <1>1, <2>2, <2>3, <5>2, StackKeeps
      <4> QED
        BY <1>1, <2>1, <2>3, <4>1, <4>2, ExactKept
    <3>2. CASE p = col
      BY <1>1, <1>12, <2>3, <3>2, TableIsExact
    <3> QED
      BY <1>2, <2>4, <3>1, <3>2
  <2>5. ReadSoFar'
    BY <1>1, <2>1, <2>3, ReadKept
  <2> QED
    BY <2>4, <2>5
<1>13. CASE Execute
  <2>1. AboutToExecute /\ phase' = "batch" /\ call' = call
    BY <1>13 DEF Execute, AboutToExecute
  <2> SUFFICES ASSUME SoundCall' PROVE ReadSoFar'
    BY <2>1 DEF RowsInv
  <2>2. ~open_tvp /\ phase = "column" /\ \A p \in Params : p < col
    BY <2>1, AllBound
  <2>3. ReadSoFar /\ \A p \in Params : Exact(p)
    BY <1>3, <2>1, <2>2 DEF RowsInv
  <2> QED
    BY <1>13, <2>3, ExecuteReads
<1>14. CASE BindColumnFails \/ OpenTvpRefused \/ OpenTvpFails \/ TvpColumnFails \/ TvpCloseFails
            \/ ExecuteFails
  <2>1. phase' = "idle" /\ UNCHANGED <<call, start, got>>
    BY <1>14 DEF BindColumnFails, OpenTvpRefused, OpenTvpFails, TvpColumnFails, TvpCloseFails,
       ExecuteFails, TvpUnwinds, Return, result
  <2> QED
    BY <1>4, <2>1
<1>15. CASE UNCHANGED vars
  <2>1. UNCHANGED <<sqlTypes, apd, open_tvp, temporary, phase, call, start, col, tcol, got>>
    BY <1>15 DEF vars, result
  <2>2. ASSUME SoundCall' PROVE SoundCall /\ temporary = {} /\ ReadSoFar'
    <3>1. SoundCall /\ temporary = {} /\ ReadSoFar
      BY <1>3, <2>1, <2>2 DEF RowsInv
    <3> QED
      BY <1>1, <2>1, <3>1, ReadKept
  <2>3. (TableExact <=> TableExact') /\ \A p : Exact(p) <=> Exact(p)'
    BY <2>1 DEF TableExact, Exact, RowRead, RowGiven, Read, At, IsTableBinding, BatchSize,
       ParameterRows, Rows
  <2> QED
    BY <1>1, <2>1, <2>2, <2>3 DEF RowsInv
<1> QED
  BY <1>5, <1>6, <1>7, <1>8, <1>9, <1>10, <1>11, <1>12, <1>13, <1>14, <1>15 DEF Next

\* For every query and every sequence of dbBind() calls, with any failures between: what the
\* driver has read of a parameter is the beginning of what the caller gave, value by value, NA
\* as NULL and batch after batch, and all of it when dbBind() returns; but for the four kinds
\* of calls that SoundCall leaves out (dates and date-times stored as integers, data frames
\* without rows, NA in the text of a data frame's only row, second data frames).
THEOREM RowsAreAsGiven == Spec => []RowsAsGiven
<1>1. Init => RowsInv
  <2> SUFFICES ASSUME Init PROVE RowsInv
    OBVIOUS
  <2>1. phase = "idle" /\ got = [p \in Params |-> <<>>]
    BY DEF Init
  <2>2. <<>> \in Seq(RowValues) /\ Len(<<>>) = 0
    OBVIOUS
  <2>3. \A p \in Params : got[p] = <<>>
    BY <2>1
  <2> QED
    BY <2>1, <2>2, <2>3 DEF RowsInv, ReadSoFar
<1>2. MemoryInv /\ RowsInv /\ [Next]_vars => RowsInv'
  BY RowsStep
<1>3. RowsInv => RowsAsGiven
  <2> SUFFICES ASSUME RowsInv, SoundCall, NEW p \in Params
               PROVE  /\ \A i \in DOMAIN got[p] : got[p][i] = RowGiven(p, i)
                      /\ phase = "bound" => Len(got[p]) = ParameterRows(call.x)
    BY DEF RowsAsGiven
  <2>1. /\ got[p] \in Seq(RowValues) /\ \A i \in 1 .. Len(got[p]) : got[p][i] = RowGiven(p, i)
        /\ phase = "bound" => Len(got[p]) = ParameterRows(call.x)
    BY DEF RowsInv, ReadSoFar
  <2>2. DOMAIN got[p] = 1 .. Len(got[p])
    BY <2>1
  <2> QED
    BY <2>1, <2>2
<1> QED
  BY <1>1, <1>2, <1>3, MemoryInit, MemoryStep, PTL DEF Spec
=============================================================================
