----------------------------- MODULE AtomicWrites -----------------------------
(***************************************************************************)
(* What dbBegin/dbCommit/dbRollback and dbAppendTable promise an R user.   *)
(* Outside a transaction a statement takes effect at once, inside it takes *)
(* effect when the transaction commits and never if it is rolled back.     *)
(* However many batches a dbAppendTable is sent in, its writes stay apart  *)
(* while it runs; they take effect, or join the open transaction, all in   *)
(* one step or not at all.                                                 *)
(***************************************************************************)
CONSTANT Writes

VARIABLES
  durable,    \* the writes that have taken effect
  work,       \* the writes of the open transaction
  open,       \* an explicit transaction is open
  append,     \* the writes of the running dbAppendTable
  appending   \* a dbAppendTable runs

vars == <<durable, work, open, append, appending>>

Init ==
  /\ durable = {} /\ work = {} /\ append = {}
  /\ open = FALSE /\ appending = FALSE

Unused(w) == w \notin durable \cup work \cup append

\* The writes ws go to the open transaction, or take effect.
Place(ws) ==
  \/ open /\ work' = work \cup ws /\ UNCHANGED durable
  \/ ~open /\ durable' = durable \cup ws /\ UNCHANGED work

Begin ==
  ~appending /\ ~open /\ open' = TRUE /\ UNCHANGED <<durable, work, append, appending>>

Statement(w) ==
  ~appending /\ Unused(w) /\ Place({w}) /\ UNCHANGED <<open, append, appending>>

AppendBegin ==
  ~appending /\ appending' = TRUE /\ UNCHANGED <<durable, work, open, append>>

\* A batch alone changes nothing that anybody else can see.
AppendBatch(w) ==
  /\ appending /\ Unused(w)
  /\ append' = append \cup {w}
  /\ UNCHANGED <<durable, work, open, appending>>

AppendDone ==
  /\ appending /\ appending' = FALSE
  /\ Place(append) /\ append' = {} /\ UNCHANGED open

AppendUndone ==
  /\ appending /\ appending' = FALSE
  /\ append' = {} /\ UNCHANGED <<durable, work, open>>

Commit ==
  /\ ~appending /\ open /\ open' = FALSE
  /\ durable' = durable \cup work
  /\ work' = {}
  /\ UNCHANGED <<append, appending>>

Rollback ==
  /\ ~appending /\ open /\ open' = FALSE
  /\ work' = {}
  /\ UNCHANGED <<durable, append, appending>>

Next ==
  \/ Begin \/ Commit \/ Rollback
  \/ AppendBegin \/ AppendDone \/ AppendUndone
  \/ \E w \in Writes : Statement(w) \/ AppendBatch(w)

Spec == Init /\ [][Next]_vars
=============================================================================
