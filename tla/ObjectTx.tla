------------------------------ MODULE ObjectTx ------------------------------
(***************************************************************************)
(* The transactions of internal/sql and the optimistic locking of the      *)
(* objects that the generated db code stores: Do starts a transaction,     *)
(* calls a function in it, commits, and does it again on a serialization   *)
(* error; Update<Object> writes the row whose revision is the one of the   *)
(* object in memory, and increments the latter.                            *)
(*                                                                         *)
(* An operation updates a few objects in one Do.  It reads them in that    *)
(* Do, or holds copies that it read in an earlier one (scheduleRun).       *)
(***************************************************************************)
EXTENDS Naturals, Sequences, FiniteSets

CONSTANTS Rows,         \* the stored objects
          Ops,          \* operations, each of them done once
          Writes,       \* Writes[o]: the objects that o updates, in order
          Held,         \* Held[o]: the objects that o read in an earlier transaction
          DBType,       \* "sqlite3" or "postgres"
          MaxTxRetries  \* maxTxRetries

ASSUME OpsAssumption ==
    /\ Writes \in [Ops -> Seq(Rows)] /\ Held \in [Ops -> SUBSET Rows]
    /\ \A o \in Ops : \A i, j \in 1..Len(Writes[o]) : Writes[o][i] = Writes[o][j] => i = j
ASSUME DBAssumption == DBType \in {"sqlite3", "postgres"} /\ MaxTxRetries \in Nat

\* a row, or an object in memory: the revision and, for the data, the
\* operations whose update it contains
Object == [rev : Nat, data : SUBSET Ops]
Incremented(v) == [rev |-> v.rev + 1, data |-> v.data]
UpdatedBy(v, o) == [rev |-> v.rev, data |-> v.data \cup {o}]

VARIABLES
    row,      \* row[x]: the committed row of x
    pc,       \* an operation is "idle", "read", in a transaction ("tx"), "done" or "failed"
    obj,      \* obj[o][x]: o's object for x
    snapshot, \* snapshot[o]: the rows when o's transaction started
    done,     \* done[o]: the number of updates of o's transaction
    retries   \* retries[o]: of o's Do

vars == <<row, pc, obj, snapshot, done, retries>>

Written(o, n) == {Writes[o][i] : i \in 1..n}
Locked(x) == {o \in Ops : pc[o] = "tx" /\ x \in Written(o, done[o])}

Init ==
    /\ row = [x \in Rows |-> [rev |-> 1, data |-> {}]]
    /\ pc = [o \in Ops |-> "idle"]
    /\ obj = [o \in Ops |-> row] /\ snapshot = [o \in Ops |-> row]
    /\ done = [o \in Ops |-> 0] /\ retries = [o \in Ops |-> 0]

-----------------------------------------------------------------------------
\* the earlier transaction
Read(o) ==
    /\ pc[o] = "idle" /\ pc' = [pc EXCEPT ![o] = "read"]
    /\ obj' = [obj EXCEPT ![o] = row]
    /\ UNCHANGED <<row, snapshot, done, retries>>

\* slip: the objects aren't read again
Reload_once(o) == IF retries[o] = 0 THEN [x \in Rows |-> IF x \in Held[o] THEN obj[o][x] ELSE row[x]]
                  ELSE obj[o]
\* the objects of o once its function has read what it doesn't hold
Reload(o) == [x \in Rows |-> IF x \in Held[o] THEN obj[o][x] ELSE row[x]]

\* the transaction starts: with "BEGIN IMMEDIATE" there's only one in sqlite3
Begin(o) ==
    /\ pc[o] = "read" /\ pc' = [pc EXCEPT ![o] = "tx"]
    /\ DBType = "sqlite3" => \A p \in Ops : pc[p] # "tx"
    /\ snapshot' = [snapshot EXCEPT ![o] = row]
    /\ obj' = [obj EXCEPT ![o] = Reload(o)]
    /\ done' = [done EXCEPT ![o] = 0]
    /\ UNCHANGED <<row, retries>>

\* slip: the update isn't bound to the revision
Matches_anyRevision(o, x) == TRUE
\* whether the update's condition on the revision selects a row
Matches(o, x) == snapshot[o][x].rev = obj[o][x].rev

\* the update of the next object succeeds, and its revision is incremented in
\* memory; the row is locked until the end of the transaction
Update(o) ==
    LET x == Writes[o][done[o] + 1] IN
    /\ pc[o] = "tx" /\ done[o] < Len(Writes[o])
    /\ Locked(x) = {} /\ row[x] = snapshot[o][x]
    /\ Matches(o, x)
    /\ obj' = [obj EXCEPT ![o] = [obj[o] EXCEPT ![x] = Incremented(obj[o][x])]]
    /\ done' = [done EXCEPT ![o] = @ + 1]
    /\ UNCHANGED <<row, pc, snapshot, retries>>

\* ErrConcurrent: another revision is stored.  Do doesn't try again
UpdateConflict(o) ==
    LET x == Writes[o][done[o] + 1] IN
    /\ pc[o] = "tx" /\ done[o] < Len(Writes[o])
    /\ ~Matches(o, x)
    /\ pc' = [pc EXCEPT ![o] = "failed"]
    /\ UNCHANGED <<row, obj, snapshot, done, retries>>

Commit(o) ==
    /\ pc[o] = "tx" /\ done[o] = Len(Writes[o])
    /\ row' = [x \in Rows |-> IF x \in Written(o, done[o])
                              THEN UpdatedBy(obj[o][x], o) ELSE row[x]]
    /\ pc' = [pc EXCEPT ![o] = "done"]
    /\ UNCHANGED <<obj, snapshot, done, retries>>

\* slip: one retry too many
SerializationFailure_oneMore(o) ==
    /\ pc[o] = "tx" /\ DBType = "postgres"
    /\ IF retries[o] <= MaxTxRetries
       THEN pc' = [pc EXCEPT ![o] = "read"] /\ retries' = [retries EXCEPT ![o] = @ + 1]
       ELSE pc' = [pc EXCEPT ![o] = "failed"] /\ UNCHANGED retries
    /\ UNCHANGED <<row, obj, snapshot, done>>
\* a serialization error, of a statement or of the commit: the row was updated
\* since the snapshot, or Postgres finds a dependency that it can't order.
\* The revision of the object whose update fails is reset; the ones of the
\* objects updated before it aren't
SerializationFailure(o) ==
    /\ pc[o] = "tx" /\ DBType = "postgres"
    /\ IF retries[o] < MaxTxRetries
       THEN pc' = [pc EXCEPT ![o] = "read"] /\ retries' = [retries EXCEPT ![o] = @ + 1]
       ELSE pc' = [pc EXCEPT ![o] = "failed"] /\ UNCHANGED retries
    /\ UNCHANGED <<row, obj, snapshot, done>>

\* slip: what was updated before the error is committed
TxFails_commits(o) ==
    /\ pc[o] = "tx" /\ pc' = [pc EXCEPT ![o] = "failed"]
    /\ row' = [x \in Rows |-> IF x \in Written(o, done[o])
                              THEN UpdatedBy(obj[o][x], o) ELSE row[x]]
    /\ UNCHANGED <<obj, snapshot, done, retries>>
\* any other error: a transaction that can't be started, a broken connection, a
\* deadlock that the database ends, an error of the function
TxFails(o) ==
    /\ pc[o] \in {"read", "tx"} /\ pc' = [pc EXCEPT ![o] = "failed"]
    /\ UNCHANGED <<row, obj, snapshot, done, retries>>

Next == \E o \in Ops : \/ Read(o) \/ Begin(o) \/ Update(o) \/ UpdateConflict(o)
                       \/ Commit(o) \/ SerializationFailure(o) \/ TxFails(o)

Spec == Init /\ [][Next]_vars

-----------------------------------------------------------------------------
\* Every variable has its type.
TypeOK ==
    /\ row \in [Rows -> Object]
    /\ pc \in [Ops -> {"idle", "read", "tx", "done", "failed"}]
    /\ obj \in [Ops -> [Rows -> Object]] /\ snapshot \in [Ops -> [Rows -> Object]]
    /\ done \in [Ops -> Nat] /\ \A o \in Ops : done[o] <= Len(Writes[o])
    /\ retries \in [Ops -> 0..MaxTxRetries]

\* o's object for x is what o read from the row: it isn't a copy from an earlier
\* transaction that a retry uses again
Trusted(o, x) == x \notin Held[o] \/ retries[o] = 0

\* No committed update is lost, whatever fails and is tried again: a row contains
\* the update of every operation that updated it and committed, unless Do called
\* an operation's function again with a copy from an earlier transaction.
NoLostUpdate ==
    \A o \in Ops : pc[o] = "done" =>
        \A x \in Written(o, Len(Writes[o])) :
            \/ o \in row[x].data
            \/ \E p \in Ops : pc[p] = "done" /\ x \in Written(p, Len(Writes[p])) /\ ~Trusted(p, x)

\* With the same exception, a commit overwrites nothing that the operation didn't
\* know, however old its copies are: the revision stops it.
OverwritesNothing ==
    [][\A o \in Ops, x \in Rows :
            pc[o] = "tx" /\ pc'[o] = "done" /\ Trusted(o, x) => row[x].data \subseteq row'[x].data]_vars

\* A failed operation leaves nothing behind.
NothingOfFailed == \A o \in Ops, x \in Rows : o \in row[x].data => pc[o] = "done"

-----------------------------------------------------------------------------
(* A statement of the code's comments that the code doesn't meet.          *)

\* scheduleRun: "we use multiple transactions to split the logic in multiple
\* steps and rely on optimistic object locking": a commit overwrites nothing.
OptimisticLocking == [][\A x \in Rows : row[x].data \subseteq row'[x].data]_vars
=============================================================================
