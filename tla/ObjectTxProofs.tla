--------------------------- MODULE ObjectTxProofs ---------------------------
(* Proofs about ObjectTx, for any operations and any number of retries. *)
EXTENDS ObjectTx, TLAPS

\* Written is a set of rows, and grows with every update.
LEMMA WrittenRows ==
    ASSUME NEW o \in Ops, NEW n \in Nat, n <= Len(Writes[o])
    PROVE  Written(o, n) \subseteq Rows
BY OpsAssumption DEF Written

LEMMA WrittenNext ==
    ASSUME NEW o \in Ops, NEW n \in Nat, n < Len(Writes[o])
    PROVE  /\ Writes[o][n + 1] \in Rows
           /\ Written(o, n + 1) = Written(o, n) \cup {Writes[o][n + 1]}
           /\ Writes[o][n + 1] \notin Written(o, n)
<1>1. Len(Writes[o]) \in Nat /\ Writes[o] \in Seq(Rows)
  BY OpsAssumption
<1>2. n + 1 \in 1..Len(Writes[o]) /\ 1..(n + 1) = 1..n \cup {n + 1}
  BY <1>1
<1>3. Writes[o][n + 1] \in Rows
  BY <1>1, <1>2
<1>4. \A i \in 1..n : Writes[o][i] # Writes[o][n + 1]
  <2>1. \A i \in 1..n : i \in 1..Len(Writes[o]) /\ i # n + 1
    BY <1>1
  <2> QED BY <1>2, <2>1, OpsAssumption
<1>5. Written(o, n + 1) = Written(o, n) \cup {Writes[o][n + 1]}
  BY <1>2 DEF Written
<1>6. Writes[o][n + 1] \notin Written(o, n)
  BY <1>4 DEF Written
<1> QED BY <1>3, <1>5, <1>6

LEMMA WrittenZero == ASSUME NEW o \in Ops PROVE Written(o, 0) = {}
BY DEF Written

\* Objects keep their type when they are updated.
LEMMA ObjectTypes ==
    ASSUME NEW v \in Object, NEW o \in Ops
    PROVE  /\ Incremented(v) \in Object /\ UpdatedBy(v, o) \in Object
           /\ Incremented(v).rev = v.rev + 1 /\ Incremented(v).data = v.data
           /\ UpdatedBy(v, o).rev = v.rev /\ UpdatedBy(v, o).data = v.data \cup {o}
           /\ v.rev \in Nat
BY DEF Object, Incremented, UpdatedBy

-----------------------------------------------------------------------------
LEMMA TypeInit == Init => TypeOK
BY OpsAssumption, DBAssumption DEF Init, TypeOK, Object

LEMMA TypeNext == TypeOK /\ [Next]_vars => TypeOK'
<1> SUFFICES ASSUME TypeOK, [Next]_vars PROVE TypeOK'
  OBVIOUS
<1> USE DEF TypeOK
<1>1. ASSUME NEW o \in Ops, Read(o) PROVE TypeOK'
  BY <1>1 DEF Read
<1>2. ASSUME NEW o \in Ops, Begin(o) PROVE TypeOK'
  <2>1. Reload(o) \in [Rows -> Object]
    BY DEF Reload
  <2>2. Len(Writes[o]) \in Nat
    BY OpsAssumption
  <2> QED BY <1>2, <2>1, <2>2 DEF Begin
<1>3. ASSUME NEW o \in Ops, Update(o) PROVE TypeOK'
  <2> DEFINE x == Writes[o][done[o] + 1]
  <2>1. x \in Rows /\ Len(Writes[o]) \in Nat /\ done[o] + 1 <= Len(Writes[o])
    BY <1>3, WrittenNext, OpsAssumption DEF Update
  <2>2. [obj[o] EXCEPT ![x] = Incremented(obj[o][x])] \in [Rows -> Object]
    BY <2>1, ObjectTypes
  <2> HIDE DEF x
  <2>3. obj' = [obj EXCEPT ![o] = [obj[o] EXCEPT ![x] = Incremented(obj[o][x])]]
    BY <1>3 DEF Update, x
  <2>4. obj' \in [Ops -> [Rows -> Object]]
    BY <2>2, <2>3
  <2> QED BY <1>3, <2>1, <2>4 DEF Update
<1>4. ASSUME NEW o \in Ops, UpdateConflict(o) PROVE TypeOK'
  BY <1>4 DEF UpdateConflict
<1>5. ASSUME NEW o \in Ops, Commit(o) PROVE TypeOK'
  <2>1. ASSUME NEW x \in Rows PROVE UpdatedBy(obj[o][x], o) \in Object
    <3>1. obj[o][x] \in Object
      OBVIOUS
    <3> QED BY <3>1, ObjectTypes
  <2> QED BY <1>5, <2>1 DEF Commit
<1>6. ASSUME NEW o \in Ops, SerializationFailure(o) PROVE TypeOK'
  <2>1. retries[o] < MaxTxRetries => retries[o] + 1 \in 0..MaxTxRetries
    BY DBAssumption
  <2>2. retries' \in [Ops -> 0..MaxTxRetries]
    BY <1>6, <2>1 DEF SerializationFailure
  <2>3. pc' \in [Ops -> {"idle", "read", "tx", "done", "failed"}]
    BY <1>6 DEF SerializationFailure
  <2> QED BY <1>6, <2>2, <2>3 DEF SerializationFailure
<1>7. ASSUME NEW o \in Ops, TxFails(o) PROVE TypeOK'
  BY <1>7 DEF TxFails
<1>8. CASE UNCHANGED vars
  BY <1>8 DEF vars
<1> QED BY <1>1, <1>2, <1>3, <1>4, <1>5, <1>6, <1>7, <1>8 DEF Next

\* Every variable of ObjectTx keeps its type; in particular Do never makes
\* more than maxTxRetries retries.
THEOREM TypeCorrect == Spec => []TypeOK
<1>1. Init => TypeOK BY TypeInit
<1>2. TypeOK /\ [Next]_vars => TypeOK' BY TypeNext
<1> QED BY <1>1, <1>2, PTL DEF Spec
-----------------------------------------------------------------------------
(* Optimistic locking.  The strengthening says what an operation's objects  *)
(* are worth while it is under way.                                         *)

\* what an operation updated in its transaction is locked
LocksOK ==
    \A o, p \in Ops : o # p /\ pc[o] = "tx" /\ pc[p] = "tx" =>
        Written(o, done[o]) \cap Written(p, done[p]) = {}

\* an updated object has the next revision and, if it is trusted, the row's
\* data; one to be updated that has the snapshot's revision has its data
TxOK(o, x) ==
    IF x \in Written(o, done[o])
    THEN /\ row[x] = snapshot[o][x] /\ obj[o][x].rev = row[x].rev + 1
         /\ Trusted(o, x) => obj[o][x].data = row[x].data
    ELSE Trusted(o, x) /\ obj[o][x].rev = snapshot[o][x].rev =>
             obj[o][x].data = snapshot[o][x].data

\* a held object isn't ahead of its row, and is its row when it has its revision
CopyOK(o, x) ==
    /\ obj[o][x].rev <= row[x].rev
    /\ obj[o][x].rev = row[x].rev => obj[o][x].data = row[x].data

Holds(o) == pc[o] = "read" /\ retries[o] = 0

LockInv ==
    /\ LocksOK
    /\ \A o \in Ops, x \in Rows : pc[o] = "tx" => TxOK(o, x)
    /\ \A o \in Ops : Holds(o) => \A x \in Held[o] : CopyOK(o, x)

LEMMA LockInit == Init => LockInv
BY DEF Init, LockInv, LocksOK, Holds

\* A commit adds the operation to the rows it updated, and takes nothing from a
\* row whose object is trusted.
LEMMA CommitRows ==
    ASSUME TypeOK, LockInv, NEW o \in Ops, Commit(o), NEW x \in Rows
    PROVE  IF x \in Written(o, done[o])
           THEN /\ o \in row'[x].data /\ row'[x].rev = row[x].rev + 1
                /\ Trusted(o, x) => row'[x].data = row[x].data \cup {o}
           ELSE row'[x] = row[x]
<1>1. obj[o][x] \in Object
  BY DEF TypeOK
<1>2. pc[o] = "tx" /\ TxOK(o, x)
  BY DEF Commit, LockInv
<1>3. row'[x] = IF x \in Written(o, done[o]) THEN UpdatedBy(obj[o][x], o) ELSE row[x]
  BY DEF Commit
<1> QED BY <1>1, <1>2, <1>3, ObjectTypes DEF TxOK

\* The strengthening is preserved by what doesn't change rows, objects and
\* updates: an operation that ends or starts over.
LEMMA LockEnds ==
    ASSUME LockInv, NEW o \in Ops, NEW s, s # "tx", s # "read", TypeOK,
           pc' = [pc EXCEPT ![o] = s], UNCHANGED <<row, obj, snapshot, done, retries>>
    PROVE  LockInv'
<1>1. \A p \in Ops : pc'[p] \in {"tx", "read"} => pc'[p] = pc[p]
  BY DEF TypeOK
<1>2. \A p \in Ops : Written(p, done[p])' = Written(p, done[p])
  BY DEF Written
<1>3. \A p \in Ops, x \in Rows : TxOK(p, x)' <=> TxOK(p, x)
  BY <1>2 DEF TxOK, Trusted
<1>4. \A p \in Ops, x \in Rows : CopyOK(p, x)' <=> CopyOK(p, x)
  BY DEF CopyOK
<1>5. LocksOK'
  BY <1>1, <1>2 DEF LockInv, LocksOK
<1>6. \A p \in Ops, x \in Rows : pc'[p] = "tx" => TxOK(p, x)'
  BY <1>1, <1>3 DEF LockInv
<1>7. \A p \in Ops : Holds(p)' => \A x \in Held[p] : CopyOK(p, x)'
  <2>1. \A p \in Ops : Held[p] \subseteq Rows
    BY OpsAssumption
  <2> QED BY <1>1, <1>4, <2>1 DEF LockInv, Holds
<1> QED BY <1>5, <1>6, <1>7 DEF LockInv

LEMMA LockNext ==
    ASSUME TypeOK, LockInv, [Next]_vars
    PROVE  LockInv'
<1>0. \A p \in Ops : Held[p] \subseteq Rows
  BY OpsAssumption
<1>1. ASSUME NEW o \in Ops, Read(o) PROVE LockInv'
  <2>1. /\ \A p \in Ops : pc'[p] = "tx" => pc[p] = "tx" /\ p # o
        /\ \A p \in Ops : p # o => pc'[p] = pc[p] /\ obj'[p] = obj[p]
        /\ obj'[o] = row /\ UNCHANGED <<row, snapshot, done, retries>>
    BY <1>1 DEF Read, TypeOK
  <2>2. \A p \in Ops : Written(p, done[p])' = Written(p, done[p])
    BY <2>1 DEF Written
  <2>3. LocksOK'
    BY <2>1, <2>2 DEF LockInv, LocksOK
  <2>4. \A p \in Ops, x \in Rows : pc'[p] = "tx" => TxOK(p, x)'
    BY <2>1, <2>2 DEF LockInv, TxOK, Trusted
  <2>5. ASSUME NEW p \in Ops, Holds(p)', NEW x \in Held[p] PROVE CopyOK(p, x)'
    <3>1. CASE p = o
      <4>1. obj'[p][x] = row[x] /\ row'[x] = row[x]
        BY <2>1, <3>1
      <4>2. row[x].rev \in Nat
        BY <1>0, <2>5 DEF TypeOK, Object
      <4> QED BY <4>1, <4>2 DEF CopyOK
    <3>2. CASE p # o
      BY <2>1, <2>5, <3>2 DEF LockInv, CopyOK, Holds
    <3> QED BY <3>1, <3>2
  <2> QED BY <2>3, <2>4, <2>5 DEF LockInv
<1>2. ASSUME NEW o \in Ops, Begin(o) PROVE LockInv'
  <2>1. /\ \A p \in Ops : p # o => /\ pc'[p] = pc[p] /\ obj'[p] = obj[p]
                                  /\ snapshot'[p] = snapshot[p] /\ done'[p] = done[p]
        /\ pc[o] = "read" /\ pc'[o] = "tx" /\ obj'[o] = Reload(o)
        /\ snapshot'[o] = row /\ done'[o] = 0 /\ row' = row /\ retries' = retries
    BY <1>2 DEF Begin, TypeOK
  <2>2. \A p \in Ops : Written(p, done[p])' = IF p = o THEN {} ELSE Written(p, done[p])
    BY <2>1, WrittenZero DEF Written
  <2>3. LocksOK'
    BY <2>1, <2>2 DEF LockInv, LocksOK
  <2>4. ASSUME NEW p \in Ops, NEW x \in Rows, pc'[p] = "tx" PROVE TxOK(p, x)'
    <3>1. CASE p = o
      <4>1. Trusted(o, x) /\ obj'[o][x].rev = row[x].rev => obj'[o][x].data = row[x].data
        <5>1. CASE x \in Held[o]
          BY <2>1, <5>1 DEF Reload, LockInv, CopyOK, Trusted, Holds
        <5>2. CASE x \notin Held[o]
          BY <2>1, <5>2 DEF Reload
        <5> QED BY <5>1, <5>2
      <4> QED BY <2>1, <2>2, <3>1, <4>1 DEF TxOK, Trusted
    <3>2. CASE p # o
      BY <2>1, <2>2, <2>4, <3>2 DEF LockInv, TxOK, Trusted
    <3> QED BY <3>1, <3>2
  <2>5. ASSUME NEW p \in Ops, Holds(p)', NEW x \in Held[p] PROVE CopyOK(p, x)'
    BY <2>1, <2>5 DEF LockInv, CopyOK, Holds
  <2> QED BY <2>3, <2>4, <2>5 DEF LockInv
<1>3. ASSUME NEW o \in Ops, Update(o) PROVE LockInv'
  <2> DEFINE x == Writes[o][done[o] + 1]
  <2>1. done[o] \in Nat /\ done[o] < Len(Writes[o]) /\ pc[o] = "tx"
    BY <1>3 DEF Update, TypeOK
  <2>2. /\ x \in Rows /\ x \notin Written(o, done[o])
        /\ Written(o, done[o] + 1) = Written(o, done[o]) \cup {x}
    BY <2>1, WrittenNext
  <2>3. /\ Locked(x) = {} /\ row[x] = snapshot[o][x] /\ snapshot[o][x].rev = obj[o][x].rev
        /\ obj' = [obj EXCEPT ![o] = [obj[o] EXCEPT ![x] = Incremented(obj[o][x])]]
        /\ done' = [done EXCEPT ![o] = @ + 1]
        /\ UNCHANGED <<row, pc, snapshot, retries>>
    BY <1>3 DEF Update, Matches
  <2> HIDE DEF x
  <2>4. /\ \A p \in Ops : p # o => obj'[p] = obj[p] /\ done'[p] = done[p]
        /\ done'[o] = done[o] + 1 /\ obj'[o][x] = Incremented(obj[o][x])
        /\ \A y \in Rows : y # x => obj'[o][y] = obj[o][y]
    BY <2>2, <2>3 DEF TypeOK
  <2>5. \A p \in Ops : Written(p, done[p])' =
            IF p = o THEN Written(o, done[o]) \cup {x} ELSE Written(p, done[p])
    <3>1. \A p \in Ops : Written(p, done[p])' = Written(p, done'[p])
      BY DEF Written
    <3> QED BY <2>2, <2>4, <3>1
  <2>6. \A p \in Ops : pc[p] = "tx" => x \notin Written(p, done[p])
    BY <2>3 DEF Locked
  <2>7. LocksOK'
    BY <2>3, <2>5, <2>6 DEF LockInv, LocksOK
  <2>8. ASSUME NEW p \in Ops, NEW y \in Rows, pc'[p] = "tx" PROVE TxOK(p, y)'
    <3>1. CASE p = o /\ y = x
      <4>1. obj[o][x] \in Object
        BY <2>2 DEF TypeOK
      <4>2. Trusted(o, x) => obj[o][x].data = row[x].data
        BY <2>1, <2>2, <2>3 DEF LockInv, TxOK
      <4> QED BY <2>3, <2>4, <2>5, <3>1, <4>1, <4>2, ObjectTypes DEF TxOK, Trusted
    <3>2. CASE p = o /\ y # x
      BY <2>1, <2>3, <2>4, <2>5, <3>2 DEF LockInv, TxOK, Trusted
    <3>3. CASE p # o
      BY <2>3, <2>4, <2>5, <2>8, <3>3 DEF LockInv, TxOK, Trusted
    <3> QED BY <3>1, <3>2, <3>3
  <2>9. ASSUME NEW p \in Ops, Holds(p)', NEW y \in Held[p] PROVE CopyOK(p, y)'
    <3>1. p # o
      BY <2>1, <2>3, <2>9 DEF Holds
    <3> QED BY <2>3, <2>4, <2>9, <3>1 DEF LockInv, CopyOK, Holds
  <2> QED BY <2>7, <2>8, <2>9 DEF LockInv
<1>4. ASSUME NEW o \in Ops, UpdateConflict(o) PROVE LockInv'
  BY <1>4, LockEnds DEF UpdateConflict
<1>5. ASSUME NEW o \in Ops, Commit(o) PROVE LockInv'
  <2>1. /\ pc[o] = "tx" /\ pc'[o] = "done"
        /\ \A p \in Ops : p # o => pc'[p] = pc[p]
        /\ UNCHANGED <<obj, snapshot, done, retries>>
    BY <1>5 DEF Commit, TypeOK
  <2>2. \A p \in Ops : Written(p, done[p])' = Written(p, done[p])
    BY <2>1 DEF Written
  <2>3. LocksOK'
    BY <2>1, <2>2 DEF LockInv, LocksOK
  <2>4. ASSUME NEW p \in Ops, NEW x \in Rows, pc'[p] = "tx" PROVE TxOK(p, x)'
    <3>1. p # o /\ pc[p] = "tx" /\ TxOK(p, x)
      BY <2>1, <2>4 DEF LockInv
    <3>2. x \in Written(p, done[p]) => row'[x] = row[x]
      <4>1. x \in Written(p, done[p]) => x \notin Written(o, done[o])
        BY <2>1, <3>1 DEF LockInv, LocksOK
      <4> QED BY <1>5, <4>1, CommitRows
    <3> QED BY <2>1, <2>2, <3>1, <3>2 DEF TxOK, Trusted
  <2>5. ASSUME NEW p \in Ops, Holds(p)', NEW x \in Held[p] PROVE CopyOK(p, x)'
    <3>1. p # o /\ CopyOK(p, x) /\ x \in Rows
      BY <1>0, <2>1, <2>5 DEF LockInv, Holds
    <3>2. row'[x] = row[x] \/ row'[x].rev = row[x].rev + 1
      BY <1>5, <3>1, CommitRows
    <3>3. row[x].rev \in Nat /\ obj[p][x].rev \in Nat
      BY <3>1 DEF TypeOK, Object
    <3> QED BY <2>1, <3>1, <3>2, <3>3 DEF CopyOK
  <2> QED BY <2>3, <2>4, <2>5 DEF LockInv
<1>6. ASSUME NEW o \in Ops, SerializationFailure(o) PROVE LockInv'
  <2>1. /\ \A p \in Ops : p # o => pc'[p] = pc[p] /\ retries'[p] = retries[p]
        /\ pc'[o] # "tx" /\ ~Holds(o)'
        /\ UNCHANGED <<row, obj, snapshot, done>>
    <3>1. retries[o] \in Nat
      BY DBAssumption DEF TypeOK
    <3> QED BY <1>6, <3>1 DEF SerializationFailure, TypeOK, Holds
  <2>2. \A p \in Ops : Written(p, done[p])' = Written(p, done[p])
    BY <2>1 DEF Written
  <2>3. LocksOK'
    BY <2>1, <2>2 DEF LockInv, LocksOK
  <2>4. \A p \in Ops, x \in Rows : pc'[p] = "tx" => TxOK(p, x)'
    BY <2>1, <2>2 DEF LockInv, TxOK, Trusted
  <2>5. ASSUME NEW p \in Ops, Holds(p)', NEW x \in Held[p] PROVE CopyOK(p, x)'
    BY <2>1, <2>5 DEF LockInv, CopyOK, Holds
  <2> QED BY <2>3, <2>4, <2>5 DEF LockInv
<1>7. ASSUME NEW o \in Ops, TxFails(o) PROVE LockInv'
  BY <1>7, LockEnds DEF TxFails
<1>8. CASE UNCHANGED vars
  <2>1. UNCHANGED <<row, pc, obj, snapshot, done, retries>>
    BY <1>8 DEF vars
  <2>2. \A p \in Ops : Written(p, done[p])' = Written(p, done[p])
    BY <2>1 DEF Written
  <2> QED BY <1>0, <2>1, <2>2 DEF LockInv, LocksOK, TxOK, CopyOK, Trusted, Holds
<1> QED BY <1>1, <1>2, <1>3, <1>4, <1>5, <1>6, <1>7, <1>8 DEF Next

\* A row only loses an update to a commit of an untrusted object.
LEMMA RowsGrow ==
    ASSUME TypeOK, LockInv, [Next]_vars, NEW x \in Rows
    PROVE  \/ row[x].data \subseteq row'[x].data
           \/ \E p \in Ops : Commit(p) /\ x \in Written(p, done[p]) /\ ~Trusted(p, x)
<1>1. ASSUME NEW o \in Ops, Commit(o)
      PROVE  \/ row[x].data \subseteq row'[x].data
             \/ x \in Written(o, done[o]) /\ ~Trusted(o, x)
  BY <1>1, CommitRows
<1>2. CASE UNCHANGED row
  BY <1>2
<1> QED BY <1>1, <1>2 DEF Next, vars, Read, Begin, Update, UpdateConflict,
           SerializationFailure, TxFails

\* An operation becomes done by its commit, and nothing changes after that.
LEMMA DoneByCommit ==
    ASSUME TypeOK, [Next]_vars, NEW o \in Ops
    PROVE  /\ pc[o] = "done" => pc'[o] = "done" /\ retries'[o] = retries[o]
           /\ pc[o] # "done" /\ pc'[o] = "done" => Commit(o)
           /\ Commit(o) => pc'[o] = "done" /\ retries'[o] = retries[o] /\ done[o] = Len(Writes[o])
<1>1. Commit(o) => pc'[o] = "done" /\ retries'[o] = retries[o] /\ done[o] = Len(Writes[o])
  BY DEF Commit, TypeOK
<1>2. ASSUME NEW p \in Ops, p # o, Commit(p) PROVE pc'[o] = pc[o] /\ retries' = retries
  BY <1>2 DEF Commit, TypeOK
<1>3. ASSUME NEW p \in Ops, Read(p) \/ Begin(p) \/ Update(p) \/ UpdateConflict(p)
                            \/ SerializationFailure(p) \/ TxFails(p)
      PROVE  /\ pc[o] = "done" => pc'[o] = "done" /\ retries'[o] = retries[o]
             /\ pc'[o] = "done" => pc[o] = "done"
  BY <1>3 DEF Read, Begin, Update, UpdateConflict, SerializationFailure, TxFails, TypeOK
<1>4. CASE UNCHANGED vars
  BY <1>1, <1>4 DEF vars
<1>5. Commit(o) => pc[o] # "done"
  BY DEF Commit
<1> QED BY <1>1, <1>2, <1>3, <1>4, <1>5 DEF Next

LEMMA NoneLostNext ==
    ASSUME TypeOK, LockInv, NoLostUpdate, [Next]_vars
    PROVE  NoLostUpdate'
<1> DEFINE Excused(x) == \E p \in Ops : /\ pc[p] = "done" /\ x \in Written(p, Len(Writes[p]))
                                        /\ ~Trusted(p, x)
<1> SUFFICES ASSUME NEW o \in Ops, pc'[o] = "done", NEW x \in Written(o, Len(Writes[o]))
             PROVE  o \in row'[x].data \/ Excused(x)'
  BY DEF NoLostUpdate, Written
<1>1. x \in Rows /\ Len(Writes[o]) \in Nat
  BY WrittenRows, OpsAssumption
<1>2. Excused(x) => Excused(x)'
  BY DoneByCommit DEF Trusted, Written
<1>3. ASSUME NEW p \in Ops, Commit(p), x \in Written(p, done[p]), ~Trusted(p, x)
      PROVE  Excused(x)'
  BY <1>3, DoneByCommit DEF Trusted, Written
<1>4. CASE pc[o] = "done"
  <2>1. o \in row[x].data \/ Excused(x)
    BY <1>4 DEF NoLostUpdate
  <2> HIDE DEF Excused
  <2> QED BY <1>1, <1>2, <1>3, <2>1, RowsGrow
<1>5. CASE pc[o] # "done"
  <2>1. Commit(o) /\ done[o] = Len(Writes[o])
    BY <1>5, DoneByCommit
  <2> QED BY <1>1, <2>1, CommitRows
<1> QED BY <1>4, <1>5

\* No committed update is lost, for any operations, rows and number of retries
\* and with both databases, except by Do calling an operation's function again
\* with a copy from an earlier transaction.
THEOREM NeverLost == Spec => []NoLostUpdate
<1>1. Init => TypeOK /\ LockInv /\ NoLostUpdate
  <2>1. Init => NoLostUpdate
    BY DEF Init, NoLostUpdate
  <2> QED BY <2>1, TypeInit, LockInit
<1>2. TypeOK /\ LockInv /\ NoLostUpdate /\ [Next]_vars => (TypeOK /\ LockInv /\ NoLostUpdate)'
  BY TypeNext, LockNext, NoneLostNext
<1> QED BY <1>1, <1>2, PTL DEF Spec

\* With the same exception, the revisions keep a commit from overwriting what
\* was committed since the operation read the object.
THEOREM NothingOverwritten == Spec => OverwritesNothing
<1>1. Init => TypeOK /\ LockInv
  BY TypeInit, LockInit
<1>2. TypeOK /\ LockInv /\ [Next]_vars => (TypeOK /\ LockInv)'
  BY TypeNext, LockNext
<1>3. TypeOK /\ LockInv /\ [Next]_vars =>
        [\A o \in Ops, x \in Rows :
            pc[o] = "tx" /\ pc'[o] = "done" /\ Trusted(o, x) => row[x].data \subseteq row'[x].data]_vars
  <2> SUFFICES ASSUME TypeOK, LockInv, [Next]_vars, NEW o \in Ops, NEW x \in Rows,
                      pc[o] = "tx", pc'[o] = "done", Trusted(o, x)
               PROVE  row[x].data \subseteq row'[x].data
    OBVIOUS
  <2>1. Commit(o)
    BY DoneByCommit
  <2> QED BY <2>1, CommitRows
<1> QED BY <1>1, <1>2, <1>3, PTL DEF Spec, OverwritesNothing

-----------------------------------------------------------------------------
(* What a failed operation leaves.  An object in memory contains, as the    *)
(* rows do, the updates of operations that committed and of no other.       *)

\* v contains only updates of operations that committed
OfDone(v) == \A p \in Ops : p \in v.data => pc[p] = "done"

CommittedInv ==
    /\ \A x \in Rows : OfDone(row[x])
    /\ \A o \in Ops, x \in Rows : OfDone(obj[o][x])

\* What contains only committed updates still does after a step.
LEMMA OfDoneStable ==
    ASSUME TypeOK, [Next]_vars, NEW v, OfDone(v)
    PROVE  OfDone(v)'
BY DoneByCommit DEF OfDone

\* An object in memory after a step has the updates of one before it, or of a row.
LEMMA ObjectsFrom ==
    ASSUME TypeOK, [Next]_vars, NEW o \in Ops, NEW x \in Rows
    PROVE  obj'[o][x].data \in {obj[o][x].data, row[x].data}
<1> USE DEF TypeOK
<1>1. ASSUME NEW p \in Ops, Read(p) PROVE obj'[o][x] \in {obj[o][x], row[x]}
  BY <1>1 DEF Read
<1>2. ASSUME NEW p \in Ops, Begin(p) PROVE obj'[o][x] \in {obj[o][x], row[x]}
  BY <1>2 DEF Begin, Reload
<1>3. ASSUME NEW p \in Ops, Update(p) PROVE obj'[o][x].data = obj[o][x].data
  <2> DEFINE y == Writes[p][done[p] + 1]
  <2>1. y \in Rows
    BY <1>3, WrittenNext DEF Update
  <2>2. obj'[p] = [obj[p] EXCEPT ![y] = Incremented(obj[p][y])] /\ \A q \in Ops : q # p => obj'[q] = obj[q]
    BY <1>3 DEF Update
  <2>3. obj[p] \in [Rows -> Object]
    OBVIOUS
  <2>4. obj'[p][x] = IF x = y THEN Incremented(obj[p][y]) ELSE obj[p][x]
    BY <2>1, <2>2, <2>3
  <2>5. Incremented(obj[p][y]).data = obj[p][y].data
    BY <2>1, <2>3, ObjectTypes
  <2> QED BY <2>2, <2>4, <2>5
<1>4. CASE UNCHANGED obj
  BY <1>4
<1> QED BY <1>1, <1>2, <1>3, <1>4 DEF Next, vars, UpdateConflict, Commit,
           SerializationFailure, TxFails

\* The rows and the objects in memory contain only committed updates, forever.
LEMMA CommittedNext ==
    ASSUME TypeOK, CommittedInv, [Next]_vars
    PROVE  CommittedInv'
<1>1. ASSUME NEW o \in Ops, NEW x \in Rows PROVE OfDone(obj[o][x])'
  BY ObjectsFrom, DoneByCommit DEF CommittedInv, OfDone
<1>2. ASSUME NEW x \in Rows PROVE OfDone(row[x])'
  <2>1. CASE UNCHANGED row
    BY <2>1, DoneByCommit DEF CommittedInv, OfDone
  <2>2. ASSUME NEW o \in Ops, Commit(o) PROVE OfDone(row[x])'
    <3>1. row'[x] = IF x \in Written(o, done[o]) THEN UpdatedBy(obj[o][x], o) ELSE row[x]
      BY <2>2 DEF Commit
    <3>2. row'[x].data \subseteq row[x].data \cup obj[o][x].data \cup {o}
      BY <3>1 DEF UpdatedBy
    <3>3. pc'[o] = "done"
      BY <2>2, DoneByCommit
    <3> QED BY <3>2, <3>3, DoneByCommit DEF CommittedInv, OfDone
  <2> QED BY <2>1, <2>2 DEF Next, vars, Read, Begin, Update, UpdateConflict,
             SerializationFailure, TxFails
<1> QED BY <1>1, <1>2 DEF CommittedInv

\* A failed operation leaves nothing behind: an update that a row contains was
\* committed, however many transactions were rolled back, retried or given up.
THEOREM NothingLeft == Spec => []NothingOfFailed
<1>1. Init => CommittedInv
  BY DEF Init, CommittedInv, OfDone
<1>2. TypeOK /\ CommittedInv /\ [Next]_vars => CommittedInv'
  BY CommittedNext
<1>3. CommittedInv => NothingOfFailed
  BY DEF CommittedInv, OfDone, NothingOfFailed
<1> QED BY <1>1, <1>2, <1>3, TypeCorrect, PTL DEF Spec
=============================================================================
