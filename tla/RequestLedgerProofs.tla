------------------------ MODULE RequestLedgerProofs -------------------------
(* Theorems about RequestLedger for any sets of wrappers, run ids and plans, *)
(* any ceiling and any overshoot.                                            *)
EXTENDS RequestLedger, FiniteSetTheorems, TLAPS

(***************************************************************************)
(* The sum over the rows                                                   *)
(***************************************************************************)
Ledgers == [RunIds -> Row]

(* The requests of one row, and how many they are.                         *)
LEMMA RowRequests ==
  ASSUME NEW r, NEW n \in Nat
  PROVE  IsFiniteSet({r} \X (1..n)) /\ Cardinality({r} \X (1..n)) = n
<1>1. IsFiniteSet({r}) /\ Cardinality({r}) = 1
  BY FS_Singleton
<1>2. IsFiniteSet(1..n) /\ Cardinality(1..n) = n
  BY FS_Interval
<1>3. /\ IsFiniteSet({r} \X (1..n))
      /\ Cardinality({r} \X (1..n)) = Cardinality({r}) * Cardinality(1..n)
  BY <1>1, <1>2, FS_Product, Zenon
<1>4. Cardinality({r}) * Cardinality(1..n) = n
  BY <1>1, <1>2
<1>5. QED  BY <1>3, <1>4

LEMMA CountedIsNat ==
  ASSUME NEW L \in Ledgers, NEW r \in RunIds
  PROVE  Counted(L[r]) \in Nat
BY DEF Ledgers, Row, Counted

(* Finitely many rows make a finite number of requests.                    *)
LEMMA TotalIsNat ==
  ASSUME NEW L \in Ledgers, IsFiniteSet(Rows(L))
  PROVE  IsFiniteSet(CountedRequests(L)) /\ Total(L) \in Nat
<1> DEFINE of[r \in Rows(L)] == {r} \X (1..Counted(L[r]))
           parts == {{r} \X (1..Counted(L[r])) : r \in Rows(L)}
<1>1. of \in [Rows(L) -> parts]
  OBVIOUS
<1>2. IsFiniteSet(parts)
  <2>1. of \in Surjection(Rows(L), parts)
    BY <1>1 DEF Surjection
  <2>2. QED  BY <2>1, FS_Surjection
<1>3. \A T \in parts : IsFiniteSet(T)
  <2>1. ASSUME NEW r \in Rows(L)
        PROVE  IsFiniteSet({r} \X (1..Counted(L[r])))
    <3>1. Counted(L[r]) \in Nat
      BY CountedIsNat DEF Rows
    <3>2. QED  BY <3>1, RowRequests
  <2>2. QED  BY <2>1
<1>4. IsFiniteSet(UNION parts)
  BY <1>2, <1>3, FS_UNION
<1>5. QED  BY <1>4, FS_CardinalityType DEF CountedRequests, Total

(* A reservation adds its plan.                                            *)
LEMMA ReservedTotal ==
  ASSUME NEW L \in Ledgers, IsFiniteSet(Rows(L)), NEW r \in RunIds \ Rows(L), NEW n \in Nat
  PROVE  /\ Rows(Reserved(L, r, n)) = Rows(L) \union {r}
         /\ Total(Reserved(L, r, n)) = Total(L) + n
<1> DEFINE M == Reserved(L, r, n)
<1>1. /\ M[r].status = "reserved" /\ M[r].planned = n
      /\ \A s \in RunIds \ {r} : M[s] = L[s]
  BY DEF Ledgers, Reserved, NoRow
<1>2. Rows(M) = Rows(L) \union {r}
  BY <1>1 DEF Rows
<1>3. CountedRequests(M) = CountedRequests(L) \union ({r} \X (1..n))
  <2>1. Counted(M[r]) = n /\ \A s \in Rows(L) : M[s] = L[s]
    BY <1>1 DEF Counted, Rows
  <2>2. QED  BY <1>2, <2>1 DEF CountedRequests
<1>4. CountedRequests(L) \intersect ({r} \X (1..n)) = {}
  BY DEF CountedRequests
<1>5. Total(M) = Total(L) + n
  <2>1. /\ IsFiniteSet(CountedRequests(L)) /\ Cardinality(CountedRequests(L)) \in Nat
        /\ IsFiniteSet({r} \X (1..n)) /\ Cardinality({r} \X (1..n)) = n
    BY RowRequests, TotalIsNat DEF Total
  <2>2. Cardinality(CountedRequests(L) \union ({r} \X (1..n)))
          = Cardinality(CountedRequests(L)) + Cardinality({r} \X (1..n))
            - Cardinality(CountedRequests(L) \intersect ({r} \X (1..n)))
    BY <2>1, FS_Union, Zenon
  <2>3. Cardinality(CountedRequests(L) \intersect ({r} \X (1..n))) = 0
    BY <1>4, FS_EmptySet, Zenon
  <2>4. Total(M) = Cardinality(CountedRequests(L) \union ({r} \X (1..n)))
    BY <1>3, Zenon DEF Total
  <2> DEFINE a == Cardinality(CountedRequests(L))
             b == Cardinality({r} \X (1..n))
             c == Cardinality(CountedRequests(L) \intersect ({r} \X (1..n)))
  <2>5. a \in Nat /\ b = n /\ c = 0 /\ Total(M) = a + b - c /\ Total(L) = a
    BY <2>1, <2>2, <2>3, <2>4, Zenon DEF Total
  <2> HIDE DEF a, b, c, M
  <2>6. QED  BY <2>5 DEF M
<1>6. QED  BY <1>2, <1>5

(* A review changes no count.                                              *)
LEMMA ReviewedTotal ==
  ASSUME NEW L \in Ledgers, NEW r \in RunIds
  PROVE  /\ Rows(Reviewed(L, r)) = Rows(L)
         /\ Total(Reviewed(L, r)) = Total(L)
<1>1. \A s \in RunIds : /\ Reviewed(L, r)[s].status = L[s].status
                        /\ Counted(Reviewed(L, r)[s]) = Counted(L[s])
  BY DEF Ledgers, Row, Reviewed, Counted
<1>2. Rows(Reviewed(L, r)) = Rows(L)
  BY <1>1 DEF Rows
<1>3. CountedRequests(Reviewed(L, r)) = CountedRequests(L)
  BY <1>1, <1>2 DEF CountedRequests, Rows
<1>4. QED  BY <1>2, <1>3 DEF Total

(***************************************************************************)
(* The inductive invariant                                                 *)
(***************************************************************************)
(* Whoever has the lock is alone with it and knows the file.               *)
LockedReaders ==
  /\ \A p, q \in flock : p = q
  /\ \A p \in flock : copy[p] = ledger

InRun == {"run", "complete"}

(* A wrapper that runs k6 has a reservation, and nobody else runs under it.*)
Reservations ==
  /\ \A w \in Wrappers : pc[w] \in InRun => ledger[id[w]].status = "reserved"
  /\ \A v, w \in Wrappers : pc[v] \in InRun /\ pc[w] \in InRun /\ id[v] = id[w] => v = w

IInv ==
  /\ TypeOK
  /\ IsFiniteSet(Rows(ledger))
  /\ LockedReaders
  /\ Reservations
  /\ WithinCeiling
  /\ TrafficIsAccounted

LEMMA InitIInv == Init => IInv
<1> SUFFICES ASSUME Init PROVE IInv
  OBVIOUS
<1> USE LedgerAssumption DEF Init
<1>1. TypeOK
  BY DEF TypeOK, NoRows, NoRow, Row, Statuses, Readable
<1>2. Rows(ledger) = {}
  BY DEF Rows, NoRows, NoRow
<1>3. IsFiniteSet(Rows(ledger)) /\ Total(ledger) = 0
  <2>1. CountedRequests(ledger) = {}
    BY <1>2 DEF CountedRequests
  <2>2. QED  BY <1>2, <2>1, FS_EmptySet DEF Total
<1>4. LockedReaders /\ Reservations
  BY DEF LockedReaders, Reservations, InRun
<1>5. WithinCeiling
  BY <1>3 DEF WithinCeiling
<1>6. TrafficIsAccounted
  BY DEF TrafficIsAccounted, NoRows, NoRow
<1>7. QED  BY <1>1, <1>3, <1>4, <1>5, <1>6 DEF IInv

(* What a holder of the lock writes is derived from the file as it is.     *)
LEMMA HolderKnows ==
  ASSUME IInv, NEW p \in Processes, p \in flock
  PROVE  copy[p] = ledger /\ ledger \in Ledgers /\ flock \ {p} = {}
BY DEF IInv, LockedReaders, TypeOK, Ledgers

(* A step that changes neither the file nor the requests sent.             *)
LEMMA FileUnchanged ==
  ASSUME IInv, ledger' = ledger, sent' = sent
  PROVE  IsFiniteSet(Rows(ledger))' /\ WithinCeiling' /\ TrafficIsAccounted'
<1>1. Rows(ledger)' = Rows(ledger) /\ Total(ledger)' = Total(ledger)
  BY DEF Rows, Total, CountedRequests
<1>2. QED
  BY <1>1 DEF IInv, WithinCeiling, TrafficIsAccounted, Unreviewed

LEMMA LockStep ==
  ASSUME IInv, NEW p \in Processes, Lock(p)
  PROVE  IInv'
<1> USE DEF Lock
<1>1. TypeOK'
  BY DEF IInv, TypeOK
<1>2. LockedReaders'
  BY DEF IInv, TypeOK, LockedReaders
<1>3. Reservations'
  BY DEF IInv, Reservations
<1>4. QED  BY <1>1, <1>2, <1>3, FileUnchanged DEF IInv

(* A wrapper that stops, or a command that is refused, gives its lock back.*)
LEMMA UnlockStep ==
  ASSUME IInv, NEW p \in Processes, Unlock(p), UNCHANGED <<ledger, id, plan, sent>>,
         pc' = pc \/ \E w \in Wrappers : pc' = [pc EXCEPT ![w] = "done"]
  PROVE  IInv'
<1>1. TypeOK'
  <2>1. copy' \in [Processes -> [RunIds -> Row]]
    BY DEF IInv, TypeOK, Unlock, NoRows, NoRow, Row, Statuses
  <2>2. QED  BY <2>1 DEF IInv, TypeOK, Unlock
<1>2. LockedReaders'
  BY DEF IInv, TypeOK, LockedReaders, Unlock
<1>3. Reservations'
  BY DEF IInv, TypeOK, Reservations, InRun
<1>4. QED  BY <1>1, <1>2, <1>3, FileUnchanged DEF IInv

(* A reservation is made while every overrun is reviewed, below the        *)
(* ceiling, and for a run id without a row.                                *)
LEMMA ReservedStep ==
  ASSUME IInv, NEW w \in Wrappers, MayReserve(copy[w], id[w], plan[w]), Step(w, "plan", "run"),
         Write(w, Reserved(copy[w], id[w], plan[w])), UNCHANGED <<id, plan, sent>>
  PROVE  IInv'
<1> DEFINE r == id[w]
           n == plan[w]
<1>1. /\ w \in Processes /\ r \in RunIds /\ n \in Nat
      /\ copy[w] = ledger /\ ledger \in Ledgers
      /\ r \notin Rows(ledger) /\ ledger' = Reserved(ledger, r, n)
      /\ IsFiniteSet(Rows(ledger))
  BY HolderKnows, LedgerAssumption DEF IInv, TypeOK, Write, MayReserve, Processes
<1>2. /\ ledger' = [ledger EXCEPT ![r] = ledger'[r]]
      /\ ledger'[r] \in Row /\ Readable(ledger'[r]) /\ ledger'[r].status = "reserved"
  BY <1>1 DEF Reserved, NoRow, Ledgers, Row, Statuses, Readable
<1>3. TypeOK'
  <2>1. ledger' \in [RunIds -> Row] /\ \A s \in RunIds : Readable(ledger'[s])
    BY <1>1, <1>2 DEF IInv, TypeOK, Ledgers
  <2>2. copy' \in [Processes -> [RunIds -> Row]]
    BY DEF IInv, TypeOK, Write, Unlock, NoRows, NoRow, Row, Statuses
  <2>3. QED  BY <2>1, <2>2 DEF IInv, TypeOK, Write, Unlock, Step
<1>4. IsFiniteSet(Rows(ledger))'
  BY <1>1, ReservedTotal, FS_AddElement
<1>5. LockedReaders'
  BY DEF IInv, TypeOK, LockedReaders, Write, Unlock
<1>6. Reservations'
  <2>1. \A v \in Wrappers : pc[v] \in InRun => id[v] # r
    BY <1>1 DEF IInv, Reservations, Rows, TypeOK
  <2>2. QED
    BY <1>1, <1>2, <2>1 DEF IInv, TypeOK, Reservations, InRun, Step, Ledgers
<1>7. WithinCeiling'
  BY <1>1, ReservedTotal, LedgerAssumption DEF WithinCeiling, MayReserve
<1>8. TrafficIsAccounted'
  BY <1>1, <1>2 DEF IInv, TrafficIsAccounted, Ledgers, TypeOK
<1>9. QED  BY <1>3, <1>4, <1>5, <1>6, <1>7, <1>8 DEF IInv

(* k6 runs under a reservation, which is no measurement yet.               *)
LEMMA RunK6Step ==
  ASSUME IInv, NEW w \in Wrappers, NEW n \in 0..(plan[w] + Overshoot), RunK6(w, n)
  PROVE  IInv'
<1> DEFINE r == id[w]
<1>1. r \in RunIds /\ n \in Nat /\ ledger[r].status = "reserved"
  BY LedgerAssumption DEF IInv, TypeOK, Reservations, InRun, RunK6, Step
<1>2. TypeOK'
  BY <1>1 DEF IInv, TypeOK, RunK6, Step
<1>3. LockedReaders'
  BY DEF IInv, LockedReaders, RunK6
<1>4. Reservations'
  BY DEF IInv, TypeOK, Reservations, InRun, RunK6, Step
<1>5. IsFiniteSet(Rows(ledger))' /\ WithinCeiling'
  BY DEF IInv, RunK6, Rows, WithinCeiling, Unreviewed, Total, CountedRequests
<1>6. TrafficIsAccounted'
  BY <1>1 DEF IInv, TypeOK, TrafficIsAccounted, RunK6
<1>7. QED  BY <1>2, <1>3, <1>4, <1>5, <1>6 DEF IInv

(* The measurement replaces the reservation; over the ceiling it is an     *)
(* overrun.                                                                *)
LEMMA ReconciledRow ==
  ASSUME NEW L \in Ledgers, NEW r \in RunIds, NEW n \in Nat, NEW ok \in BOOLEAN,
         L[r].status = "reserved", ~L[r].reviewed, IsFiniteSet(Rows(L)), Ceiling \in Nat
  PROVE  LET M == Reconciled(L, r, n, ok)
         IN /\ M \in Ledgers /\ Rows(M) = Rows(L)
            /\ \A s \in RunIds \ {r} : M[s] = L[s]
            /\ M[r].actual = n /\ M[r].planned = L[r].planned /\ ~M[r].reviewed
            /\ M[r].status \in {"completed", "failed", "over_budget"}
            /\ M[r].status = "over_budget" \/ Total(M) <= Ceiling
<1> DEFINE measured == [L EXCEPT ![r].actual = n,
                          ![r].status = IF n > L[r].planned THEN "over_budget"
                                        ELSE IF ok THEN "completed" ELSE "failed"]
           M == Reconciled(L, r, n, ok)
<1>1. /\ measured \in Ledgers
      /\ \A s \in RunIds \ {r} : measured[s] = L[s]
      /\ measured[r].actual = n /\ measured[r].planned = L[r].planned /\ ~measured[r].reviewed
      /\ measured[r].status \in {"completed", "failed", "over_budget"}
  BY DEF Ledgers, Row, Statuses
<1>2. Rows(measured) = Rows(L)
  BY <1>1 DEF Rows
<1>3. Total(measured) \in Nat
  BY <1>1, <1>2, TotalIsNat
<1>4. CASE Total(measured) > Ceiling
  <2>1. M = [measured EXCEPT ![r].status = "over_budget"]
    BY <1>4 DEF Reconciled
  <2>2. /\ M \in Ledgers
        /\ \A s \in RunIds \ {r} : M[s] = measured[s]
        /\ M[r].actual = measured[r].actual /\ M[r].planned = measured[r].planned
        /\ M[r].reviewed = measured[r].reviewed /\ M[r].status = "over_budget"
    BY <1>1, <2>1 DEF Ledgers, Row, Statuses
  <2>3. Rows(M) = Rows(L)
    BY <1>1, <1>2, <2>2 DEF Rows
  <2>4. QED  BY <1>1, <2>2, <2>3
<1>5. CASE ~(Total(measured) > Ceiling)
  <2>1. M = measured
    BY <1>5 DEF Reconciled
  <2>2. Total(measured) <= Ceiling
    BY <1>3, <1>5
  <2> HIDE DEF measured, M
  <2>3. QED  BY <1>1, <1>2, <2>1, <2>2 DEF M
<1>6. QED  BY <1>4, <1>5

LEMMA ReconciledStep ==
  ASSUME IInv, NEW w \in Wrappers, NEW ok \in BOOLEAN, copy[w][id[w]].status = "reserved",
         Step(w, "complete", "done"),
         Write(w, Reconciled(copy[w], id[w], sent[id[w]], ok)), UNCHANGED <<id, plan, sent>>
  PROVE  IInv'
<1> DEFINE r == id[w]
<1>1. /\ w \in Processes /\ r \in RunIds /\ sent[r] \in Nat
      /\ copy[w] = ledger /\ ledger \in Ledgers /\ flock' = {}
      /\ ledger[r].status = "reserved" /\ ~ledger[r].reviewed
      /\ ledger' = Reconciled(ledger, r, sent[r], ok)
      /\ IsFiniteSet(Rows(ledger))
  BY HolderKnows DEF IInv, TypeOK, Write, Unlock, Processes, Readable, Ledgers, Row
<1>2. /\ ledger' \in Ledgers /\ Rows(ledger') = Rows(ledger)
      /\ \A s \in RunIds \ {r} : ledger'[s] = ledger[s]
      /\ ledger'[r].actual = sent[r] /\ ~ledger'[r].reviewed
      /\ ledger'[r].status \in {"completed", "failed", "over_budget"}
      /\ ledger'[r].status = "over_budget" \/ Total(ledger') <= Ceiling
  BY <1>1, ReconciledRow, LedgerAssumption
<1>3. TypeOK'
  <2>1. \A s \in RunIds : Readable(ledger'[s])
    BY <1>1, <1>2 DEF IInv, TypeOK, Readable
  <2>2. copy' \in [Processes -> [RunIds -> Row]]
    BY DEF IInv, TypeOK, Write, Unlock, NoRows, NoRow, Row, Statuses
  <2>3. QED  BY <1>1, <1>2, <2>1, <2>2 DEF IInv, TypeOK, Step, Ledgers
<1>4. LockedReaders'
  BY <1>1 DEF LockedReaders
<1>5. Reservations'
  BY <1>2 DEF IInv, TypeOK, Reservations, InRun, Step
<1>6. WithinCeiling'
  <2>1. CASE ledger'[r].status = "over_budget"
    <3>1. r \in Unreviewed'
      BY <1>1, <1>2, <2>1 DEF Unreviewed, Overrun, Rows
    <3>2. QED  BY <3>1 DEF WithinCeiling
  <2>2. QED  BY <1>2, <2>1 DEF WithinCeiling
<1>7. TrafficIsAccounted'
  BY <1>1, <1>2 DEF IInv, TypeOK, TrafficIsAccounted
<1>8. QED  BY <1>1, <1>2, <1>3, <1>4, <1>5, <1>6, <1>7 DEF IInv

(* A review is written below the ceiling and changes no count.             *)
LEMMA ReviewedStep ==
  ASSUME IInv, NEW r \in RunIds, MayReview(copy[Reviewer], r),
         Write(Reviewer, Reviewed(copy[Reviewer], r)), UNCHANGED <<pc, id, plan, sent>>
  PROVE  IInv'
<1>1. /\ Reviewer \in Processes
      /\ copy[Reviewer] = ledger /\ ledger \in Ledgers /\ flock' = {}
      /\ ledger' = Reviewed(ledger, r) /\ MayReview(ledger, r)
      /\ IsFiniteSet(Rows(ledger))
  BY HolderKnows DEF IInv, Write, Unlock, Processes
<1>2. /\ ledger' \in Ledgers
      /\ \A s \in RunIds \ {r} : ledger'[s] = ledger[s]
      /\ ledger'[r].status = ledger[r].status /\ ledger'[r].actual = ledger[r].actual
      /\ ledger'[r].planned = ledger[r].planned
  BY <1>1 DEF Reviewed, Ledgers, Row
<1>3. Rows(ledger') = Rows(ledger) /\ Total(ledger') = Total(ledger)
  BY <1>1, ReviewedTotal
<1>4. TypeOK'
  <2>1. \A s \in RunIds : Readable(ledger'[s])
    BY <1>1, <1>2 DEF IInv, TypeOK, Readable, MayReview, Overrun
  <2>2. copy' \in [Processes -> [RunIds -> Row]]
    BY DEF IInv, TypeOK, Write, Unlock, NoRows, NoRow, Row, Statuses
  <2>3. QED  BY <1>1, <1>2, <2>1, <2>2 DEF IInv, TypeOK, Ledgers
<1>5. LockedReaders'
  BY <1>1 DEF LockedReaders
<1>6. Reservations'
  BY <1>2 DEF IInv, TypeOK, Reservations
<1>7. WithinCeiling'
  <2>1. Total(ledger) \in Nat
    BY <1>1, TotalIsNat
  <2>2. QED  BY <1>1, <1>3, <2>1, LedgerAssumption DEF WithinCeiling, MayReview
<1>8. TrafficIsAccounted'
  BY <1>1, <1>2 DEF IInv, TypeOK, TrafficIsAccounted
<1>9. QED  BY <1>1, <1>3, <1>4, <1>5, <1>6, <1>7, <1>8 DEF IInv

LEMMA NextIInv == IInv /\ [Next]_vars => IInv'
<1> SUFFICES ASSUME IInv, [Next]_vars PROVE IInv'
  OBVIOUS
<1>1. ASSUME NEW w \in Wrappers, StartCommand(w) PROVE IInv'
  BY <1>1, LockStep DEF StartCommand, Processes
<1>2. ASSUME NEW w \in Wrappers, Reserve(w) PROVE IInv'
  <2>1. CASE MayReserve(copy[w], id[w], plan[w]) /\ Step(w, "plan", "run")
             /\ Write(w, Reserved(copy[w], id[w], plan[w]))
    BY <1>2, <2>1, ReservedStep DEF Reserve
  <2>2. CASE Step(w, "plan", "done") /\ Refuse(w)
    BY <1>2, <2>2, UnlockStep DEF Reserve, Step, Refuse, Processes
  <2>3. QED  BY <1>2, <2>1, <2>2 DEF Reserve
<1>3. ASSUME NEW w \in Wrappers, NEW n \in 0..(plan[w] + Overshoot), RunK6(w, n) PROVE IInv'
  BY <1>3, RunK6Step
<1>4. ASSUME NEW w \in Wrappers, NEW ok \in BOOLEAN, Complete(w, ok) PROVE IInv'
  <2>1. CASE copy[w][id[w]].status = "reserved"
    BY <1>4, <2>1, ReconciledStep DEF Complete
  <2>2. CASE copy[w][id[w]].status # "reserved"
    BY <1>4, <2>2, UnlockStep DEF Complete, Step, Refuse, Processes
  <2>3. QED  BY <2>1, <2>2
<1>5. ASSUME NEW w \in Wrappers, Die(w) PROVE IInv'
  BY <1>5, UnlockStep DEF Die, Processes
<1>6. CASE Lock(Reviewer)
  BY <1>6, LockStep DEF Processes
<1>7. ASSUME NEW r \in RunIds, Review(r) PROVE IInv'
  <2>1. CASE MayReview(copy[Reviewer], r)
    BY <1>7, <2>1, ReviewedStep DEF Review
  <2>2. CASE ~MayReview(copy[Reviewer], r)
    BY <1>7, <2>2, UnlockStep DEF Review, Refuse, Processes
  <2>3. QED  BY <2>1, <2>2
<1>8. CASE UNCHANGED vars
  BY <1>8, FileUnchanged DEF vars, IInv, TypeOK, LockedReaders, Reservations
<1>9. QED  BY <1>1, <1>2, <1>3, <1>4, <1>5, <1>6, <1>7, <1>8 DEF Next

(***************************************************************************)
(* Theorems                                                                *)
(***************************************************************************)
(* The inductive invariant holds.                                          *)
THEOREM LedgerInvariant == Spec => []IInv
<1>1. QED  BY InitIInv, NextIInv, PTL DEF Spec

(* Every variable keeps its type, and the file is never left with a row    *)
(* that its own reader refuses.                                            *)
THEOREM LedgerReadable == Spec => []TypeOK
<1>1. IInv => TypeOK
  BY DEF IInv
<1>2. QED  BY <1>1, LedgerInvariant, PTL

(* A session without an open overrun is within its ceiling, however many   *)
(* wrappers overlap, die, overshoot or are reviewed.                       *)
THEOREM CeilingKept == Spec => []WithinCeiling
<1>1. IInv => WithinCeiling
  BY DEF IInv
<1>2. QED  BY <1>1, LedgerInvariant, PTL

(* Every request sent has a row, and a measured row holds exactly what was *)
(* sent under its run id.                                                  *)
THEOREM TrafficAccounted == Spec => []TrafficIsAccounted
<1>1. IInv => TrafficIsAccounted
  BY DEF IInv
<1>2. QED  BY <1>1, LedgerInvariant, PTL

(* What RowsMoveForward allows one row, given the open overruns.           *)
Forward(old, new, overruns) ==
  /\ old.status = "none" /\ new.status # "none" => overruns = {}
  /\ old.status \notin {"none", "reserved"} =>
       new.status = old.status /\ new.actual = old.actual /\ (old.reviewed => new.reviewed)
  /\ old.status = "reserved" => new.status # "none" /\ new.planned = old.planned

(* The file changes by a reservation, a measurement or a review.           *)
LEMMA StepForward ==
  ASSUME IInv, [Next]_vars
  PROVE  \A r \in RunIds : Forward(ledger[r], ledger'[r], Unreviewed)
<1>1. CASE ledger' = ledger
  BY <1>1 DEF Forward
<1>2. ASSUME NEW w \in Wrappers, MayReserve(copy[w], id[w], plan[w]),
             Write(w, Reserved(copy[w], id[w], plan[w]))
      PROVE  \A r \in RunIds : Forward(ledger[r], ledger'[r], Unreviewed)
  <2>1. /\ w \in Processes /\ id[w] \in RunIds /\ copy[w] = ledger /\ ledger \in Ledgers
        /\ ledger' = Reserved(ledger, id[w], plan[w]) /\ MayReserve(ledger, id[w], plan[w])
    BY <1>2, HolderKnows DEF IInv, TypeOK, Write, Processes
  <2>2. Unreviewed = {}
    BY <2>1 DEF MayReserve, Unreviewed
  <2>3. \A r \in RunIds : r = id[w] \/ ledger'[r] = ledger[r]
    BY <2>1 DEF Reserved, Ledgers
  <2>4. ledger[id[w]].status = "none"
    BY <2>1 DEF MayReserve, Rows
  <2>5. QED  BY <2>2, <2>3, <2>4 DEF Forward
<1>3. ASSUME NEW w \in Wrappers, NEW ok \in BOOLEAN, copy[w][id[w]].status = "reserved",
             Write(w, Reconciled(copy[w], id[w], sent[id[w]], ok))
      PROVE  \A r \in RunIds : Forward(ledger[r], ledger'[r], Unreviewed)
  <2>1. /\ w \in Processes /\ id[w] \in RunIds /\ sent[id[w]] \in Nat
        /\ copy[w] = ledger /\ ledger \in Ledgers
        /\ ledger[id[w]].status = "reserved" /\ ~ledger[id[w]].reviewed
        /\ ledger' = Reconciled(ledger, id[w], sent[id[w]], ok) /\ IsFiniteSet(Rows(ledger))
    BY <1>3, HolderKnows DEF IInv, TypeOK, Write, Processes, Readable, Ledgers, Row
  <2>2. /\ \A s \in RunIds \ {id[w]} : ledger'[s] = ledger[s]
        /\ ledger'[id[w]].planned = ledger[id[w]].planned
        /\ ledger'[id[w]].status \in {"completed", "failed", "over_budget"}
    BY <2>1, ReconciledRow, LedgerAssumption
  <2>3. QED  BY <2>1, <2>2 DEF Forward
<1>4. ASSUME NEW r \in RunIds, Write(Reviewer, Reviewed(copy[Reviewer], r))
      PROVE  \A s \in RunIds : Forward(ledger[s], ledger'[s], Unreviewed)
  <2>1. ledger \in Ledgers /\ ledger' = Reviewed(ledger, r)
    BY <1>4, HolderKnows DEF Write, Processes
  <2>2. \A s \in RunIds : /\ ledger'[s].status = ledger[s].status
                          /\ ledger'[s].actual = ledger[s].actual
                          /\ ledger'[s].planned = ledger[s].planned
                          /\ ledger[s].reviewed => ledger'[s].reviewed
    BY <2>1 DEF Reviewed, Ledgers, Row
  <2>3. QED  BY <2>2 DEF Forward
<1>5. \/ ledger' = ledger
      \/ \E w \in Wrappers : MayReserve(copy[w], id[w], plan[w])
                            /\ Write(w, Reserved(copy[w], id[w], plan[w]))
      \/ \E w \in Wrappers, ok \in BOOLEAN :
           copy[w][id[w]].status = "reserved"
           /\ Write(w, Reconciled(copy[w], id[w], sent[id[w]], ok))
      \/ \E r \in RunIds : Write(Reviewer, Reviewed(copy[Reviewer], r))
  BY DEF Next, StartCommand, Lock, Reserve, RunK6, Complete, Die, Refuse, Review, vars
<1>6. QED  BY <1>1, <1>2, <1>3, <1>4, <1>5

(* No run is admitted while an overrun is open, and a row never goes back: *)
(* a review does not erase the failure it reviews.                         *)
THEOREM ForwardOnly == Spec => RowsMoveForward
<1>1. IInv /\ [Next]_vars
        => [\A r \in RunIds :
              LET old == ledger[r]  new == ledger'[r]
              IN /\ old.status = "none" /\ new.status # "none" => Unreviewed = {}
                 /\ old.status \notin {"none", "reserved"} =>
                      new.status = old.status /\ new.actual = old.actual
                      /\ (old.reviewed => new.reviewed)
                 /\ old.status = "reserved" => new.status # "none" /\ new.planned = old.planned]_vars
  BY StepForward DEF Forward
<1>2. QED  BY <1>1, LedgerInvariant, PTL DEF Spec, RowsMoveForward
=============================================================================
