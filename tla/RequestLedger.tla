--------------------------- MODULE RequestLedger ---------------------------
(***************************************************************************)
(* The session's request ledger (scripts/loadtest_ledger.py) and the       *)
(* wrappers that run k6 under it (scripts/run_live_lab_k6.sh).  Commands   *)
(* take an flock, read the file into memory, decide, and replace the file  *)
(* atomically; a process may die at any point, which frees its flock.      *)
(***************************************************************************)
EXTENDS Naturals, FiniteSets

CONSTANTS
  Wrappers,   \* invocations of run_live_lab_k6.sh
  RunIds,     \* values of RUN_ID
  Reviewer,   \* the operator who runs review-boundary-overrun
  Plans,      \* planned request counts of the k6 modes
  Ceiling,    \* REQUEST_CEILING
  Overshoot   \* bound: requests k6 may send beyond a plan

ASSUME LedgerAssumption ==
  /\ Plans \subseteq Nat \ {0}
  /\ Ceiling \in Nat /\ Overshoot \in Nat
  /\ Reviewer \notin Wrappers

VARIABLES
  ledger,  \* the rows in the file, by run_id
  flock,   \* processes that hold the file lock
  copy,    \* the rows each of them read
  pc,      \* progress of every wrapper
  id,      \* its RUN_ID
  plan,    \* its planned request count
  sent     \* requests that k6 sent under every run_id

vars == <<ledger, flock, copy, pc, id, plan, sent>>

Processes == Wrappers \union {Reviewer}
Statuses == {"none", "reserved", "completed", "failed", "over_budget"}
NoRow == [status |-> "none", planned |-> 0, actual |-> 0, reviewed |-> FALSE]
NoRows == [r \in RunIds |-> NoRow]
Row == [status : Statuses, planned : Nat, actual : Nat, reviewed : BOOLEAN]

(* What _read_ledger refuses: a review sits on an overrun of one request.  *)
Readable(row) ==
  row.reviewed => row.status = "over_budget" /\ row.actual = row.planned + 1

(* The program also never writes a row that its own reader refuses.        *)
TypeOK ==
  /\ ledger \in [RunIds -> Row] /\ \A r \in RunIds : Readable(ledger[r])
  /\ copy \in [Processes -> [RunIds -> Row]]
  /\ flock \subseteq Processes
  /\ pc \in [Wrappers -> {"plan", "run", "complete", "done"}]
  /\ id \in [Wrappers -> RunIds]
  /\ plan \in [Wrappers -> Plans]
  /\ sent \in [RunIds -> Nat]

Init ==
  /\ ledger = NoRows
  /\ flock = {}
  /\ copy = [p \in Processes |-> NoRows]
  /\ pc = [w \in Wrappers |-> "plan"]
  /\ id \in [Wrappers -> RunIds] /\ plan \in [Wrappers -> Plans]
  /\ sent = [r \in RunIds |-> 0]

(***************************************************************************)
(* The ledger                                                              *)
(***************************************************************************)
Rows(L) == {r \in RunIds : L[r].status # "none"}

(* A row counts what was measured, or what was planned until then.         *)
Counted(row) == IF row.status = "reserved" THEN row.planned ELSE row.actual

(* The requests the rows stand for, one by one; their number is the sum    *)
(* over the rows.                                                          *)
CountedRequests(L) == UNION {{r} \X (1..Counted(L[r])) : r \in Rows(L)}

Total(L) == Cardinality(CountedRequests(L))

Overrun(row) == row.status = "over_budget" /\ ~row.reviewed

(* Faulty variant: an open overrun does not stop the next run.             *)
MayReserveIgnoringOverruns(L, r, n) ==
  /\ r \notin Rows(L)
  /\ Total(L) + n <= Ceiling

MayReserve(L, r, n) ==
  /\ \A s \in Rows(L) : ~Overrun(L[s])
  /\ r \notin Rows(L)
  /\ Total(L) + n <= Ceiling

Reserved(L, r, n) ==
  [L EXCEPT ![r] = [NoRow EXCEPT !.status = "reserved", !.planned = n]]

(* reconcile: the measurement replaces the plan; a run over its own plan,  *)
(* or one that takes the session over the ceiling, is over budget.         *)
Reconciled(L, r, n, ok) ==
  LET measured == [L EXCEPT ![r].actual = n,
                            ![r].status = IF n > L[r].planned THEN "over_budget"
                                          ELSE IF ok THEN "completed" ELSE "failed"]
  IN IF Total(measured) > Ceiling
       THEN [measured EXCEPT ![r].status = "over_budget"] ELSE measured

(* Faulty variants: a review without the boundary or the ceiling check.    *)
MayReviewAnyOverrun(L, r) == Overrun(L[r]) /\ Total(L) < Ceiling

MayReviewAboveCeiling(L, r) == Overrun(L[r]) /\ L[r].actual = L[r].planned + 1

MayReview(L, r) ==
  /\ Overrun(L[r])
  /\ L[r].actual = L[r].planned + 1
  /\ Total(L) < Ceiling

Reviewed(L, r) == [L EXCEPT ![r].reviewed = TRUE]

(***************************************************************************)
(* One command                                                             *)
(***************************************************************************)
(* Faulty variant: the file is read without waiting for the lock.          *)
LockWithoutFlock(p) ==
  /\ p \notin flock
  /\ flock' = flock \union {p}
  /\ copy' = [copy EXCEPT ![p] = ledger]
  /\ UNCHANGED <<ledger, pc, id, plan, sent>>

(* locked_ledger: flock(LOCK_EX), then read the file.                      *)
Lock(p) ==
  /\ flock = {}
  /\ flock' = flock \union {p}
  /\ copy' = [copy EXCEPT ![p] = ledger]
  /\ UNCHANGED <<ledger, pc, id, plan, sent>>

Unlock(p) ==
  /\ flock' = flock \ {p}
  /\ copy' = [copy EXCEPT ![p] = NoRows]

(* _write_atomic replaces the file with the rows in memory; then the flock *)
(* is released.                                                            *)
Write(p, L) ==
  /\ p \in flock
  /\ ledger' = L
  /\ Unlock(p)

(* A refused command leaves the file alone.                                *)
Refuse(p) ==
  /\ p \in flock
  /\ Unlock(p)
  /\ UNCHANGED ledger

Step(w, from, to) ==
  /\ pc[w] = from
  /\ pc' = [pc EXCEPT ![w] = to]

(***************************************************************************)
(* run_live_lab_k6.sh                                                      *)
(***************************************************************************)
StartCommand(w) == pc[w] \in {"plan", "complete"} /\ Lock(w)

Reserve(w) ==
  /\ \/ /\ MayReserve(copy[w], id[w], plan[w])
        /\ Step(w, "plan", "run")
        /\ Write(w, Reserved(copy[w], id[w], plan[w]))
     \/ /\ ~MayReserve(copy[w], id[w], plan[w])
        /\ Step(w, "plan", "done")
        /\ Refuse(w)
  /\ UNCHANGED <<id, plan, sent>>

(* k6 sends n requests and leaves a summary, or none; without one the      *)
(* reservation stays active.                                               *)
RunK6(w, n) ==
  /\ \/ Step(w, "run", "complete")
     \/ Step(w, "run", "done")
  /\ n \in 0..(plan[w] + Overshoot)
  /\ sent' = [sent EXCEPT ![id[w]] = @ + n]
  /\ UNCHANGED <<ledger, flock, copy, id, plan>>

Complete(w, ok) ==
  /\ Step(w, "complete", "done")
  /\ \/ /\ copy[w][id[w]].status = "reserved"
        /\ Write(w, Reconciled(copy[w], id[w], sent[id[w]], ok))
     \/ /\ copy[w][id[w]].status # "reserved"
        /\ Refuse(w)
  /\ UNCHANGED <<id, plan, sent>>

(* The wrapper dies, or its command fails before the file is replaced.     *)
Die(w) ==
  /\ pc[w] # "done"
  /\ pc' = [pc EXCEPT ![w] = "done"]
  /\ Unlock(w)
  /\ UNCHANGED <<ledger, id, plan, sent>>

Review(r) ==
  /\ LET L == copy[Reviewer]
     IN \/ MayReview(L, r) /\ Write(Reviewer, Reviewed(L, r))
        \/ ~MayReview(L, r) /\ Refuse(Reviewer)
  /\ UNCHANGED <<pc, id, plan, sent>>

Next ==
  \/ \E w \in Wrappers :
       \/ StartCommand(w) \/ Reserve(w) \/ Die(w)
       \/ \E n \in 0..(plan[w] + Overshoot) : RunK6(w, n)
       \/ \E ok \in BOOLEAN : Complete(w, ok)
  \/ Lock(Reviewer)
  \/ \E r \in RunIds : Review(r)

Spec == Init /\ [][Next]_vars

(***************************************************************************)
(* Properties                                                              *)
(***************************************************************************)
Unreviewed == {r \in Rows(ledger) : Overrun(ledger[r])}

(* A session with no open overrun is within its ceiling, whatever runs     *)
(* overlapped, died without a summary, overshot or were reviewed.          *)
WithinCeiling == Unreviewed = {} => Total(ledger) <= Ceiling

(* No traffic without a row for it, and a measured row holds exactly what  *)
(* was sent under its run_id: reservations are never lost or reused.       *)
TrafficIsAccounted ==
  \A r \in RunIds :
    /\ sent[r] > 0 => ledger[r].status # "none"
    /\ ledger[r].status \in {"completed", "failed", "over_budget"} => ledger[r].actual = sent[r]

(* While an overrun is open no run is admitted, and rows only move forward:*)
(* a review does not erase the failure it reviews.                         *)
RowsMoveForward ==
  [][\A r \in RunIds :
       LET old == ledger[r]  new == ledger'[r]
       IN /\ old.status = "none" /\ new.status # "none" => Unreviewed = {}
          /\ old.status \notin {"none", "reserved"} =>
               new.status = old.status /\ new.actual = old.actual /\ (old.reviewed => new.reviewed)
          /\ old.status = "reserved" => new.status # "none" /\ new.planned = old.planned]_vars
=============================================================================
