------------------------ MODULE RaffleServiceProofs ------------------------
(* Theorems about RaffleService for any sets of requests, draw runs, users  *)
(* and items and any number of faults.                                      *)
EXTENDS RaffleService, TLAPS

(* The rows a session has inserted follow from how far it got.             *)
RowsFollowPc ==
  \A r \in Requests :
    /\ pc[r] = "inserted" => rows[r] = {"entry"}
    /\ pc[r] \in {"evented", "committing", "orphaned"} => rows[r] = {"entry", "event"}
    /\ pc[r] \notin {"inserted", "evented", "committing", "orphaned"} => rows[r] = {}

(* While a request holds its item row, nobody draws the item.              *)
HeldItemUndrawn == \A r \in Requests : pc[r] \in HoldsLock => what[r] \notin drawn

(* The handler knows of the commit only after it happened.                 *)
AckAfterCommit ==
  \A r \in Requests : pc[r] = "committed" \/ reply[r] = "success"
                        => r \in entries /\ r \in events

(* A draw sees committed entries only, and what it wrote to an item row it *)
(* still locks is one of that item's applicants in its snapshot.           *)
PicksFromView ==
  \A d \in DrawRuns :
    /\ view[d] \subseteq entries
    /\ \A i \in Items : lock[i] = d => pick[d][i] \in Applicants(view[d], i) \union {NoOne}

IInv ==
  /\ TypeOK
  /\ LockHasLiveOwner
  /\ RowsFollowPc
  /\ HeldItemUndrawn
  /\ AckAfterCommit
  /\ PicksFromView
  /\ WinnerApplied

LEMMA InitIInv == Init => IInv
  BY ServiceAssumption DEF Init, IInv, TypeOK, LockHasLiveOwner, RowsFollowPc,
     HeldItemUndrawn, AckAfterCommit, PicksFromView, WinnerApplied, HoldsLock, Pc,
     Replies, DrawAlive, DrawPc, Owner, Applicants

(* Ending a session without a commit keeps the invariant.                  *)
LEMMA RollbackStep ==
  ASSUME IInv, NEW r \in Requests, NEW answer \in Replies, Rollback(r, answer),
         answer = "success" => reply[r] = "success",
         faults' \in 0..MaxFaults
  PROVE  IInv'
<1> USE ServiceAssumption DEF IInv, Rollback, Unlocked, itemVars, tableVars, drawVars
<1>1. TypeOK'
  BY DEF TypeOK, Pc, Owner
<1>2. LockHasLiveOwner'
  BY DEF TypeOK, LockHasLiveOwner, HoldsLock, Pc, Owner
<1>3. RowsFollowPc'
  BY DEF TypeOK, RowsFollowPc
<1>4. HeldItemUndrawn'
  BY DEF TypeOK, HeldItemUndrawn, HoldsLock
<1>5. AckAfterCommit'
  BY DEF TypeOK, AckAfterCommit
<1>6. PicksFromView'
  BY DEF TypeOK, PicksFromView, Applicants
<1>7. WinnerApplied'
  BY DEF TypeOK, WinnerApplied, Applicants
<1>8. QED  BY <1>1, <1>2, <1>3, <1>4, <1>5, <1>6, <1>7

(* The user is found.                                                      *)
LEMMA FindUserStep ==
  ASSUME IInv, NEW r \in Requests, FindUser(r)
  PROVE  IInv'
<1> USE ServiceAssumption DEF IInv, FindUser, Advance, itemVars, tableVars, drawVars
<1>1. TypeOK'
  BY DEF TypeOK, Pc, HoldsLock, Owner, Replies
<1>2. LockHasLiveOwner'
  BY DEF TypeOK, LockHasLiveOwner, HoldsLock, Pc, Owner
<1>3. RowsFollowPc'
  BY DEF TypeOK, RowsFollowPc
<1>4. HeldItemUndrawn'
  BY DEF TypeOK, HeldItemUndrawn, HoldsLock
<1>5. AckAfterCommit'
  BY DEF TypeOK, AckAfterCommit
<1>6. PicksFromView'
  BY DEF TypeOK, PicksFromView, Applicants
<1>7. WinnerApplied'
  BY DEF TypeOK, WinnerApplied, Applicants
<1>8. QED  BY <1>1, <1>2, <1>3, <1>4, <1>5, <1>6, <1>7

(* The end time is compared with the clock.                                *)
LEMMA AskItemStep ==
  ASSUME IInv, NEW r \in Requests, AskItem(r)
  PROVE  IInv'
<1> USE ServiceAssumption DEF IInv, AskItem, Advance, itemVars, tableVars, drawVars
<1>1. TypeOK'
  BY DEF TypeOK, Pc, HoldsLock, Owner, Replies
<1>2. LockHasLiveOwner'
  BY DEF TypeOK, LockHasLiveOwner, HoldsLock, Pc, Owner
<1>3. RowsFollowPc'
  BY DEF TypeOK, RowsFollowPc
<1>4. HeldItemUndrawn'
  BY DEF TypeOK, HeldItemUndrawn, HoldsLock
<1>5. AckAfterCommit'
  BY DEF TypeOK, AckAfterCommit
<1>6. PicksFromView'
  BY DEF TypeOK, PicksFromView, Applicants
<1>7. WinnerApplied'
  BY DEF TypeOK, WinnerApplied, Applicants
<1>8. QED  BY <1>1, <1>2, <1>3, <1>4, <1>5, <1>6, <1>7

(* The item row is locked.                                                 *)
LEMMA LockItemStep ==
  ASSUME IInv, NEW r \in Requests, LockItem(r)
  PROVE  IInv'
<1> USE ServiceAssumption DEF IInv, LockItem, Eligible, Advance, itemVars, tableVars, drawVars
<1>1. TypeOK'
  BY DEF TypeOK, Pc, HoldsLock, Owner, Replies
<1>2. LockHasLiveOwner'
  BY DEF TypeOK, LockHasLiveOwner, HoldsLock, Pc, Owner
<1>3. RowsFollowPc'
  BY DEF TypeOK, RowsFollowPc
<1>4. HeldItemUndrawn'
  BY DEF TypeOK, HeldItemUndrawn, HoldsLock
<1>5. AckAfterCommit'
  BY DEF TypeOK, AckAfterCommit
<1>6. PicksFromView'
  BY DEF TypeOK, PicksFromView, Applicants
<1>7. WinnerApplied'
  BY DEF TypeOK, WinnerApplied, Applicants
<1>8. QED  BY <1>1, <1>2, <1>3, <1>4, <1>5, <1>6, <1>7

(* The entry row is inserted.                                              *)
LEMMA InsertEntryStep ==
  ASSUME IInv, NEW r \in Requests, InsertEntry(r)
  PROVE  IInv'
<1> USE ServiceAssumption DEF IInv, InsertEntry, Advance, itemVars, tableVars, drawVars
<1>1. TypeOK'
  BY DEF TypeOK, Pc, HoldsLock, Owner, Replies
<1>2. LockHasLiveOwner'
  BY DEF TypeOK, LockHasLiveOwner, HoldsLock, Pc, Owner
<1>3. RowsFollowPc'
  BY DEF TypeOK, RowsFollowPc
<1>4. HeldItemUndrawn'
  BY DEF TypeOK, HeldItemUndrawn, HoldsLock
<1>5. AckAfterCommit'
  BY DEF TypeOK, AckAfterCommit
<1>6. PicksFromView'
  BY DEF TypeOK, PicksFromView, Applicants
<1>7. WinnerApplied'
  BY DEF TypeOK, WinnerApplied, Applicants
<1>8. QED  BY <1>1, <1>2, <1>3, <1>4, <1>5, <1>6, <1>7

(* The outbox row is inserted.                                             *)
LEMMA InsertEventStep ==
  ASSUME IInv, NEW r \in Requests, InsertEvent(r)
  PROVE  IInv'
<1> USE ServiceAssumption DEF IInv, InsertEvent, Advance, itemVars, tableVars, drawVars
<1>1. TypeOK'
  BY DEF TypeOK, Pc, HoldsLock, Owner, Replies
<1>2. LockHasLiveOwner'
  BY DEF TypeOK, LockHasLiveOwner, HoldsLock, Pc, Owner
<1>3. RowsFollowPc'
  BY DEF TypeOK, RowsFollowPc
<1>4. HeldItemUndrawn'
  BY DEF TypeOK, HeldItemUndrawn, HoldsLock
<1>5. AckAfterCommit'
  BY DEF TypeOK, AckAfterCommit
<1>6. PicksFromView'
  BY DEF TypeOK, PicksFromView, Applicants
<1>7. WinnerApplied'
  BY DEF TypeOK, WinnerApplied, Applicants
<1>8. QED  BY <1>1, <1>2, <1>3, <1>4, <1>5, <1>6, <1>7

(* COMMIT is sent.                                                         *)
LEMMA SendCommitStep ==
  ASSUME IInv, NEW r \in Requests, SendCommit(r)
  PROVE  IInv'
<1> USE ServiceAssumption DEF IInv, SendCommit, Advance, itemVars, tableVars, drawVars
<1>1. TypeOK'
  BY DEF TypeOK, Pc, HoldsLock, Owner, Replies
<1>2. LockHasLiveOwner'
  BY DEF TypeOK, LockHasLiveOwner, HoldsLock, Pc, Owner
<1>3. RowsFollowPc'
  BY DEF TypeOK, RowsFollowPc
<1>4. HeldItemUndrawn'
  BY DEF TypeOK, HeldItemUndrawn, HoldsLock
<1>5. AckAfterCommit'
  BY DEF TypeOK, AckAfterCommit
<1>6. PicksFromView'
  BY DEF TypeOK, PicksFromView, Applicants
<1>7. WinnerApplied'
  BY DEF TypeOK, WinnerApplied, Applicants
<1>8. QED  BY <1>1, <1>2, <1>3, <1>4, <1>5, <1>6, <1>7

(* The server commits a request's rows.                                    *)
LEMMA ServerCommitStep ==
  ASSUME IInv, NEW r \in Requests, ServerCommit(r)
  PROVE  IInv'
<1> USE ServiceAssumption DEF IInv, ServerCommit, Unlocked, Advance, itemVars, tableVars, drawVars
<1>1. TypeOK'
  BY DEF TypeOK, Pc, HoldsLock, Owner, Replies
<1>2. LockHasLiveOwner'
  BY DEF TypeOK, LockHasLiveOwner, HoldsLock, Pc, Owner
<1>3. RowsFollowPc'
  BY DEF TypeOK, RowsFollowPc
<1>4. HeldItemUndrawn'
  BY DEF TypeOK, HeldItemUndrawn, HoldsLock
<1>5. AckAfterCommit'
  BY DEF TypeOK, AckAfterCommit, RowsFollowPc
<1>6. PicksFromView'
  BY DEF TypeOK, PicksFromView, Applicants
<1>7. WinnerApplied'
  BY DEF TypeOK, WinnerApplied, Applicants
<1>8. QED  BY <1>1, <1>2, <1>3, <1>4, <1>5, <1>6, <1>7

(* The client is told of the success.                                      *)
LEMMA RespondStep ==
  ASSUME IInv, NEW r \in Requests, Respond(r)
  PROVE  IInv'
<1> USE ServiceAssumption DEF IInv, Respond, Advance, itemVars, tableVars, drawVars
<1>1. TypeOK'
  BY DEF TypeOK, Pc, HoldsLock, Owner, Replies
<1>2. LockHasLiveOwner'
  BY DEF TypeOK, LockHasLiveOwner, HoldsLock, Pc, Owner
<1>3. RowsFollowPc'
  BY DEF TypeOK, RowsFollowPc
<1>4. HeldItemUndrawn'
  BY DEF TypeOK, HeldItemUndrawn, HoldsLock
<1>5. AckAfterCommit'
  BY DEF TypeOK, AckAfterCommit
<1>6. PicksFromView'
  BY DEF TypeOK, PicksFromView, Applicants
<1>7. WinnerApplied'
  BY DEF TypeOK, WinnerApplied, Applicants
<1>8. QED  BY <1>1, <1>2, <1>3, <1>4, <1>5, <1>6, <1>7

(* A fault ends the handler before the commit, or leaves it to the server. *)
LEMMA InterruptStep ==
  ASSUME IInv, NEW r \in Requests, NEW answer \in {"unavailable", "dropped"},
         Interrupt(r, answer)
  PROVE  IInv'
<1>1. faults' \in 0..MaxFaults
  BY ServiceAssumption DEF Interrupt, IInv, TypeOK
<1>2. CASE Rollback(r, answer)
  BY <1>1, <1>2, RollbackStep DEF Replies
<1>3. CASE ~Rollback(r, answer)
  <2> USE <1>3, ServiceAssumption DEF IInv, Interrupt, Advance, itemVars, tableVars, drawVars
  <2>1. TypeOK'
    <3>1. pc' \in [Requests -> Pc]
      BY DEF TypeOK, Pc, HoldsLock
    <3>2. reply' \in [Requests -> Replies]
      BY DEF TypeOK, Replies
    <3>3. QED  BY <1>1, <3>1, <3>2 DEF TypeOK
  <2>2. LockHasLiveOwner'
    BY DEF TypeOK, LockHasLiveOwner, HoldsLock
  <2>3. RowsFollowPc'
    BY DEF TypeOK, RowsFollowPc
  <2>4. HeldItemUndrawn'
    BY DEF TypeOK, HeldItemUndrawn, HoldsLock
  <2>5. AckAfterCommit'
    BY DEF TypeOK, AckAfterCommit
  <2>6. PicksFromView'
    BY DEF TypeOK, PicksFromView, Applicants
  <2>7. WinnerApplied'
    BY DEF TypeOK, WinnerApplied, Applicants
  <2>8. QED  BY <2>1, <2>2, <2>3, <2>4, <2>5, <2>6, <2>7
<1>4. QED  BY <1>2, <1>3

(* A draw takes its snapshot.                                              *)
LEMMA StartDrawStep ==
  ASSUME IInv, NEW d \in DrawRuns, StartDraw(d)
  PROVE  IInv'
<1> USE ServiceAssumption DEF IInv, StartDraw, itemVars, tableVars, requestVars, drawVars
<1>1. TypeOK'
  BY DEF TypeOK, Owner, DrawPc, DrawAlive
<1>2. LockHasLiveOwner'
  BY DEF TypeOK, LockHasLiveOwner, HoldsLock, Owner, Pc
<1>3. RowsFollowPc'
  BY DEF TypeOK, RowsFollowPc
<1>4. HeldItemUndrawn'
  BY DEF TypeOK, HeldItemUndrawn, HoldsLock
<1>5. AckAfterCommit'
  BY DEF TypeOK, AckAfterCommit
<1>6. PicksFromView'
  BY DEF TypeOK, PicksFromView, LockHasLiveOwner, Applicants
<1>7. WinnerApplied'
  BY DEF TypeOK, WinnerApplied, Applicants
<1>8. QED  BY <1>1, <1>2, <1>3, <1>4, <1>5, <1>6, <1>7

(* A draw chooses a winner and locks the item.                             *)
LEMMA DrawItemStep ==
  ASSUME IInv, NEW d \in DrawRuns, NEW i \in Items, DrawItem(d, i)
  PROVE  IInv'
<1> USE ServiceAssumption DEF IInv, itemVars, tableVars, requestVars, drawVars
<1>1. PICK w \in Applicants(view[d], i) \union {NoOne} :
        pick' = [pick EXCEPT ![d] = [pick[d] EXCEPT ![i] = w]]
  BY DEF DrawItem, Applicants, TypeOK
<1>2. w \in Users \union {NoOne}
  BY <1>1 DEF TypeOK, Applicants
<1>3. pick' \in [DrawRuns -> [Items -> Users \union {NoOne}]]
  BY <1>1, <1>2 DEF TypeOK
<1>4. TypeOK'
  BY <1>3 DEF DrawItem, TypeOK, Owner
<1>5. LockHasLiveOwner'
  BY DEF DrawItem, TypeOK, LockHasLiveOwner, HoldsLock, Owner
<1>6. RowsFollowPc'
  BY DEF DrawItem, RowsFollowPc
<1>7. HeldItemUndrawn'
  BY DEF DrawItem, HeldItemUndrawn
<1>8. AckAfterCommit'
  BY DEF DrawItem, AckAfterCommit
<1>9. PicksFromView'
  <2> SUFFICES ASSUME NEW e \in DrawRuns, NEW j \in Items, lock'[j] = e
               PROVE  pick'[e][j] \in Applicants(view[e], j) \union {NoOne}
    BY DEF DrawItem, PicksFromView, Applicants
  <2>1. CASE j = i
    <3>1. e = d
      BY <2>1 DEF DrawItem, TypeOK
    <3>2. QED  BY <1>1, <2>1, <3>1 DEF TypeOK
  <2>2. CASE j # i
    <3>1. lock[j] = e /\ pick'[e][j] = pick[e][j]
      BY <1>1, <2>2 DEF DrawItem, TypeOK
    <3>2. QED  BY <3>1 DEF PicksFromView
  <2>3. QED  BY <2>1, <2>2
<1>10. WinnerApplied'
  BY DEF DrawItem, WinnerApplied, Applicants
<1>11. QED  BY <1>4, <1>5, <1>6, <1>7, <1>8, <1>9, <1>10

(* A draw sends its commit.                                                *)
LEMMA SendDrawCommitStep ==
  ASSUME IInv, NEW d \in DrawRuns, SendDrawCommit(d)
  PROVE  IInv'
<1> USE ServiceAssumption DEF IInv, SendDrawCommit, itemVars, tableVars, requestVars, drawVars
<1>1. TypeOK'
  BY DEF TypeOK, Owner, DrawPc, DrawAlive
<1>2. LockHasLiveOwner'
  BY DEF TypeOK, LockHasLiveOwner, HoldsLock, Owner, Pc
<1>3. RowsFollowPc'
  BY DEF TypeOK, RowsFollowPc
<1>4. HeldItemUndrawn'
  BY DEF TypeOK, HeldItemUndrawn, HoldsLock
<1>5. AckAfterCommit'
  BY DEF TypeOK, AckAfterCommit
<1>6. PicksFromView'
  BY DEF TypeOK, PicksFromView, LockHasLiveOwner, Applicants
<1>7. WinnerApplied'
  BY DEF TypeOK, WinnerApplied, Applicants
<1>8. QED  BY <1>1, <1>2, <1>3, <1>4, <1>5, <1>6, <1>7

(* The server commits a draw.                                              *)
LEMMA CommitDrawStep ==
  ASSUME IInv, NEW d \in DrawRuns, CommitDraw(d)
  PROVE  IInv'
<1> USE ServiceAssumption DEF IInv, Unlocked, itemVars, tableVars, requestVars, drawVars
<1>1. /\ dpc' \in [DrawRuns -> DrawPc]
      /\ view' = [view EXCEPT ![d] = {}]
      /\ todo' = [todo EXCEPT ![d] = {}]
      /\ pick' = [pick EXCEPT ![d] = [i \in Items |-> NoOne]]
      /\ \A e \in DrawRuns \ {d} : dpc'[e] = dpc[e]
  BY DEF CommitDraw, ForgetDraw, TypeOK, DrawPc, DrawAlive
<1>2. winner' \in [Items -> Users \union {NoOne}]
  BY DEF CommitDraw, TypeOK
<1>3. TypeOK'
  BY <1>1, <1>2 DEF CommitDraw, TypeOK, Owner
<1>4. LockHasLiveOwner'
  BY <1>1 DEF CommitDraw, TypeOK, LockHasLiveOwner, HoldsLock, Owner
<1>5. RowsFollowPc'
  BY DEF CommitDraw, RowsFollowPc
<1>6. HeldItemUndrawn'
  BY DEF CommitDraw, TypeOK, HeldItemUndrawn, LockHasLiveOwner
<1>7. AckAfterCommit'
  BY DEF CommitDraw, AckAfterCommit
<1>8. PicksFromView'
  BY <1>1 DEF CommitDraw, TypeOK, PicksFromView, Applicants
<1>9. WinnerApplied'
  BY DEF CommitDraw, TypeOK, WinnerApplied, PicksFromView, Applicants
<1>10. QED  BY <1>3, <1>4, <1>5, <1>6, <1>7, <1>8, <1>9

(* The server drops an orphaned draw.                                      *)
LEMMA AbortDrawStep ==
  ASSUME IInv, NEW d \in DrawRuns, AbortDraw(d)
  PROVE  IInv'
<1> USE ServiceAssumption DEF IInv, AbortDraw, ForgetDraw, Unlocked, itemVars, tableVars, requestVars, drawVars
<1>1. TypeOK'
  BY DEF TypeOK, Owner, DrawPc, DrawAlive
<1>2. LockHasLiveOwner'
  BY DEF TypeOK, LockHasLiveOwner, HoldsLock, Owner, Pc
<1>3. RowsFollowPc'
  BY DEF TypeOK, RowsFollowPc
<1>4. HeldItemUndrawn'
  BY DEF TypeOK, HeldItemUndrawn, HoldsLock
<1>5. AckAfterCommit'
  BY DEF TypeOK, AckAfterCommit
<1>6. PicksFromView'
  BY DEF TypeOK, PicksFromView, LockHasLiveOwner, Applicants
<1>7. WinnerApplied'
  BY DEF TypeOK, WinnerApplied, Applicants
<1>8. QED  BY <1>1, <1>2, <1>3, <1>4, <1>5, <1>6, <1>7

(* A draw ends.                                                            *)
LEMMA EndDrawStep ==
  ASSUME IInv, NEW d \in DrawRuns, EndDraw(d)
  PROVE  IInv'
<1> USE ServiceAssumption DEF IInv, EndDraw, ForgetDraw, itemVars, tableVars, requestVars, drawVars
<1>1. TypeOK'
  BY DEF TypeOK, Owner, DrawPc, DrawAlive
<1>2. LockHasLiveOwner'
  BY DEF TypeOK, LockHasLiveOwner, HoldsLock, Owner, Pc
<1>3. RowsFollowPc'
  BY DEF TypeOK, RowsFollowPc
<1>4. HeldItemUndrawn'
  BY DEF TypeOK, HeldItemUndrawn, HoldsLock
<1>5. AckAfterCommit'
  BY DEF TypeOK, AckAfterCommit
<1>6. PicksFromView'
  BY DEF TypeOK, PicksFromView, LockHasLiveOwner, Applicants
<1>7. WinnerApplied'
  BY DEF TypeOK, WinnerApplied, Applicants
<1>8. QED  BY <1>1, <1>2, <1>3, <1>4, <1>5, <1>6, <1>7

(* A fault ends a draw, or leaves its commit to the server.                *)
LEMMA InterruptDrawStep ==
  ASSUME IInv, NEW d \in DrawRuns, InterruptDraw(d)
  PROVE  IInv'
<1> USE ServiceAssumption DEF IInv, Unlocked, itemVars, tableVars, requestVars, drawVars
<1>1. /\ dpc' \in [DrawRuns -> DrawPc]
      /\ \A e \in DrawRuns \ {d} : dpc'[e] = dpc[e]
  BY DEF InterruptDraw, ForgetDraw, TypeOK, DrawPc, DrawAlive
<1>2. \/ UNCHANGED <<view, todo, pick>>
      \/ /\ view' = [view EXCEPT ![d] = {}]
         /\ todo' = [todo EXCEPT ![d] = {}]
         /\ pick' = [pick EXCEPT ![d] = [i \in Items |-> NoOne]]
         /\ \A i \in Items : lock'[i] # d
  <2>1. CASE dpc[d] = "drawing" /\ ForgetDraw(d, "idle") /\ lock' = Unlocked(d)
    <3>1. \A i \in Items : lock'[i] # d
      BY <2>1
    <3>2. QED  BY <2>1, <3>1 DEF ForgetDraw
  <2>2. CASE dpc[d] = "committing" /\ UNCHANGED <<lock, view, todo, pick>>
    BY <2>2
  <2>3. CASE dpc[d] = "committed" /\ ForgetDraw(d, "idle") /\ UNCHANGED lock
    <3>1. \A i \in Items : lock'[i] # d
      BY <2>3 DEF LockHasLiveOwner
    <3>2. QED  BY <2>3, <3>1 DEF ForgetDraw
  <2>4. QED  BY <2>1, <2>2, <2>3 DEF InterruptDraw
<1>3. lock' = lock \/ lock' = [i \in Items |-> IF lock[i] = d THEN NoOne ELSE lock[i]]
  BY DEF InterruptDraw
<1>4. TypeOK'
  <2>1. /\ view' \in [DrawRuns -> SUBSET Requests]
        /\ todo' \in [DrawRuns -> SUBSET Items]
        /\ pick' \in [DrawRuns -> [Items -> Users \union {NoOne}]]
    <3>1. [i \in Items |-> NoOne] \in [Items -> Users \union {NoOne}]
      OBVIOUS
    <3>2. CASE UNCHANGED <<view, todo, pick>>
      BY <3>2 DEF TypeOK
    <3>3. CASE /\ view' = [view EXCEPT ![d] = {}]
               /\ todo' = [todo EXCEPT ![d] = {}]
               /\ pick' = [pick EXCEPT ![d] = [i \in Items |-> NoOne]]
      BY <3>1, <3>3 DEF TypeOK
    <3>4. QED  BY <1>2, <3>2, <3>3
  <2>2. lock' \in [Items -> Owner]
    BY <1>3 DEF TypeOK, Owner
  <2>3. faults' \in 0..MaxFaults
    BY DEF InterruptDraw, TypeOK
  <2>4. QED  BY <1>1, <2>1, <2>2, <2>3 DEF InterruptDraw, TypeOK
<1>5. LockHasLiveOwner'
  <2>1. CASE dpc[d] = "drawing" /\ ForgetDraw(d, "idle") /\ lock' = Unlocked(d)
    BY <1>1, <2>1 DEF InterruptDraw, TypeOK, LockHasLiveOwner, HoldsLock, Owner
  <2>2. CASE dpc[d] = "committing" /\ dpc' = [dpc EXCEPT ![d] = "orphaned"] /\ UNCHANGED lock
    BY <1>1, <2>2 DEF InterruptDraw, TypeOK, LockHasLiveOwner
  <2>3. CASE dpc[d] = "committed" /\ ForgetDraw(d, "idle") /\ UNCHANGED lock
    BY <1>1, <2>3 DEF InterruptDraw, TypeOK, LockHasLiveOwner
  <2>4. QED  BY <2>1, <2>2, <2>3 DEF InterruptDraw
<1>6. RowsFollowPc'
  BY DEF InterruptDraw, RowsFollowPc
<1>7. HeldItemUndrawn'
  BY DEF InterruptDraw, HeldItemUndrawn
<1>8. AckAfterCommit'
  BY DEF InterruptDraw, AckAfterCommit
<1>9. PicksFromView'
  <2>1. /\ \A e \in DrawRuns \ {d} : view'[e] = view[e] /\ pick'[e] = pick[e]
        /\ \A i \in Items : lock'[i] \in DrawRuns => lock'[i] = lock[i]
    BY <1>2, <1>3 DEF TypeOK
  <2>2. UNCHANGED <<entries, who, what>>
    BY DEF InterruptDraw
  <2>3. \A e \in DrawRuns \ {d} :
          /\ view'[e] \subseteq entries'
          /\ \A i \in Items : lock'[i] = e =>
               pick'[e][i] \in Applicants(view[e], i)' \union {NoOne}
    BY <2>1, <2>2 DEF PicksFromView, Applicants
  <2>4. /\ view'[d] \subseteq entries'
        /\ \A i \in Items : lock'[i] = d =>
             pick'[d][i] \in Applicants(view[d], i)' \union {NoOne}
    BY <1>2, <2>1, <2>2 DEF PicksFromView, Applicants, TypeOK
  <2>5. QED  BY <2>3, <2>4 DEF PicksFromView
<1>10. WinnerApplied'
  BY DEF InterruptDraw, WinnerApplied, Applicants
<1>11. QED  BY <1>4, <1>5, <1>6, <1>7, <1>8, <1>9, <1>10

(* Time passes.                                                            *)
LEMMA CloseStep ==
  ASSUME IInv, NEW i \in Items, Close(i)
  PROVE  IInv'
  BY DEF IInv, Close, TypeOK, LockHasLiveOwner, RowsFollowPc, HeldItemUndrawn,
     AckAfterCommit, PicksFromView, WinnerApplied, Applicants, tableVars, requestVars, drawVars

(* Every step of the service keeps the invariant.                          *)
LEMMA NextIInv == IInv /\ [Next]_vars => IInv'
<1> SUFFICES ASSUME IInv, [Next]_vars PROVE IInv'
  OBVIOUS
<1>1. ASSUME NEW i \in Items, Close(i) PROVE IInv'
  BY <1>1, CloseStep
<1>2. ASSUME NEW r \in Requests, Handle(r) PROVE IInv'
  <2>1. faults' = faults /\ faults \in 0..MaxFaults
    BY <1>2 DEF Handle, FindUser, RejectUser, AskItem, LockItem, RejectItem, InsertEntry,
       RejectDuplicate, InsertEvent, DrillReject, SendCommit, Respond, IInv, TypeOK
  <2>2. ASSUME NEW answer \in Replies \ {"success"}, Rollback(r, answer) PROVE IInv'
    BY <2>1, <2>2, RollbackStep
  <2>3. CASE RejectUser(r) \/ RejectItem(r) \/ RejectDuplicate(r) \/ DrillReject(r)
    BY <2>2, <2>3 DEF RejectUser, RejectItem, RejectDuplicate, DrillReject, Replies
  <2>4. QED
    BY <1>2, <2>3, FindUserStep, AskItemStep, LockItemStep, InsertEntryStep,
       InsertEventStep, SendCommitStep, RespondStep DEF Handle
<1>3. ASSUME NEW r \in Requests, Server(r) PROVE IInv'
  <2>1. CASE ServerCommit(r)
    BY <2>1, ServerCommitStep
  <2>2. CASE ServerAbort(r)
    <3>1. reply[r] \in Replies /\ faults' \in 0..MaxFaults /\ Rollback(r, reply[r])
      BY <2>2 DEF ServerAbort, IInv, TypeOK
    <3>2. QED  BY <3>1, RollbackStep
  <2>3. QED  BY <1>3, <2>1, <2>2 DEF Server
<1>4. ASSUME NEW d \in DrawRuns, Work(d) PROVE IInv'
  BY <1>4, StartDrawStep, SendDrawCommitStep, EndDrawStep, DrawItemStep DEF Work
<1>5. ASSUME NEW d \in DrawRuns, DrawServer(d) PROVE IInv'
  BY <1>5, CommitDrawStep, AbortDrawStep DEF DrawServer
<1>6. CASE UNCHANGED vars
  BY <1>6 DEF vars, itemVars, tableVars, requestVars, drawVars, IInv, TypeOK,
     LockHasLiveOwner, RowsFollowPc, HeldItemUndrawn, AckAfterCommit, PicksFromView,
     WinnerApplied, Applicants
<1>7. QED
  BY <1>1, <1>2, <1>3, <1>4, <1>5, <1>6, InterruptStep, InterruptDrawStep DEF Next

(***************************************************************************)
(* Theorems                                                                *)
(***************************************************************************)
THEOREM InductiveInvariant == Spec => []IInv
  BY InitIInv, NextIInv, PTL DEF Spec

(* Every variable keeps its type.                                          *)
THEOREM TypeCorrect == Spec => []TypeOK
<1>1. IInv => TypeOK
  BY DEF IInv
<1>2. QED  BY <1>1, InductiveInvariant, PTL

(* A client told "success" has a committed entry and a committed event:    *)
(* api_apply answers after the commit and nothing removes the rows.        *)
THEOREM SuccessDurable == Spec => []SuccessIsDurable
<1>1. IInv => SuccessIsDurable
  BY DEF IInv, AckAfterCommit, SuccessIsDurable
<1>2. QED  BY <1>1, InductiveInvariant, PTL

(* A recorded winner has an accepted application for the item.             *)
THEOREM WinnersApplied == Spec => []WinnerApplied
<1>1. IInv => WinnerApplied
  BY DEF IInv
<1>2. QED  BY <1>1, InductiveInvariant, PTL

(* An item row is locked exactly by sessions that still have to end.       *)
THEOREM LocksLive == Spec => []LockHasLiveOwner
<1>1. IInv => LockHasLiveOwner
  BY DEF IInv
<1>2. QED  BY <1>1, InductiveInvariant, PTL

(* Entries and outbox events are committed together.                       *)
Parity == entries = events

(* Only ServerCommit writes the tables.                                    *)
LEMMA TablesChangeByCommit ==
  ASSUME [Next]_vars
  PROVE  UNCHANGED tableVars \/ \E r \in Requests : ServerCommit(r)
<1>1. ASSUME NEW r \in Requests, Handle(r) PROVE UNCHANGED tableVars
  BY <1>1 DEF Handle, FindUser, RejectUser, AskItem, LockItem, RejectItem, InsertEntry,
     RejectDuplicate, InsertEvent, DrillReject, SendCommit, Respond, Rollback, tableVars
<1>2. ASSUME NEW r \in Requests, NEW answer, Interrupt(r, answer) \/ ServerAbort(r)
      PROVE  UNCHANGED tableVars
  BY <1>2 DEF Interrupt, ServerAbort, Rollback, tableVars
<1>3. ASSUME NEW d \in DrawRuns, Work(d) \/ DrawServer(d) \/ InterruptDraw(d)
      PROVE  UNCHANGED tableVars
  BY <1>3 DEF Work, DrawServer, StartDraw, DrawItem, SendDrawCommit, EndDraw, CommitDraw,
     AbortDraw, InterruptDraw, tableVars
<1>4. ASSUME NEW i \in Items, Close(i) PROVE UNCHANGED tableVars
  BY <1>4 DEF Close, tableVars
<1>5. QED
  BY <1>1, <1>2, <1>3, <1>4 DEF Next, Server, vars, tableVars

(* No application is accepted for an item that has been drawn, whatever    *)
(* the interleaving of handlers, draws and faults.                         *)
THEOREM NoLateEntry == Spec => NoEntryAfterDraw
<1>1. ASSUME IInv, [Next]_vars
      PROVE  [\A r \in entries' \ entries : what[r] \notin drawn]_vars
  <2>1. CASE UNCHANGED tableVars
    BY <2>1 DEF tableVars
  <2>2. ASSUME NEW r \in Requests, ServerCommit(r)
        PROVE  \A s \in entries' \ entries : what[s] \notin drawn
    BY <1>1, <2>2 DEF ServerCommit, Advance, IInv, HeldItemUndrawn, HoldsLock
  <2>3. QED  BY <1>1, <2>1, <2>2, TablesChangeByCommit
<1>2. QED  BY <1>1, InductiveInvariant, PTL DEF Spec, NoEntryAfterDraw

(* Every committed entry has its event, and every event its entry.         *)
THEOREM OutboxParity == Spec => []Parity
<1>1. Init => Parity
  BY DEF Init, Parity
<1>2. ASSUME IInv, Parity, [Next]_vars PROVE Parity'
  <2>1. CASE UNCHANGED tableVars
    BY <1>2, <2>1 DEF tableVars, Parity
  <2>2. ASSUME NEW r \in Requests, ServerCommit(r) PROVE Parity'
    BY <1>2, <2>2 DEF ServerCommit, Advance, IInv, RowsFollowPc, Parity
  <2>3. QED  BY <1>2, <2>1, <2>2, TablesChangeByCommit
<1>3. QED  BY <1>1, <1>2, InductiveInvariant, PTL DEF Spec

(***************************************************************************)
(* RaffleService implements RafflePromise                                  *)
(***************************************************************************)
(* The key of an uncommitted entry is not the key of a committed one.      *)
PendingKeyFree ==
  \A r \in Requests, s \in entries : "entry" \in rows[r] => ~SameEntry(r, s)

LEMMA PendingKeyFreeStep ==
  ASSUME IInv, PendingKeyFree, [Next]_vars
  PROVE  PendingKeyFree'
<1> USE DEF PendingKeyFree, SameEntry
<1>1. UNCHANGED <<who, what>>
  BY DEF Next, Close, Handle, Server, Work, DrawServer, FindUser, RejectUser, AskItem,
     LockItem, RejectItem, InsertEntry, RejectDuplicate, InsertEvent, DrillReject,
     SendCommit, Respond, Rollback, ServerCommit, ServerAbort, Interrupt, StartDraw,
     DrawItem, SendDrawCommit, EndDraw, CommitDraw, AbortDraw, InterruptDraw, vars,
     requestVars
<1>2. ASSUME NEW r \in Requests, InsertEntry(r) PROVE PendingKeyFree'
  BY <1>1, <1>2 DEF InsertEntry, Duplicate, tableVars, IInv, TypeOK
<1>3. ASSUME NEW r \in Requests, InsertEvent(r) PROVE PendingKeyFree'
  <2>1. "entry" \in rows[r]
    BY <1>3 DEF InsertEvent, Advance, IInv, RowsFollowPc
  <2>2. QED  BY <1>1, <1>3, <2>1 DEF InsertEvent, tableVars, IInv, TypeOK
<1>4. ASSUME NEW r \in Requests, NEW answer, Rollback(r, answer) PROVE PendingKeyFree'
  BY <1>1, <1>4 DEF Rollback, tableVars, IInv, TypeOK
<1>5. ASSUME NEW r \in Requests, ServerCommit(r) PROVE PendingKeyFree'
  <2>1. /\ entries' = entries \union {r}
        /\ rows' = [rows EXCEPT ![r] = {}]
        /\ lock[what[r]] = r
    BY <1>5 DEF ServerCommit, Advance, IInv, RowsFollowPc, LockHasLiveOwner, TypeOK, HoldsLock
  <2>2. ASSUME NEW q \in Requests \ {r}, "entry" \in rows[q] PROVE lock[what[q]] = q
    BY <2>2 DEF IInv, RowsFollowPc, LockHasLiveOwner, TypeOK, HoldsLock
  <2>3. QED  BY <1>1, <2>1, <2>2 DEF IInv, TypeOK
<1>6. CASE UNCHANGED <<rows, entries>>
  BY <1>1, <1>6
<1>7. ASSUME NEW r \in Requests, Handle(r) PROVE PendingKeyFree'
  BY <1>2, <1>3, <1>4, <1>6, <1>7 DEF Handle, FindUser, RejectUser, AskItem, LockItem,
     RejectItem, RejectDuplicate, DrillReject, SendCommit, Respond, tableVars
<1>8. ASSUME NEW r \in Requests, NEW answer, Interrupt(r, answer) PROVE PendingKeyFree'
  BY <1>4, <1>6, <1>8 DEF Interrupt, tableVars
<1>9. ASSUME NEW d \in DrawRuns, Work(d) \/ DrawServer(d) \/ InterruptDraw(d)
      PROVE  PendingKeyFree'
  BY <1>6, <1>9 DEF Work, DrawServer, StartDraw, DrawItem, SendDrawCommit, EndDraw,
     CommitDraw, AbortDraw, InterruptDraw, tableVars, requestVars
<1>10. ASSUME NEW r \in Requests, ServerAbort(r) PROVE PendingKeyFree'
  BY <1>4, <1>10 DEF ServerAbort
<1>11. ASSUME NEW i \in Items, Close(i) PROVE PendingKeyFree'
  BY <1>6, <1>11 DEF Close, tableVars, requestVars
<1>12. CASE UNCHANGED vars
  BY <1>6, <1>12 DEF vars, tableVars, requestVars
<1>13. QED
  BY <1>5, <1>7, <1>8, <1>9, <1>10, <1>11, <1>12 DEF Next, Server

(* A commit of a request is one Accept of the promise.                     *)
LEMMA CommitIsAccept ==
  ASSUME IInv, Parity, PendingKeyFree, NEW r \in Requests, ServerCommit(r)
  PROVE  Promise!Accept(who[r], what[r])
<1>1. /\ entries' = entries \union {r} /\ events' = events \union {r}
      /\ what[r] \notin drawn
      /\ "entry" \in rows[r]
  BY DEF ServerCommit, Advance, IInv, RowsFollowPc, HeldItemUndrawn, HoldsLock
<1>2. UNCHANGED <<who, what, drawn, winner>>
  BY DEF ServerCommit, itemVars
<1>3. \A s \in entries : <<who[s], what[s]>> # <<who[r], what[r]>>
  BY <1>1 DEF PendingKeyFree, SameEntry
<1>4. QED  BY <1>1, <1>2, <1>3 DEF Promise!Accept

(* A commit of a draw is one Settle of the promise.                        *)
LEMMA CommitIsSettle ==
  ASSUME IInv, NEW d \in DrawRuns, CommitDraw(d)
  PROVE  Promise!Settle({i \in Items : lock[i] = d})
<1>1. UNCHANGED <<entries, events, who, what>>
  BY DEF CommitDraw, tableVars, requestVars
<1>2. winner' \in [Items -> Users \union {NoOne}]
  BY DEF CommitDraw, IInv, TypeOK
<1>3. ASSUME NEW i \in Items, winner'[i] # winner[i]
      PROVE  lock[i] = d /\ \E r \in entries : <<winner'[i], i>> = <<who[r], what[r]>>
  <2>1. lock[i] = d /\ winner'[i] = pick[d][i] /\ pick[d][i] # NoOne
    BY <1>3 DEF CommitDraw, IInv, TypeOK
  <2>2. pick[d][i] \in Applicants(view[d], i) /\ view[d] \subseteq entries
    BY <2>1 DEF IInv, PicksFromView
  <2>3. QED  BY <2>1, <2>2 DEF Applicants
<1>4. QED  BY <1>1, <1>2, <1>3 DEF Promise!Settle, CommitDraw

(* Every step of the handlers, the draws and the database is a step of the *)
(* promise or leaves what it speaks of unchanged.                          *)
LEMMA StepRefines ==
  ASSUME IInv, Parity, PendingKeyFree, [Next]_vars
  PROVE  [Promise!Next]_(Promise!vars)
<1> DEFINE Seen == <<entries, events, who, what, drawn, winner>>
<1>1. ASSUME NEW r \in Requests, ServerCommit(r) PROVE Promise!Next
  <2>1. who[r] \in Users /\ what[r] \in Items
    BY DEF IInv, TypeOK
  <2>2. Promise!Accept(who[r], what[r])
    BY <1>1, CommitIsAccept
  <2>3. QED  BY <2>1, <2>2 DEF Promise!Next, Promise!Accept
<1>2. ASSUME NEW d \in DrawRuns, CommitDraw(d) PROVE Promise!Next
  BY <1>2, CommitIsSettle DEF Promise!Next
<1>3. CASE UNCHANGED Seen
  BY <1>3 DEF Promise!vars
<1>4. ASSUME NEW r \in Requests, Handle(r) PROVE UNCHANGED Seen
  BY <1>4 DEF Handle, FindUser, RejectUser, AskItem, LockItem, RejectItem, InsertEntry,
     RejectDuplicate, InsertEvent, DrillReject, SendCommit, Respond, Rollback, tableVars,
     itemVars
<1>5. ASSUME NEW r \in Requests, NEW answer, Interrupt(r, answer) \/ ServerAbort(r)
      PROVE  UNCHANGED Seen
  BY <1>5 DEF Interrupt, ServerAbort, Rollback, tableVars, itemVars
<1>6. ASSUME NEW d \in DrawRuns, Work(d) \/ AbortDraw(d) \/ InterruptDraw(d)
      PROVE  UNCHANGED Seen
  BY <1>6 DEF Work, StartDraw, DrawItem, SendDrawCommit, EndDraw, AbortDraw, InterruptDraw,
     tableVars, itemVars, requestVars
<1>7. ASSUME NEW i \in Items, Close(i) PROVE UNCHANGED Seen
  BY <1>7 DEF Close, tableVars, requestVars
<1>8. CASE UNCHANGED vars
  BY <1>3, <1>8 DEF vars, tableVars, itemVars, requestVars
<1>9. UNCHANGED vars \/ UNCHANGED Seen \/ Promise!Next
  BY <1>1, <1>2, <1>4, <1>5, <1>6, <1>7 DEF Next, Server, DrawServer
<1>10. QED  BY <1>3, <1>8, <1>9

(* The transactions implement the promise: acceptance is atomic with its   *)
(* event, happens once per user and item and not after the draw, and       *)
(* winners come from the accepted applications.                            *)
THEOREM Refinement == Spec => KeepsPromise
<1>1. Init => PendingKeyFree /\ Promise!Init
  BY DEF Init, PendingKeyFree, Promise!Init
<1>2. IInv /\ PendingKeyFree /\ [Next]_vars => PendingKeyFree'
  BY PendingKeyFreeStep
<1>3. IInv /\ Parity /\ PendingKeyFree /\ [Next]_vars => [Promise!Next]_(Promise!vars)
  BY StepRefines
<1>4. QED
  BY <1>1, <1>2, <1>3, InductiveInvariant, OutboxParity, PTL DEF Spec, KeepsPromise, Promise!Spec
=============================================================================
