--------------------------- MODULE RaffleService ---------------------------
(***************************************************************************)
(* The application endpoint (api_apply in app/app.py) and the draw worker  *)
(* (app/draw_winner.py) on the writer database.  One handler call is one   *)
(* member of Requests; its row in raffle_entries and its event in          *)
(* raffle_outbox_events are named by the request that inserts them.        *)
(*                                                                         *)
(* The database is InnoDB as the code uses it: autocommit off, REPEATABLE  *)
(* READ, FOR UPDATE and UPDATE lock the item row until the transaction     *)
(* ends and read the latest committed row, a plain SELECT reads the        *)
(* snapshot of the transaction's first read, UTC_TIMESTAMP() and NOW() are *)
(* the time the statement started (server time zone UTC).  The client of   *)
(* an interrupted COMMIT does not learn its outcome.                       *)
(***************************************************************************)
EXTENDS Naturals

CONSTANTS
  Requests,      \* calls of POST /api/apply
  DrawRuns,      \* containers that run draw_winner.py
  Users,         \* user names a session cookie may hold
  Registered,    \* those with a row in users
  Items,         \* rows of raffle_items
  FailureDrill,  \* requests served with the validation-only outbox failure on
  MaxFaults,     \* bound: errors, timeouts and crashes in a behaviour
  NoOne

ASSUME ServiceAssumption ==
  /\ Registered \subseteq Users
  /\ FailureDrill \subseteq Requests
  /\ MaxFaults \in Nat
  /\ NoOne \notin Users \union Requests \union DrawRuns
  /\ Requests \intersect DrawRuns = {}

VARIABLES
  closed,   \* items whose end_time has passed
  drawn,    \* items with is_drawn = TRUE
  winner,   \* winner_id of every item
  entries,  \* committed rows of raffle_entries
  events,   \* committed rows of raffle_outbox_events
  lock,     \* owner of the lock on every item row
  who,      \* session user of every request
  what,     \* item_id of every request
  pc,       \* progress of every request and of its server session
  openAt,   \* the end_time comparison, made when the statement started
  rows,     \* uncommitted rows of every request: "entry", "event"
  reply,    \* what the client was told
  dpc,      \* progress of every draw run and of its server session
  view,     \* entries visible in the snapshot of a draw run
  todo,     \* items_to_draw not yet visited
  pick,     \* winner chosen for every item by a draw run
  faults    \* faults so far

itemVars == <<closed, drawn, winner>>
tableVars == <<entries, events>>
requestVars == <<who, what, pc, openAt, rows, reply>>
drawVars == <<dpc, view, todo, pick>>
vars == <<itemVars, tableVars, lock, requestVars, drawVars, faults>>

Owner == Requests \union DrawRuns \union {NoOne}

(* A request between the first and the last step of its transaction that   *)
(* owns the row lock of its item.                                          *)
HoldsLock == {"locked", "inserted", "evented", "committing", "orphaned"}
Pc == HoldsLock \union {"new", "begun", "waiting", "committed", "over"}
Replies == {"none", "success", "duplicate", "item_not_open", "login_required",
            "unavailable", "dropped"}
DrawAlive == {"drawing", "committing", "committed"}
DrawPc == DrawAlive \union {"idle", "orphaned"}

Applicants(S, i) == {who[r] : r \in {s \in S : what[s] = i}}

TypeOK ==
  /\ closed \subseteq Items /\ drawn \subseteq Items
  /\ winner \in [Items -> Users \union {NoOne}]
  /\ entries \subseteq Requests /\ events \subseteq Requests
  /\ lock \in [Items -> Owner]
  /\ who \in [Requests -> Users] /\ what \in [Requests -> Items]
  /\ pc \in [Requests -> Pc]
  /\ openAt \in [Requests -> BOOLEAN]
  /\ rows \in [Requests -> SUBSET {"entry", "event"}]
  /\ reply \in [Requests -> Replies]
  /\ dpc \in [DrawRuns -> DrawPc]
  /\ view \in [DrawRuns -> SUBSET Requests]
  /\ todo \in [DrawRuns -> SUBSET Items]
  /\ pick \in [DrawRuns -> [Items -> Users \union {NoOne}]]
  /\ faults \in 0..MaxFaults

Init ==
  /\ closed = {} /\ drawn = {}
  /\ winner = [i \in Items |-> NoOne]
  /\ entries = {} /\ events = {}
  /\ lock = [i \in Items |-> NoOne]
  /\ who \in [Requests -> Users] /\ what \in [Requests -> Items]
  /\ pc = [r \in Requests |-> "new"]
  /\ openAt = [r \in Requests |-> FALSE]
  /\ rows = [r \in Requests |-> {}]
  /\ reply = [r \in Requests |-> "none"]
  /\ dpc = [d \in DrawRuns |-> "idle"]
  /\ view = [d \in DrawRuns |-> {}]
  /\ todo = [d \in DrawRuns |-> {}]
  /\ pick = [d \in DrawRuns |-> [i \in Items |-> NoOne]]
  /\ faults = 0

(* The end of the raffle for item i passes on the database clock.          *)
Close(i) ==
  /\ i \notin closed
  /\ closed' = closed \union {i}
  /\ UNCHANGED <<drawn, winner, tableVars, lock, requestVars, drawVars, faults>>

(***************************************************************************)
(* POST /api/apply                                                         *)
(***************************************************************************)
Unlocked(o) == [i \in Items |-> IF lock[i] = o THEN NoOne ELSE lock[i]]

(* Faulty variant: the connection survives without a rollback.             *)
RollbackKeepingLock(r, answer) ==
  /\ pc' = [pc EXCEPT ![r] = "over"]
  /\ rows' = [rows EXCEPT ![r] = {}]
  /\ reply' = [reply EXCEPT ![r] = answer]
  /\ UNCHANGED <<itemVars, tableVars, lock, who, what, openAt, drawVars>>

(* The session of request r ends without a commit and the client is told   *)
(* answer: rollback, or the close of the connection, releases the lock.    *)
Rollback(r, answer) ==
  /\ pc' = [pc EXCEPT ![r] = "over"]
  /\ rows' = [rows EXCEPT ![r] = {}]
  /\ reply' = [reply EXCEPT ![r] = answer]
  /\ lock' = Unlocked(r)
  /\ UNCHANGED <<itemVars, tableVars, who, what, openAt, drawVars>>

Advance(r, from, to) ==
  /\ pc[r] = from
  /\ pc' = [pc EXCEPT ![r] = to]

(* Connect to the writer and find the session's user.                      *)
FindUser(r) ==
  /\ who[r] \in Registered
  /\ Advance(r, "new", "begun")
  /\ UNCHANGED <<itemVars, tableVars, lock, who, what, openAt, rows, reply, drawVars, faults>>

RejectUser(r) ==
  /\ pc[r] = "new"
  /\ who[r] \notin Registered
  /\ Rollback(r, "login_required")
  /\ UNCHANGED faults

(* SELECT ... FOR UPDATE starts: end_time is compared with its start time. *)
AskItem(r) ==
  /\ Advance(r, "begun", "waiting")
  /\ openAt' = [openAt EXCEPT ![r] = what[r] \notin closed]
  /\ UNCHANGED <<itemVars, tableVars, lock, who, what, rows, reply, drawVars, faults>>

Eligible(r) == openAt[r] /\ what[r] \notin drawn

(* Faulty variant: the SELECT without FOR UPDATE.                          *)
LockItemWithoutForUpdate(r) ==
  /\ Eligible(r)
  /\ Advance(r, "waiting", "locked")
  /\ UNCHANGED <<itemVars, tableVars, lock, who, what, openAt, rows, reply, drawVars, faults>>

(* The row lock is granted and the row still satisfies the WHERE clause.   *)
LockItem(r) ==
  /\ lock[what[r]] = NoOne
  /\ Eligible(r)
  /\ Advance(r, "waiting", "locked")
  /\ lock' = [lock EXCEPT ![what[r]] = r]
  /\ UNCHANGED <<itemVars, tableVars, who, what, openAt, rows, reply, drawVars, faults>>

(* Faulty variant: an item that is not open is asked for again.            *)
RetryItem(r) ==
  /\ Advance(r, "waiting", "begun")
  /\ lock[what[r]] = NoOne
  /\ ~Eligible(r)
  /\ UNCHANGED <<itemVars, tableVars, lock, who, what, openAt, rows, reply, drawVars, faults>>

RejectItem(r) ==
  /\ pc[r] = "waiting"
  /\ lock[what[r]] = NoOne
  /\ ~Eligible(r)
  /\ Rollback(r, "item_not_open")
  /\ UNCHANGED faults

SameEntry(r, s) == who[r] = who[s] /\ what[r] = what[s]

(* UNIQUE KEY unique_entry (user_id, item_id): an insert waits for another *)
(* session's uncommitted row with the key and fails on a committed one.    *)
KeyFree(r) == \A s \in Requests \ {r} : SameEntry(r, s) => "entry" \notin rows[s]
Duplicate(r) == \E s \in entries : SameEntry(r, s)

InsertEntry(r) ==
  /\ KeyFree(r) /\ ~Duplicate(r)
  /\ Advance(r, "locked", "inserted")
  /\ rows' = [rows EXCEPT ![r] = @ \union {"entry"}]
  /\ UNCHANGED <<itemVars, tableVars, lock, who, what, openAt, reply, drawVars, faults>>

RejectDuplicate(r) ==
  /\ pc[r] = "locked"
  /\ KeyFree(r) /\ Duplicate(r)
  /\ Rollback(r, "duplicate")
  /\ UNCHANGED faults

InsertEvent(r) ==
  /\ r \notin FailureDrill
  /\ Advance(r, "inserted", "evented")
  /\ rows' = [rows EXCEPT ![r] = @ \union {"event"}]
  /\ UNCHANGED <<itemVars, tableVars, lock, who, what, openAt, reply, drawVars, faults>>

(* raise OutboxTransactionFailure, the validation-only drill.              *)
DrillReject(r) ==
  /\ r \in FailureDrill
  /\ pc[r] = "inserted"
  /\ Rollback(r, "unavailable")
  /\ UNCHANGED faults

(* Faulty variant: commit before the event is inserted.                    *)
SendCommitBeforeEvent(r) ==
  /\ Advance(r, "inserted", "committing")
  /\ UNCHANGED <<itemVars, tableVars, lock, who, what, openAt, rows, reply, drawVars, faults>>

SendCommit(r) ==
  /\ Advance(r, "evented", "committing")
  /\ UNCHANGED <<itemVars, tableVars, lock, who, what, openAt, rows, reply, drawVars, faults>>

(* The server commits the rows of the session, listened to or not.         *)
ServerCommit(r) ==
  /\ \/ Advance(r, "committing", "committed")
     \/ Advance(r, "orphaned", "over")
  /\ entries' = entries \union {s \in {r} : "entry" \in rows[s]}
  /\ events' = events \union {s \in {r} : "event" \in rows[s]}
  /\ rows' = [rows EXCEPT ![r] = {}]
  /\ lock' = Unlocked(r)
  /\ UNCHANGED <<itemVars, who, what, openAt, reply, drawVars, faults>>

(* The server drops a session whose client went away.                      *)
ServerAbort(r) ==
  /\ pc[r] = "orphaned"
  /\ Rollback(r, reply[r])
  /\ UNCHANGED faults

(* Faulty variant: success is answered before commit() returned.           *)
RespondBeforeCommit(r) ==
  /\ Advance(r, "committing", "over")
  /\ reply' = [reply EXCEPT ![r] = "success"]
  /\ lock' = Unlocked(r)
  /\ UNCHANGED <<itemVars, tableVars, who, what, openAt, rows, drawVars, faults>>

Respond(r) ==
  /\ Advance(r, "committed", "over")
  /\ reply' = [reply EXCEPT ![r] = "success"]
  /\ UNCHANGED <<itemVars, tableVars, lock, who, what, openAt, rows, drawVars, faults>>

(* A MySQLError (connect, statement or COMMIT; the client is told 503) or  *)
(* the death of the pod (the client is told nothing) ends the handler.  A  *)
(* COMMIT already sent stays with the server.                              *)
Interrupt(r, answer) ==
  /\ faults < MaxFaults
  /\ faults' = faults + 1
  /\ answer \in {"unavailable", "dropped"}
  /\ \/ /\ pc[r] \in {"new", "begun", "waiting", "locked", "inserted", "evented"}
        /\ Rollback(r, answer)
     \/ /\ \/ Advance(r, "committing", "orphaned")
           \/ Advance(r, "committed", "over")
        /\ reply' = [reply EXCEPT ![r] = answer]
        /\ UNCHANGED <<itemVars, tableVars, lock, who, what, openAt, rows, drawVars>>

(***************************************************************************)
(* The CronJob raffle-draw-job                                             *)
(***************************************************************************)
(* Faulty variant: the draw reads at READ UNCOMMITTED.                     *)
StartDrawDirtyRead(d) ==
  /\ dpc[d] = "idle"
  /\ \A e \in DrawRuns : dpc[e] \notin DrawAlive
  /\ dpc' = [dpc EXCEPT ![d] = "drawing"]
  /\ todo' = [todo EXCEPT ![d] = closed \ drawn]
  /\ view' = [view EXCEPT ![d] = entries \union {r \in Requests : rows[r] # {}}]
  /\ UNCHANGED <<itemVars, tableVars, lock, requestVars, pick, faults>>

(* concurrencyPolicy Forbid and the Job's restarts start a container only  *)
(* when no other one runs.  Its first SELECT fixes items_to_draw and the   *)
(* snapshot in which the entries are read later.                           *)
StartDraw(d) ==
  /\ dpc[d] = "idle"
  /\ \A e \in DrawRuns : dpc[e] \notin DrawAlive
  /\ dpc' = [dpc EXCEPT ![d] = "drawing"]
  /\ todo' = [todo EXCEPT ![d] = closed \ drawn]
  /\ view' = [view EXCEPT ![d] = entries]
  /\ UNCHANGED <<itemVars, tableVars, lock, requestVars, pick, faults>>

(* Faulty variant: the id of the entry taken for the user's.               *)
DrawItemByEntry(d, i) ==
  /\ dpc[d] = "drawing"
  /\ i \in todo[d]
  /\ lock[i] = NoOne
  /\ LET candidates == {r \in view[d] : what[r] = i}
     IN \E w \in IF candidates = {} THEN {NoOne} ELSE candidates :
          pick' = [pick EXCEPT ![d][i] = w]
  /\ todo' = [todo EXCEPT ![d] = @ \ {i}]
  /\ lock' = [lock EXCEPT ![i] = d]
  /\ UNCHANGED <<itemVars, tableVars, requestVars, dpc, view, faults>>

(* Faulty variant: the else-branch of the draw is dropped.                 *)
DrawItemSkippingEmpty(d, i) ==
  /\ dpc[d] = "drawing"
  /\ i \in todo[d]
  /\ lock[i] = NoOne
  /\ todo' = [todo EXCEPT ![d] = @ \ {i}]
  /\ LET candidates == Applicants(view[d], i)
     IN \/ /\ candidates = {}
           /\ UNCHANGED <<pick, lock>>
        \/ /\ \E w \in candidates : pick' = [pick EXCEPT ![d][i] = w]
           /\ lock' = [lock EXCEPT ![i] = d]
  /\ UNCHANGED <<itemVars, tableVars, requestVars, dpc, view, faults>>

(* Choose among the entries in the snapshot, then UPDATE the item row.     *)
DrawItem(d, i) ==
  /\ dpc[d] = "drawing"
  /\ i \in todo[d]
  /\ lock[i] = NoOne
  /\ LET candidates == Applicants(view[d], i)
     IN \E w \in IF candidates = {} THEN {NoOne} ELSE candidates :
          pick' = [pick EXCEPT ![d][i] = w]
  /\ todo' = [todo EXCEPT ![d] = @ \ {i}]
  /\ lock' = [lock EXCEPT ![i] = d]
  /\ UNCHANGED <<itemVars, tableVars, requestVars, dpc, view, faults>>

SendDrawCommit(d) ==
  /\ dpc[d] = "drawing"
  /\ todo[d] = {}
  /\ dpc' = [dpc EXCEPT ![d] = "committing"]
  /\ UNCHANGED <<itemVars, tableVars, lock, requestVars, view, todo, pick, faults>>

(* A finished run forgets its snapshot; the next minute starts another.    *)
ForgetDraw(d, next) ==
  /\ dpc' = [dpc EXCEPT ![d] = next]
  /\ view' = [view EXCEPT ![d] = {}]
  /\ todo' = [todo EXCEPT ![d] = {}]
  /\ pick' = [pick EXCEPT ![d] = [i \in Items |-> NoOne]]

CommitDraw(d) ==
  LET updated == {i \in Items : lock[i] = d}
  IN /\ \/ dpc[d] = "committing" /\ ForgetDraw(d, "committed")
        \/ dpc[d] = "orphaned" /\ ForgetDraw(d, "idle")
     /\ drawn' = drawn \union updated
     /\ winner' = [i \in Items |-> IF i \in updated /\ pick[d][i] # NoOne
                                   THEN pick[d][i] ELSE winner[i]]
     /\ lock' = Unlocked(d)
     /\ UNCHANGED <<closed, tableVars, requestVars, faults>>

AbortDraw(d) ==
  /\ dpc[d] = "orphaned"
  /\ ForgetDraw(d, "idle")
  /\ lock' = Unlocked(d)
  /\ UNCHANGED <<itemVars, tableVars, requestVars, faults>>

EndDraw(d) ==
  /\ dpc[d] = "committed"
  /\ ForgetDraw(d, "idle")
  /\ UNCHANGED <<itemVars, tableVars, lock, requestVars, faults>>

(* A MySQLError or the death of the container: conn.close() without commit *)
(* rolls back, but a COMMIT already sent stays with the server.            *)
InterruptDraw(d) ==
  /\ faults < MaxFaults
  /\ faults' = faults + 1
  /\ \/ /\ dpc[d] = "drawing"
        /\ ForgetDraw(d, "idle")
        /\ lock' = Unlocked(d)
     \/ /\ dpc[d] = "committing"
        /\ dpc' = [dpc EXCEPT ![d] = "orphaned"]
        /\ UNCHANGED <<lock, view, todo, pick>>
     \/ /\ dpc[d] = "committed"
        /\ ForgetDraw(d, "idle")
        /\ UNCHANGED lock
  /\ UNCHANGED <<itemVars, tableVars, requestVars>>

(***************************************************************************)
(* Specification                                                           *)
(***************************************************************************)
Handle(r) ==
  \/ FindUser(r) \/ RejectUser(r) \/ AskItem(r)
  \/ LockItem(r) \/ RejectItem(r)
  \/ InsertEntry(r) \/ RejectDuplicate(r)
  \/ InsertEvent(r) \/ DrillReject(r)
  \/ SendCommit(r) \/ Respond(r)

Server(r) == ServerCommit(r) \/ ServerAbort(r)

Work(d) ==
  \/ StartDraw(d) \/ SendDrawCommit(d) \/ EndDraw(d)
  \/ \E i \in Items : DrawItem(d, i)

DrawServer(d) == CommitDraw(d) \/ AbortDraw(d)

Next ==
  \/ \E i \in Items : Close(i)
  \/ \E r \in Requests :
       \/ Handle(r) \/ Server(r)
       \/ \E answer \in {"unavailable", "dropped"} : Interrupt(r, answer)
  \/ \E d \in DrawRuns : Work(d) \/ DrawServer(d) \/ InterruptDraw(d)

Spec == Init /\ [][Next]_vars

(* gunicorn threads, the database and the CronJob controller keep taking   *)
(* the steps they can take, and time passes.                               *)
FairSpec ==
  /\ Spec
  /\ \A i \in Items : WF_vars(Close(i))
  /\ \A r \in Requests : WF_vars(Handle(r)) /\ WF_vars(Server(r))
  /\ \A d \in DrawRuns : WF_vars(Work(d)) /\ WF_vars(DrawServer(d))

(***************************************************************************)
(* Properties                                                              *)
(***************************************************************************)
(* A client that was answered "success" finds both the entry and its       *)
(* outbox event committed, whatever failed before or after: api_apply      *)
(* answers only after connection.commit() returned.                        *)
SuccessIsDurable ==
  \A r \in Requests : reply[r] = "success" => r \in entries /\ r \in events

(* Once an item was drawn no application to it is accepted any more, even  *)
(* by a transaction that passed the eligibility check before: the handler  *)
(* keeps the item row locked from that check to the end of the commit.     *)
NoEntryAfterDraw ==
  [][\A r \in entries' \ entries : what[r] \notin drawn]_vars

(* A recorded winner applied: the snapshot the draw chooses from holds     *)
(* only entries whose transaction committed.                               *)
WinnerApplied ==
  \A i \in Items : winner[i] # NoOne => winner[i] \in Applicants(entries, i)

(* The row lock that serialises applications and draws is never leaked:    *)
(* its owner is a session that is still going to commit or to end.         *)
LockHasLiveOwner ==
  \A i \in Items :
    /\ \A r \in Requests : lock[i] = r <=> what[r] = i /\ pc[r] \in HoldsLock
    /\ \A d \in DrawRuns : lock[i] = d => dpc[d] \in {"drawing", "committing", "orphaned"}

(* The code's transactions, seen from outside, do what RafflePromise says. *)
Promise == INSTANCE RafflePromise WITH
  accepted <- {<<who[r], what[r]>> : r \in entries},
  announced <- {<<who[r], what[r]>> : r \in events}

KeepsPromise == Promise!Spec

(* Every call of the handler that found its user ends, and releases the    *)
(* lock the others wait for.                                               *)
RequestsEnd == \A r \in Requests : pc[r] = "begun" ~> pc[r] = "over"

(* Every item whose end time passed is drawn in the end, although runs of  *)
(* the draw fail, lose their commit or wait for applications.              *)
ClosedItemsAreDrawn == \A i \in Items : i \in closed ~> i \in drawn

(* What draw_winner.py says of an item it closes without a winner: it had  *)
(* no applicants ("응모자가 없는 경우에도 종료 처리는 해야 함").            *)
NoWinnerMeansNoApplicants ==
  \A i \in Items : i \in drawn /\ winner[i] = NoOne => Applicants(entries, i) = {}

(* What draw_winner.py says of the items a run draws: they have not been   *)
(* drawn yet ("종료시간 지남 + 아직 추첨 안 됨").                           *)
DrawnOnce ==
  [][\A i \in drawn : winner'[i] = winner[i]]_vars
=============================================================================
