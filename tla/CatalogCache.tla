---------------------------- MODULE CatalogCache ----------------------------
(***************************************************************************)
(* app/catalog_cache.py: a process-local snapshot of the public catalogue, *)
(* shared by the gunicorn threads that render the index page (index and    *)
(* load_catalog_items in app/app.py).  The rows are abstracted to the      *)
(* version of the table they were read from.                               *)
(***************************************************************************)
EXTENDS Integers

CONSTANTS
  Calls,       \* calls of CatalogCache.get, each in a thread of its own
  TTLs,        \* values of CATALOG_CACHE_TTL_SECONDS, 0 switches the cache off
  Wait,        \* wait_timeout of the refresh lock
  MaxTime,     \* bound of the monotonic clock
  MaxVersion,  \* bound of the catalogue's versions
  Nobody

ASSUME CacheAssumption ==
  /\ TTLs \subseteq Nat
  /\ Wait \in Nat /\ MaxTime \in Nat /\ MaxVersion \in Nat
  /\ Nobody \notin Calls

VARIABLES
  clock, ttl,
  version,     \* current version of raffle_items on the reader
  replacedAt,  \* when an older version was replaced
  snapshot,    \* self._snapshot
  lock,        \* holder of self._refresh_lock
  pc, arrived, \* progress and start of every call
  seen,        \* the snapshot a call read in _fresh
  started,     \* the clock a call read before load()
  rows,        \* the version a call read or returns
  answer       \* how a call ended

tableVars == <<version, replacedAt>>
callVars == <<pc, arrived, seen, started, rows, answer>>
vars == <<clock, ttl, tableVars, snapshot, lock, callVars>>

Versions == 0..MaxVersion
Empty == [expires |-> 0, rows |-> 0]
Snapshots == [expires : Nat, rows : Versions]

(* A call that owns the refresh lock.                                      *)
Refreshing == {"recheck", "decide", "load", "read", "failed"}
Pc == Refreshing \union {"new", "look", "check", "wait", "direct", "done"}

TypeOK ==
  /\ clock \in 0..MaxTime /\ ttl \in TTLs
  /\ version \in Versions /\ replacedAt \in [Versions -> 0..MaxTime]
  /\ snapshot \in Snapshots
  /\ lock \in Calls \union {Nobody}
  /\ pc \in [Calls -> Pc]
  /\ arrived \in [Calls -> 0..MaxTime]
  /\ seen \in [Calls -> Snapshots]
  /\ started \in [Calls -> 0..MaxTime]
  /\ rows \in [Calls -> Versions]
  /\ answer \in [Calls -> {"none", "rows", "busy", "error"}]

(* An Empty snapshot stands for None: it has always expired.               *)
Init ==
  /\ clock = 0 /\ ttl \in TTLs
  /\ version = 0 /\ replacedAt = [v \in Versions |-> 0]
  /\ snapshot = Empty
  /\ lock = Nobody
  /\ pc = [c \in Calls |-> "new"]
  /\ arrived = [c \in Calls |-> 0]
  /\ seen = [c \in Calls |-> Empty]
  /\ started = [c \in Calls |-> 0]
  /\ rows = [c \in Calls |-> 0]
  /\ answer = [c \in Calls |-> "none"]

Tick ==
  /\ clock < MaxTime
  /\ clock' = clock + 1
  /\ UNCHANGED <<ttl, tableVars, snapshot, lock, callVars>>

(* The rows on the reader endpoint change.                                 *)
Change ==
  /\ version < MaxVersion
  /\ version' = version + 1
  /\ replacedAt' = [replacedAt EXCEPT ![version] = clock]
  /\ UNCHANGED <<clock, ttl, snapshot, lock, callVars>>

Move(c, from, to) ==
  /\ pc[c] = from
  /\ pc' = [pc EXCEPT ![c] = to]

End(c, from, how) ==
  /\ Move(c, from, "done")
  /\ answer' = [answer EXCEPT ![c] = how]

(***************************************************************************)
(* CatalogCache.get                                                        *)
(***************************************************************************)
Get(c) ==
  /\ \/ ttl = 0 /\ Move(c, "new", "direct")
     \/ ttl > 0 /\ Move(c, "new", "look")
  /\ arrived' = [arrived EXCEPT ![c] = clock]
  /\ UNCHANGED <<clock, ttl, tableVars, snapshot, lock, seen, started, rows, answer>>

(* ttl == 0: every call loads for itself.                                  *)
LoadDirect(c) ==
  /\ \/ End(c, "direct", "rows") /\ rows' = [rows EXCEPT ![c] = version]
     \/ End(c, "direct", "error") /\ UNCHANGED rows
  /\ UNCHANGED <<clock, ttl, tableVars, snapshot, lock, arrived, seen, started>>

(* _fresh reads self._snapshot once ...                                    *)
ReadSnapshot(c) ==
  /\ Move(c, "look", "check") \/ Move(c, "recheck", "decide")
  /\ seen' = [seen EXCEPT ![c] = snapshot]
  /\ UNCHANGED <<clock, ttl, tableVars, snapshot, lock, arrived, started, rows, answer>>

(* ... and compares the clock with the expiry of what it read.             *)
Fresh(c) == clock < seen[c].expires

HitFrom(c, from) ==
  /\ End(c, from, "rows")
  /\ rows' = [rows EXCEPT ![c] = seen[c].rows]
  /\ UNCHANGED <<clock, ttl, tableVars, snapshot, arrived, seen, started>>

Hit(c) == Fresh(c) /\ HitFrom(c, "check") /\ UNCHANGED lock

Miss(c) ==
  /\ ~Fresh(c)
  /\ Move(c, "check", "wait")
  /\ UNCHANGED <<clock, ttl, tableVars, snapshot, lock, arrived, seen, started, rows, answer>>

(* Faulty variant: everybody refreshes.                                    *)
AcquireWithoutLock(c) ==
  /\ Move(c, "wait", "recheck")
  /\ lock' = c
  /\ UNCHANGED <<clock, ttl, tableVars, snapshot, arrived, seen, started, rows, answer>>

Acquire(c) ==
  /\ lock = Nobody
  /\ Move(c, "wait", "recheck")
  /\ lock' = c
  /\ UNCHANGED <<clock, ttl, tableVars, snapshot, arrived, seen, started, rows, answer>>

(* CatalogBusy: the lock was not free for wait_timeout seconds.            *)
TimeOut(c) ==
  /\ lock # Nobody
  /\ clock >= arrived[c] + Wait
  /\ End(c, "wait", "busy")
  /\ UNCHANGED <<clock, ttl, tableVars, snapshot, lock, arrived, seen, started, rows>>

(* The double check: another call refreshed while this one waited.         *)
HitAfterWait(c) == Fresh(c) /\ HitFrom(c, "decide") /\ lock' = Nobody

StartLoad(c) ==
  /\ ~Fresh(c)
  /\ Move(c, "decide", "load")
  /\ started' = [started EXCEPT ![c] = clock]
  /\ UNCHANGED <<clock, ttl, tableVars, snapshot, lock, arrived, seen, rows, answer>>

(* load(): the SELECT sees the current catalogue, or fails.                *)
Load(c) ==
  /\ \/ Move(c, "load", "read") /\ rows' = [rows EXCEPT ![c] = version]
     \/ Move(c, "load", "failed") /\ UNCHANGED rows
  /\ UNCHANGED <<clock, ttl, tableVars, snapshot, lock, arrived, seen, started, answer>>

(* Faulty variant: the lifetime of a snapshot starts when its load ended.  *)
StoreFromNow(c) ==
  /\ End(c, "read", "rows")
  /\ snapshot' = [expires |-> clock + ttl, rows |-> rows[c]]
  /\ lock' = Nobody
  /\ UNCHANGED <<clock, ttl, tableVars, arrived, seen, started, rows>>

(* Faulty variant: the two fields of the stored pair swapped.              *)
StoreSwapped(c) ==
  /\ End(c, "read", "rows")
  /\ snapshot' = [expires |-> rows[c], rows |-> started[c] + ttl]
  /\ lock' = Nobody
  /\ UNCHANGED <<clock, ttl, tableVars, arrived, seen, started, rows>>

(* self._snapshot = (started + ttl, ...), and finally the lock is released. *)
Store(c) ==
  /\ End(c, "read", "rows")
  /\ snapshot' = [expires |-> started[c] + ttl, rows |-> rows[c]]
  /\ lock' = Nobody
  /\ UNCHANGED <<clock, ttl, tableVars, arrived, seen, started, rows>>

(* Faulty variant: the lock is not released when load() raises.            *)
LoadErrorKeepingLock(c) ==
  /\ End(c, "failed", "error")
  /\ UNCHANGED <<clock, ttl, tableVars, snapshot, lock, arrived, seen, started, rows>>

LoadError(c) ==
  /\ End(c, "failed", "error")
  /\ lock' = Nobody
  /\ UNCHANGED <<clock, ttl, tableVars, snapshot, arrived, seen, started, rows>>

(* One step of one call; a thread that serves another page makes another   *)
(* call.                                                                   *)
Step(c) ==
  \/ Get(c) \/ LoadDirect(c) \/ ReadSnapshot(c) \/ Hit(c) \/ Miss(c)
  \/ Acquire(c) \/ TimeOut(c) \/ HitAfterWait(c) \/ StartLoad(c)
  \/ Load(c) \/ Store(c) \/ LoadError(c)

Next == Tick \/ Change \/ \E c \in Calls : Step(c)

Spec == Init /\ [][Next]_vars

(* Threads keep running; load() ends because get_db_connection sets        *)
(* connect and read timeouts.                                              *)
FairSpec == Spec /\ \A c \in Calls : WF_vars(Step(c))

(***************************************************************************)
(* Properties                                                              *)
(***************************************************************************)
(* At most one thread queries the database for a refresh, and it is the    *)
(* one that holds the lock.                                                *)
OneRefresher == \A c \in Calls : pc[c] \in Refreshing <=> lock = c

(* Version v was the catalogue at some moment since time t.                *)
CurrentSince(v, t) == v = version \/ replacedAt[v] >= t

(* A page shows a catalogue that was current at most ttl seconds before    *)
(* the page was requested, however long loads and waits took; after expiry *)
(* a failing database yields an error and never the old rows.              *)
FreshEnough ==
  \A c \in Calls : answer[c] = "rows" => CurrentSince(rows[c], arrived[c] - ttl)

(* Refreshes do not overtake each other: the snapshot never returns to an  *)
(* older catalogue or an earlier expiry.                                   *)
SnapshotMovesForward ==
  [][snapshot'.rows >= snapshot.rows /\ snapshot'.expires >= snapshot.expires]_vars

(* A thread that refreshes gives the lock back, whether the database       *)
(* answers, fails, or another thread refreshed before it.                  *)
RefreshEnds == \A c \in Calls : lock = c ~> lock # c
=============================================================================
