------------------------ MODULE CatalogCacheProofs -------------------------
(* Theorems about CatalogCache for any set of calls, any lifetimes and lock *)
(* timeout, and any bounds of the clock and of the catalogue's versions.    *)
EXTENDS CatalogCache, TLAPS

(* Nothing a call remembers lies in the future, and a load starts after    *)
(* its call.                                                               *)
Times ==
  /\ snapshot.expires <= clock + ttl
  /\ \A c \in Calls :
       /\ arrived[c] <= clock /\ started[c] <= clock
       /\ seen[c].expires <= clock + ttl
       /\ pc[c] \in {"load", "read", "failed"} => arrived[c] <= started[c]

OpenCalls == \A c \in Calls : pc[c] # "done" => answer[c] = "none"

(* What a snapshot holds was current a lifetime before it expires.         *)
Sound(s) == s.expires > 0 => CurrentSince(s.rows, s.expires - ttl)

(* So is what a call saw, and what it loaded was current since it started. *)
RowsCurrent ==
  /\ Sound(snapshot)
  /\ \A c \in Calls : Sound(seen[c])
  /\ \A c \in Calls : pc[c] = "read" => CurrentSince(rows[c], started[c])

(* The snapshot does not change under the call that refreshes it, and what *)
(* that call is about to store is not older.                               *)
Ahead ==
  /\ snapshot.rows <= version
  /\ \A c \in Calls :
       /\ pc[c] = "decide" => seen[c] = snapshot
       /\ pc[c] \in {"load", "read"} => snapshot.expires <= started[c] + ttl
       /\ pc[c] = "read" => snapshot.rows <= rows[c] /\ rows[c] <= version

IInv ==
  /\ TypeOK
  /\ OneRefresher
  /\ Times
  /\ OpenCalls
  /\ RowsCurrent
  /\ Ahead
  /\ FreshEnough

LEMMA InitIInv == Init => IInv
  BY CacheAssumption DEF Init, IInv, TypeOK, OneRefresher, Times, OpenCalls, RowsCurrent,
     Sound, CurrentSince, Ahead, FreshEnough, Empty, Snapshots, Versions, Pc, Refreshing

(* What was current since a moment of the past stays so when the catalogue *)
(* changes.                                                                *)
LEMMA ChangeKeepsCurrent ==
  ASSUME TypeOK, Change, NEW v \in Versions, NEW t \in Int, t <= clock, CurrentSince(v, t)
  PROVE  CurrentSince(v, t)'
  BY CacheAssumption DEF TypeOK, Change, CurrentSince, Versions

(* What was current since some moment was so since any earlier one.        *)
LEMMA CurrentSinceEarlier ==
  ASSUME TypeOK, NEW v \in Versions, NEW t \in Int, NEW u \in Int, u <= t, CurrentSince(v, t)
  PROVE  CurrentSince(v, u)
  BY CacheAssumption DEF TypeOK, CurrentSince, Versions

(* Time passes.                                                            *)
LEMMA TickStep ==
  ASSUME IInv, Tick
  PROVE  IInv'
<1> USE CacheAssumption DEF IInv, Tick, tableVars, callVars
<1>1. TypeOK'
  <2>1. clock' \in 0..MaxTime
    BY DEF TypeOK
  <2>2. QED  BY <2>1 DEF TypeOK
<1>2. OneRefresher'
  BY DEF TypeOK, OneRefresher, Refreshing
<1>3. Times'
  BY DEF TypeOK, Times, Snapshots
<1>4. OpenCalls'
  BY DEF TypeOK, OpenCalls
<1>5. RowsCurrent'
  BY DEF TypeOK, RowsCurrent, Sound, CurrentSince, Snapshots
<1>6. Ahead'
  BY DEF TypeOK, OneRefresher, Times, Ahead, Refreshing, Snapshots, Versions
<1>7. FreshEnough'
  BY DEF TypeOK, Times, RowsCurrent, Sound, CurrentSince, OpenCalls, FreshEnough, Snapshots, Versions
<1>8. QED  BY <1>1, <1>2, <1>3, <1>4, <1>5, <1>6, <1>7

(* The catalogue changes.                                                  *)
LEMMA ChangeStep ==
  ASSUME IInv, Change
  PROVE  IInv'
<1> USE CacheAssumption DEF IInv, Change, tableVars, callVars
<1>1. TypeOK'
  <2>1. version' \in Versions /\ version \in Versions
    BY DEF TypeOK, Versions
  <2>2. replacedAt' \in [Versions -> 0..MaxTime]
    BY <2>1 DEF TypeOK
  <2>3. QED  BY <2>1, <2>2 DEF TypeOK
<1>2. OneRefresher'
  BY DEF TypeOK, OneRefresher, Refreshing
<1>3. Times'
  BY DEF TypeOK, Times, Snapshots
<1>4. OpenCalls'
  BY DEF TypeOK, OpenCalls
<1>5. RowsCurrent'
  <2>1. ASSUME NEW s \in Snapshots, s.expires <= clock + ttl, Sound(s)
        PROVE  s.expires > 0 => CurrentSince(s.rows, s.expires - ttl)'
    <3>1. s.rows \in Versions /\ s.expires - ttl \in Int /\ s.expires - ttl <= clock
      BY <2>1 DEF TypeOK, Snapshots
    <3>2. QED  BY <2>1, <3>1, ChangeKeepsCurrent DEF Sound
  <2>2. Sound(snapshot)'
    BY <2>1 DEF TypeOK, Times, RowsCurrent, Sound
  <2>3. ASSUME NEW c \in Calls PROVE Sound(seen[c])'
    BY <2>1 DEF TypeOK, Times, RowsCurrent, Sound
  <2>4. ASSUME NEW c \in Calls, pc[c] = "read" PROVE CurrentSince(rows[c], started[c])'
    <3>1. rows[c] \in Versions /\ started[c] \in Int /\ started[c] <= clock
      BY DEF TypeOK, Times
    <3>2. QED  BY <2>4, <3>1, ChangeKeepsCurrent DEF RowsCurrent
  <2>5. QED  BY <2>2, <2>3, <2>4 DEF RowsCurrent
<1>6. Ahead'
  <2>1. /\ version \in Int /\ version' = version + 1 /\ snapshot.rows \in Int
        /\ \A c \in Calls : rows[c] \in Int
    BY DEF TypeOK, Versions, Snapshots
  <2>2. QED  BY <2>1 DEF Ahead
<1>7. FreshEnough'
  <2>1. ASSUME NEW c \in Calls, answer[c] = "rows"
        PROVE  CurrentSince(rows[c], arrived[c] - ttl)'
    <3>1. /\ rows[c] \in Versions
          /\ arrived[c] - ttl \in Int /\ arrived[c] - ttl <= clock
      BY DEF TypeOK, Times
    <3>2. QED  BY <2>1, <3>1, ChangeKeepsCurrent DEF FreshEnough
  <2>2. QED  BY <2>1 DEF FreshEnough
<1>8. QED  BY <1>1, <1>2, <1>3, <1>4, <1>5, <1>6, <1>7

(* A call starts.                                                          *)
LEMMA GetStep ==
  ASSUME IInv, NEW c \in Calls, Get(c)
  PROVE  IInv'
<1> USE CacheAssumption DEF IInv, Get, Move, tableVars, callVars
<1>1. TypeOK'
  <2>1. pc' \in [Calls -> Pc]
    BY DEF TypeOK, Pc, Refreshing
  <2>2. arrived' \in [Calls -> 0..MaxTime]
    BY DEF TypeOK
  <2>3. QED  BY <2>1, <2>2 DEF TypeOK
<1>2. OneRefresher'
  BY DEF TypeOK, OneRefresher, Refreshing
<1>3. Times'
  BY DEF TypeOK, Times, Snapshots
<1>4. OpenCalls'
  BY DEF TypeOK, OpenCalls
<1>5. RowsCurrent'
  BY DEF TypeOK, RowsCurrent, Sound, CurrentSince, Snapshots
<1>6. Ahead'
  BY DEF TypeOK, OneRefresher, Times, Ahead, Refreshing, Snapshots, Versions
<1>7. FreshEnough'
  BY DEF TypeOK, Times, RowsCurrent, Sound, CurrentSince, OpenCalls, FreshEnough, Snapshots, Versions
<1>8. QED  BY <1>1, <1>2, <1>3, <1>4, <1>5, <1>6, <1>7

(* The cache is off.                                                       *)
LEMMA LoadDirectStep ==
  ASSUME IInv, NEW c \in Calls, LoadDirect(c)
  PROVE  IInv'
<1> USE CacheAssumption DEF IInv, LoadDirect, End, Move, tableVars, callVars
<1>1. TypeOK'
  <2>1. pc' \in [Calls -> Pc]
    BY DEF TypeOK, Pc, Refreshing
  <2>2. rows' \in [Calls -> Versions]
    BY DEF TypeOK
  <2>3. answer' \in [Calls -> {"none", "rows", "busy", "error"}]
    BY DEF TypeOK
  <2>4. QED  BY <2>1, <2>2, <2>3 DEF TypeOK
<1>2. OneRefresher'
  BY DEF TypeOK, OneRefresher, Refreshing
<1>3. Times'
  BY DEF TypeOK, Times, Snapshots
<1>4. OpenCalls'
  BY DEF TypeOK, OpenCalls
<1>5. RowsCurrent'
  BY DEF TypeOK, RowsCurrent, Sound, CurrentSince, Snapshots
<1>6. Ahead'
  BY DEF TypeOK, OneRefresher, Times, Ahead, Refreshing, Snapshots, Versions
<1>7. FreshEnough'
  <2>1. ASSUME NEW d \in Calls, d # c, answer'[d] = "rows"
        PROVE  CurrentSince(rows[d], arrived[d] - ttl)'
    BY <2>1 DEF TypeOK, FreshEnough, CurrentSince
  <2>2. answer'[c] = "rows" => rows'[c] = version
    BY DEF TypeOK
  <2>3. arrived[c] - ttl <= clock
    BY DEF TypeOK, Times
  <2>4. answer'[c] = "rows" => CurrentSince(rows[c], arrived[c] - ttl)'
    BY <2>2, <2>3 DEF TypeOK, CurrentSince, Versions
  <2>5. QED  BY <2>1, <2>4 DEF FreshEnough
<1>8. QED  BY <1>1, <1>2, <1>3, <1>4, <1>5, <1>6, <1>7

(* The snapshot is read.                                                   *)
LEMMA ReadSnapshotStep ==
  ASSUME IInv, NEW c \in Calls, ReadSnapshot(c)
  PROVE  IInv'
<1> USE CacheAssumption DEF IInv, ReadSnapshot, Move, tableVars, callVars
<1>1. TypeOK'
  BY DEF TypeOK, Snapshots, Versions, Pc, Refreshing
<1>2. OneRefresher'
  BY DEF TypeOK, OneRefresher, Refreshing
<1>3. Times'
  BY DEF TypeOK, Times, Snapshots
<1>4. OpenCalls'
  BY DEF TypeOK, OpenCalls
<1>5. RowsCurrent'
  BY DEF TypeOK, RowsCurrent, Sound, CurrentSince, Snapshots
<1>6. Ahead'
  BY DEF TypeOK, OneRefresher, Times, Ahead, Refreshing, Snapshots, Versions
<1>7. FreshEnough'
  BY DEF TypeOK, Times, RowsCurrent, Sound, CurrentSince, OpenCalls, FreshEnough, Snapshots, Versions
<1>8. QED  BY <1>1, <1>2, <1>3, <1>4, <1>5, <1>6, <1>7

(* The snapshot is fresh.                                                  *)
LEMMA HitStep ==
  ASSUME IInv, NEW c \in Calls, Hit(c)
  PROVE  IInv'
<1> USE CacheAssumption DEF IInv, Hit, HitFrom, Fresh, End, Move, tableVars, callVars
<1>1. TypeOK'
  BY DEF TypeOK, Snapshots, Versions, Pc, Refreshing
<1>2. OneRefresher'
  BY DEF TypeOK, OneRefresher, Refreshing
<1>3. Times'
  BY DEF TypeOK, Times, Snapshots
<1>4. OpenCalls'
  BY DEF TypeOK, OpenCalls
<1>5. RowsCurrent'
  BY DEF TypeOK, RowsCurrent, Sound, CurrentSince, Snapshots
<1>6. Ahead'
  BY DEF TypeOK, OneRefresher, Times, Ahead, Refreshing, Snapshots, Versions
<1>7. FreshEnough'
  <2>1. /\ seen[c].rows \in Versions
        /\ seen[c].expires - ttl \in Int /\ arrived[c] - ttl \in Int
        /\ arrived[c] - ttl <= seen[c].expires - ttl
        /\ seen[c].expires > 0
    BY DEF TypeOK, Times, Snapshots
  <2>2. CurrentSince(seen[c].rows, arrived[c] - ttl)
    BY <2>1, CurrentSinceEarlier DEF RowsCurrent, Sound
  <2>3. QED  BY <2>2 DEF TypeOK, CurrentSince, FreshEnough
<1>8. QED  BY <1>1, <1>2, <1>3, <1>4, <1>5, <1>6, <1>7

(* It has expired.                                                         *)
LEMMA MissStep ==
  ASSUME IInv, NEW c \in Calls, Miss(c)
  PROVE  IInv'
<1> USE CacheAssumption DEF IInv, Miss, Fresh, Move, tableVars, callVars
<1>1. TypeOK'
  BY DEF TypeOK, Snapshots, Versions, Pc, Refreshing
<1>2. OneRefresher'
  BY DEF TypeOK, OneRefresher, Refreshing
<1>3. Times'
  BY DEF TypeOK, Times, Snapshots
<1>4. OpenCalls'
  BY DEF TypeOK, OpenCalls
<1>5. RowsCurrent'
  BY DEF TypeOK, RowsCurrent, Sound, CurrentSince, Snapshots
<1>6. Ahead'
  BY DEF TypeOK, OneRefresher, Times, Ahead, Refreshing, Snapshots, Versions
<1>7. FreshEnough'
  BY DEF TypeOK, Times, RowsCurrent, Sound, CurrentSince, OpenCalls, FreshEnough, Snapshots, Versions
<1>8. QED  BY <1>1, <1>2, <1>3, <1>4, <1>5, <1>6, <1>7

(* The lock is taken.                                                      *)
LEMMA AcquireStep ==
  ASSUME IInv, NEW c \in Calls, Acquire(c)
  PROVE  IInv'
<1> USE CacheAssumption DEF IInv, Acquire, Move, tableVars, callVars
<1>1. TypeOK'
  BY DEF TypeOK, Snapshots, Versions, Pc, Refreshing
<1>2. OneRefresher'
  BY DEF TypeOK, OneRefresher, Refreshing
<1>3. Times'
  BY DEF TypeOK, Times, Snapshots
<1>4. OpenCalls'
  BY DEF TypeOK, OpenCalls
<1>5. RowsCurrent'
  BY DEF TypeOK, RowsCurrent, Sound, CurrentSince, Snapshots
<1>6. Ahead'
  BY DEF TypeOK, OneRefresher, Times, Ahead, Refreshing, Snapshots, Versions
<1>7. FreshEnough'
  BY DEF TypeOK, Times, RowsCurrent, Sound, CurrentSince, OpenCalls, FreshEnough, Snapshots, Versions
<1>8. QED  BY <1>1, <1>2, <1>3, <1>4, <1>5, <1>6, <1>7

(* The wait for the lock ends.                                             *)
LEMMA TimeOutStep ==
  ASSUME IInv, NEW c \in Calls, TimeOut(c)
  PROVE  IInv'
<1> USE CacheAssumption DEF IInv, TimeOut, End, Move, tableVars, callVars
<1>1. TypeOK'
  BY DEF TypeOK, Snapshots, Versions, Pc, Refreshing
<1>2. OneRefresher'
  BY DEF TypeOK, OneRefresher, Refreshing
<1>3. Times'
  BY DEF TypeOK, Times, Snapshots
<1>4. OpenCalls'
  BY DEF TypeOK, OpenCalls
<1>5. RowsCurrent'
  BY DEF TypeOK, RowsCurrent, Sound, CurrentSince, Snapshots
<1>6. Ahead'
  BY DEF TypeOK, OneRefresher, Times, Ahead, Refreshing, Snapshots, Versions
<1>7. FreshEnough'
  BY DEF TypeOK, Times, RowsCurrent, Sound, CurrentSince, OpenCalls, FreshEnough, Snapshots, Versions
<1>8. QED  BY <1>1, <1>2, <1>3, <1>4, <1>5, <1>6, <1>7

(* Another call refreshed meanwhile.                                       *)
LEMMA HitAfterWaitStep ==
  ASSUME IInv, NEW c \in Calls, HitAfterWait(c)
  PROVE  IInv'
<1> USE CacheAssumption DEF IInv, HitAfterWait, HitFrom, Fresh, End, Move, tableVars, callVars
<1>1. TypeOK'
  BY DEF TypeOK, Snapshots, Versions, Pc, Refreshing
<1>2. OneRefresher'
  BY DEF TypeOK, OneRefresher, Refreshing
<1>3. Times'
  BY DEF TypeOK, Times, Snapshots
<1>4. OpenCalls'
  BY DEF TypeOK, OpenCalls
<1>5. RowsCurrent'
  BY DEF TypeOK, RowsCurrent, Sound, CurrentSince, Snapshots
<1>6. Ahead'
  BY DEF TypeOK, OneRefresher, Times, Ahead, Refreshing, Snapshots, Versions
<1>7. FreshEnough'
  <2>1. /\ seen[c].rows \in Versions
        /\ seen[c].expires - ttl \in Int /\ arrived[c] - ttl \in Int
        /\ arrived[c] - ttl <= seen[c].expires - ttl
        /\ seen[c].expires > 0
    BY DEF TypeOK, Times, Snapshots
  <2>2. CurrentSince(seen[c].rows, arrived[c] - ttl)
    BY <2>1, CurrentSinceEarlier DEF RowsCurrent, Sound
  <2>3. QED  BY <2>2 DEF TypeOK, CurrentSince, FreshEnough
<1>8. QED  BY <1>1, <1>2, <1>3, <1>4, <1>5, <1>6, <1>7

(* The refresh begins.                                                     *)
LEMMA StartLoadStep ==
  ASSUME IInv, NEW c \in Calls, StartLoad(c)
  PROVE  IInv'
<1> USE CacheAssumption DEF IInv, StartLoad, Fresh, Move, tableVars, callVars
<1>1. TypeOK'
  BY DEF TypeOK, Snapshots, Versions, Pc, Refreshing
<1>2. OneRefresher'
  BY DEF TypeOK, OneRefresher, Refreshing
<1>3. Times'
  BY DEF TypeOK, Times, Snapshots
<1>4. OpenCalls'
  BY DEF TypeOK, OpenCalls
<1>5. RowsCurrent'
  BY DEF TypeOK, RowsCurrent, Sound, CurrentSince, Snapshots
<1>6. Ahead'
  BY DEF TypeOK, OneRefresher, Times, Ahead, Refreshing, Snapshots, Versions
<1>7. FreshEnough'
  BY DEF TypeOK, Times, RowsCurrent, Sound, CurrentSince, OpenCalls, FreshEnough, Snapshots, Versions
<1>8. QED  BY <1>1, <1>2, <1>3, <1>4, <1>5, <1>6, <1>7

(* The database answers or fails.                                          *)
LEMMA LoadStep ==
  ASSUME IInv, NEW c \in Calls, Load(c)
  PROVE  IInv'
<1> USE CacheAssumption DEF IInv, Load, Move, tableVars, callVars
<1>1. TypeOK'
  BY DEF TypeOK, Snapshots, Versions, Pc, Refreshing
<1>2. OneRefresher'
  BY DEF TypeOK, OneRefresher, Refreshing
<1>3. Times'
  BY DEF TypeOK, Times, Snapshots
<1>4. OpenCalls'
  BY DEF TypeOK, OpenCalls
<1>5. RowsCurrent'
  BY DEF TypeOK, RowsCurrent, Sound, CurrentSince, Snapshots
<1>6. Ahead'
  <2>1. version \in Int
    BY DEF TypeOK, Versions
  <2>2. QED  BY <2>1 DEF TypeOK, Ahead
<1>7. FreshEnough'
  BY DEF TypeOK, Times, RowsCurrent, Sound, CurrentSince, OpenCalls, FreshEnough, Snapshots, Versions
<1>8. QED  BY <1>1, <1>2, <1>3, <1>4, <1>5, <1>6, <1>7

(* The snapshot is replaced.                                               *)
LEMMA StoreStep ==
  ASSUME IInv, NEW c \in Calls, Store(c)
  PROVE  IInv'
<1> USE CacheAssumption DEF IInv, Store, End, Move, tableVars, callVars
<1>1. TypeOK'
  <2>1. ttl \in Nat /\ started[c] \in Nat /\ rows[c] \in Versions
    BY DEF TypeOK
  <2>2. snapshot' \in Snapshots
    BY <2>1 DEF Snapshots
  <2>3. QED  BY <2>2 DEF TypeOK, Pc, Refreshing
<1>2. OneRefresher'
  BY DEF TypeOK, OneRefresher, Refreshing
<1>3. Times'
  BY DEF TypeOK, Times, Snapshots
<1>4. OpenCalls'
  BY DEF TypeOK, OpenCalls
<1>5. RowsCurrent'
  BY DEF TypeOK, RowsCurrent, Sound, CurrentSince, Snapshots
<1>6. Ahead'
  <2>1. rows[c] <= version
    BY DEF Ahead
  <2>2. ASSUME NEW e \in Calls, pc'[e] \in {"decide", "load", "read"} PROVE FALSE
    BY <2>2 DEF TypeOK, OneRefresher, Refreshing
  <2>3. QED  BY <2>1, <2>2 DEF TypeOK, Ahead
<1>7. FreshEnough'
  <2>1. /\ rows[c] \in Versions /\ started[c] \in Int /\ arrived[c] - ttl \in Int
        /\ arrived[c] - ttl <= started[c]
    BY DEF TypeOK, Times
  <2>2. CurrentSince(rows[c], arrived[c] - ttl)
    BY <2>1, CurrentSinceEarlier DEF RowsCurrent
  <2>3. QED  BY <2>2 DEF TypeOK, CurrentSince, FreshEnough
<1>8. QED  BY <1>1, <1>2, <1>3, <1>4, <1>5, <1>6, <1>7

(* The error is raised.                                                    *)
LEMMA LoadErrorStep ==
  ASSUME IInv, NEW c \in Calls, LoadError(c)
  PROVE  IInv'
<1> USE CacheAssumption DEF IInv, LoadError, End, Move, tableVars, callVars
<1>1. TypeOK'
  BY DEF TypeOK, Snapshots, Versions, Pc, Refreshing
<1>2. OneRefresher'
  BY DEF TypeOK, OneRefresher, Refreshing
<1>3. Times'
  BY DEF TypeOK, Times, Snapshots
<1>4. OpenCalls'
  BY DEF TypeOK, OpenCalls
<1>5. RowsCurrent'
  BY DEF TypeOK, RowsCurrent, Sound, CurrentSince, Snapshots
<1>6. Ahead'
  BY DEF TypeOK, OneRefresher, Times, Ahead, Refreshing, Snapshots, Versions
<1>7. FreshEnough'
  BY DEF TypeOK, Times, RowsCurrent, Sound, CurrentSince, OpenCalls, FreshEnough, Snapshots, Versions
<1>8. QED  BY <1>1, <1>2, <1>3, <1>4, <1>5, <1>6, <1>7

LEMMA NextIInv == IInv /\ [Next]_vars => IInv'
<1> SUFFICES ASSUME IInv, [Next]_vars PROVE IInv'
  OBVIOUS
<1>1. CASE Tick
  BY <1>1, TickStep
<1>2. CASE Change
  BY <1>2, ChangeStep
<1>3. ASSUME NEW c \in Calls, Step(c) PROVE IInv'
  BY <1>3, GetStep, LoadDirectStep, ReadSnapshotStep, HitStep, MissStep, AcquireStep,
     TimeOutStep, HitAfterWaitStep, StartLoadStep, LoadStep, StoreStep, LoadErrorStep
     DEF Step
<1>4. CASE UNCHANGED vars
  BY <1>4 DEF vars, tableVars, callVars, IInv, TypeOK, OneRefresher, Times, OpenCalls,
     RowsCurrent, Sound, CurrentSince, Ahead, FreshEnough
<1>5. QED  BY <1>1, <1>2, <1>3, <1>4 DEF Next

(* The inductive invariant holds.                                          *)
THEOREM InductiveInvariant == Spec => []IInv
<1>1. QED  BY InitIInv, NextIInv, PTL DEF Spec

(* Every variable keeps its type.                                          *)
THEOREM TypeCorrect == Spec => []TypeOK
<1>1. IInv => TypeOK
  BY DEF IInv
<1>2. QED  BY <1>1, InductiveInvariant, PTL

(* At any moment at most one thread refreshes the snapshot, the holder of  *)
(* the refresh lock.                                                       *)
THEOREM SingleRefresh == Spec => []OneRefresher
<1>1. IInv => OneRefresher
  BY DEF IInv
<1>2. QED  BY <1>1, InductiveInvariant, PTL

(* No page shows a catalogue staler than ttl seconds when it was requested.*)
THEOREM BoundedStaleness == Spec => []FreshEnough
<1>1. IInv => FreshEnough
  BY DEF IInv
<1>2. QED  BY <1>1, InductiveInvariant, PTL

(* Only Store writes the snapshot, and what it stores is not older.        *)
LEMMA StepMovesForward ==
  ASSUME IInv, [Next]_vars
  PROVE  snapshot'.rows >= snapshot.rows /\ snapshot'.expires >= snapshot.expires
<1>1. ASSUME NEW c \in Calls, Store(c)
      PROVE  snapshot'.rows >= snapshot.rows /\ snapshot'.expires >= snapshot.expires
  BY <1>1 DEF IInv, Ahead, TypeOK, Store, End, Move, Snapshots
<1>2. ASSUME snapshot' = snapshot
      PROVE  snapshot'.rows >= snapshot.rows /\ snapshot'.expires >= snapshot.expires
  BY <1>2 DEF IInv, TypeOK, Snapshots, Versions
<1>3. snapshot' = snapshot \/ \E c \in Calls : Store(c)
  BY DEF Next, Step, Tick, Change, Get, LoadDirect, ReadSnapshot, Hit, HitFrom, Miss, Acquire,
     TimeOut, HitAfterWait, StartLoad, Load, LoadError, vars
<1>4. QED  BY <1>1, <1>2, <1>3

(* The snapshot never returns to an older catalogue or an earlier expiry.  *)
THEOREM ForwardOnly == Spec => SnapshotMovesForward
<1>1. IInv /\ [Next]_vars
        => [snapshot'.rows >= snapshot.rows /\ snapshot'.expires >= snapshot.expires]_vars
  BY StepMovesForward
<1>2. QED  BY <1>1, InductiveInvariant, PTL DEF Spec, SnapshotMovesForward
=============================================================================
