--------------------------- MODULE WafDrillProofs ---------------------------
(* Theorems about WafDrill for any number of attempts and of edits by      *)
(* others.                                                                 *)
EXTENDS WafDrill, TLAPS

(* A request that still passes the test of the LockToken carries the       *)
(* settings of the others as they are, and the rule it would replace is    *)
(* one that the drill may replace.                                         *)
UpToDate(request) ==
  /\ request.token <= acl.token
  /\ request.token = acl.token => request.others = acl.others /\ Ours(acl.rule)

(* What was read is the ACL as long as its LockToken is.                   *)
Tokens ==
  /\ snap.token <= acl.token
  /\ snap.token = acl.token => snap = acl
  /\ \A request \in flight : UpToDate(request)

(* What is known of the rule at each point of the drill; only a run that   *)
(* gave up has writes on their way.                                        *)
KnownRules ==
  /\ wafPc \in {"idle", "preflight"} => original = Unset
  /\ wafPc \in InTry \union InRestore => original \in Modes /\ owned \in Modes
  /\ wafPc \in {"idle", "preflight"} \union InTry => flight = {}
  /\ wafPc = "write" => snap.rule = owned
  /\ wafPc = "rewrite" => Ours(snap.rule)

(* The report says recovery_required from the first step of restore() on.  *)
Reports ==
  /\ wafPc # "ended" => status = "failed"
  /\ wafPc \in InRestore \ {"restore"} => restoration = "recovery_required"

WafIInv ==
  /\ WafTypeOK
  /\ Tokens
  /\ KnownRules
  /\ Reports
  /\ WafLeftoverReported

LEMMA WafInitIInv == WafInit => WafIInv
<1> SUFFICES ASSUME WafInit PROVE WafIInv
  OBVIOUS
<1>1. WafTypeOK
  <2>1. acl \in Settings /\ snap \in Settings
    BY DEF WafInit, Settings, Rules, Modes
  <2>2. edits \in 0..WafEdits /\ left \in 0..WafAttempts
    BY WafAssumption DEF WafInit
  <2>3. QED  BY <2>1, <2>2 DEF WafInit, WafTypeOK, Modes
<1>2. Tokens
  BY DEF WafInit, Tokens
<1>3. KnownRules /\ Reports /\ WafLeftoverReported
  BY DEF WafInit, KnownRules, Reports, WafLeftoverReported, InTry, InRestore
<1>4. QED  BY <1>1, <1>2, <1>3 DEF WafIInv

(***************************************************************************)
(* Writes                                                                  *)
(***************************************************************************)
(* An accepted write keeps the others' settings and replaces a rule that   *)
(* the drill may replace; afterwards no earlier read and no earlier        *)
(* request is accepted any more.                                           *)
LEMMA PutAccepted ==
  ASSUME WafTypeOK, Tokens, NEW request \in Settings, UpToDate(request), Put(request)
  PROVE  /\ acl' \in Settings /\ acl'.rule = request.rule
         /\ acl'.others = acl.others /\ Ours(acl.rule)
         /\ acl'.token = acl.token + 1
         /\ snap.token < acl'.token
         /\ \A other \in flight : other.token < acl'.token
BY DEF WafTypeOK, Tokens, UpToDate, Put, Accepts, Settings

(* A write of what was read is up to date if what was read may be replaced.*)
LEMMA PayloadUpToDate ==
  ASSUME WafTypeOK, Tokens, NEW rule \in Rules, Ours(snap.rule)
  PROVE  Payload(rule) \in Settings /\ Payload(rule).rule = rule /\ UpToDate(Payload(rule))
BY DEF WafTypeOK, Tokens, Settings, Payload, UpToDate

(* Whatever becomes of a write without an answer, it is up to date for as  *)
(* long as it is on its way.                                               *)
LEMMA UnansweredKeepsTokens ==
  ASSUME WafTypeOK, Tokens, NEW request \in Settings, UpToDate(request), Unanswered(request),
         snap' = snap, original' = original, owned' = owned,
         pending' = pending \/ acl.rule \in {original, owned} \/ request.token # acl.token,
         pending' = pending \/ flight = {}
  PROVE  acl' \in Settings /\ flight' \subseteq Settings /\ Tokens'
<1>1. CASE Put(request) /\ flight' = flight
  <2>1. acl' \in Settings /\ snap.token < acl'.token
        /\ \A other \in flight : other.token < acl'.token
    BY <1>1, PutAccepted
  <2>2. QED  BY <1>1, <2>1 DEF WafTypeOK, Tokens, UpToDate, Settings
<1>2. CASE acl' = acl /\ flight' \subseteq flight \union {request}
  BY <1>2 DEF WafTypeOK, Tokens, UpToDate, Ours
<1>3. QED  BY <1>1, <1>2 DEF Unanswered

(***************************************************************************)
(* AWS and its other users                                                 *)
(***************************************************************************)
(* An edit by somebody else makes every read and every request too old.    *)
LEMMA OtherEditStep ==
  ASSUME WafIInv, NEW rule \in Rules, OtherEdit(rule)
  PROVE  WafIInv'
<1> USE WafAssumption DEF OtherEdit, drillVars, ruleVars, phaseVars, reportVars
<1>1. WafTypeOK'
  BY DEF WafIInv, WafTypeOK, Settings
<1>2. Tokens'
  BY DEF WafIInv, WafTypeOK, Tokens, UpToDate, Settings
<1>3. KnownRules' /\ Reports'
  BY DEF WafIInv, KnownRules, Reports, Ours
<1>4. WafLeftoverReported'
  BY DEF WafIInv, WafLeftoverReported, WafEnded
<1>5. QED  BY <1>1, <1>2, <1>3, <1>4 DEF WafIInv

(* A late write arrives: it is accepted only if nobody wrote since.        *)
LEMMA LateArrivalStep ==
  ASSUME WafIInv, NEW request \in flight, LateArrival(request)
  PROVE  WafIInv'
<1> USE DEF LateArrival, drillVars, ruleVars, phaseVars, reportVars
<1>1. request \in Settings /\ UpToDate(request)
  BY DEF WafIInv, WafTypeOK, Tokens
<1>2. CASE Put(request) /\ afterwards' = (afterwards \/ wafPc \in WafEnded)
  <2>1. /\ acl' \in Settings /\ snap.token < acl'.token
        /\ \A other \in flight : other.token < acl'.token
    BY <1>1, <1>2, PutAccepted DEF WafIInv
  <2>2. WafTypeOK'
    BY <1>2, <2>1 DEF WafIInv, WafTypeOK
  <2>3. Tokens'
    BY <2>1 DEF WafIInv, WafTypeOK, Tokens, UpToDate, Settings
  <2>4. KnownRules' /\ Reports'
    BY DEF WafIInv, KnownRules, Reports, Ours
  <2>5. WafLeftoverReported'
    BY <1>2 DEF WafIInv, WafLeftoverReported, WafEnded
  <2>6. QED  BY <2>2, <2>3, <2>4, <2>5 DEF WafIInv
<1>3. CASE UNCHANGED <<acl, afterwards>>
  BY <1>3 DEF WafIInv, WafTypeOK, Tokens, UpToDate, KnownRules, Reports, WafLeftoverReported, Ours
<1>4. QED  BY <1>2, <1>3

(***************************************************************************)
(* Steps of the drill                                                      *)
(***************************************************************************)
(* A step that writes nothing and at most reads the ACL.                   *)
LEMMA ReadingKeepsTokens ==
  ASSUME WafTypeOK, Tokens, UNCHANGED awsVars, snap' \in {snap, acl},
         UNCHANGED ruleVars \/ flight = {}
  PROVE  snap' \in Settings /\ Tokens'
BY DEF WafTypeOK, Tokens, UpToDate, Ours, awsVars, ruleVars, Settings

LEMMA PreflightStep ==
  ASSUME WafIInv, Preflight
  PROVE  WafIInv'
<1> USE DEF Preflight, Goto, Read, phaseVars, reportVars
<1>1. snap' \in Settings /\ Tokens'
  BY ReadingKeepsTokens DEF WafIInv, KnownRules
<1>2. WafTypeOK'
  BY <1>1 DEF WafIInv, WafTypeOK, awsVars, InTry
<1>3. KnownRules'
  BY DEF WafIInv, KnownRules, InTry, InRestore, awsVars
<1>4. Reports' /\ WafLeftoverReported'
  BY DEF WafIInv, Reports, WafLeftoverReported, InRestore
<1>5. QED  BY <1>1, <1>2, <1>3, <1>4 DEF WafIInv

(* Every step in the try that goes on reads the rule as the drill left it. *)
LEMMA TryStep ==
  ASSUME WafIInv, ReadForChange \/ Probe \/ Poll
  PROVE  WafIInv'
<1> USE WafAssumption DEF ReadForChange, Probe, Poll, Goto, Read
<1>1. snap' \in Settings /\ Tokens'
  BY ReadingKeepsTokens DEF WafIInv
<1>2. WafTypeOK'
  <2>1. left' \in 0..WafAttempts
    BY DEF WafIInv, WafTypeOK
  <2>2. mode' \in Modes /\ wafPc' \in InTry \union InRestore
    BY DEF WafIInv, WafTypeOK, InTry, InRestore, Modes
  <2>3. UNCHANGED <<acl, scoped, edits, flight, afterwards, original, owned, pending, raising,
                    restoration, status, cut>>
    BY DEF awsVars, ruleVars, reportVars
  <2>4. QED  BY <1>1, <2>1, <2>2, <2>3 DEF WafIInv, WafTypeOK
<1>3. KnownRules'
  BY DEF WafIInv, KnownRules, InTry, InRestore, awsVars, ruleVars
<1>4. Reports' /\ WafLeftoverReported'
  BY DEF WafIInv, Reports, WafLeftoverReported, InRestore, reportVars
<1>5. QED  BY <1>1, <1>2, <1>3, <1>4 DEF WafIInv

LEMMA ChangeAppliedStep ==
  ASSUME WafIInv, ChangeApplied
  PROVE  WafIInv'
<1> USE WafAssumption DEF ChangeApplied, Goto, reportVars
<1>1. snap.rule = owned /\ mode \in Rules /\ flight = {}
  BY DEF WafIInv, WafTypeOK, KnownRules, InTry, Rules
<1>2. acl' \in Settings /\ snap.token < acl'.token
  BY <1>1, PayloadUpToDate, PutAccepted DEF WafIInv, Ours
<1>3. WafTypeOK'
  BY <1>2 DEF WafIInv, WafTypeOK, InTry
<1>4. Tokens'
  BY <1>1, <1>2 DEF WafIInv, WafTypeOK, Tokens, Settings
<1>5. KnownRules'
  BY <1>1 DEF WafIInv, WafTypeOK, KnownRules, InTry, InRestore
<1>6. Reports' /\ WafLeftoverReported'
  BY DEF WafIInv, Reports, WafLeftoverReported, InRestore
<1>7. QED  BY <1>3, <1>4, <1>5, <1>6 DEF WafIInv

LEMMA ChangeFailsStep ==
  ASSUME WafIInv, ChangeFails
  PROVE  WafIInv'
<1> USE DEF ChangeFails, Goto, reportVars
<1>1. snap.rule = owned /\ mode \in Rules /\ flight = {}
  BY DEF WafIInv, WafTypeOK, KnownRules, InTry, Rules
<1>2. acl' \in Settings /\ flight' \subseteq Settings /\ Tokens'
  <2>1. CASE UNCHANGED awsVars
    BY <1>1, <2>1 DEF WafIInv, WafTypeOK, Tokens, awsVars
  <2>2. CASE Unanswered(Payload(mode))
    <3>1. Payload(mode) \in Settings /\ UpToDate(Payload(mode))
      BY <1>1, PayloadUpToDate DEF WafIInv, Ours
    <3>2. acl.rule = owned \/ Payload(mode).token # acl.token
      BY <1>1 DEF WafIInv, WafTypeOK, Tokens, Payload, Settings
    <3>3. QED  BY <1>1, <2>2, <3>1, <3>2, UnansweredKeepsTokens DEF WafIInv
  <2>3. QED  BY <2>1, <2>2
<1>3. WafTypeOK'
  BY <1>2 DEF WafIInv, WafTypeOK, InRestore, Unanswered, awsVars
<1>4. KnownRules'
  BY DEF WafIInv, KnownRules, InTry, InRestore
<1>5. Reports' /\ WafLeftoverReported'
  BY DEF WafIInv, Reports, WafLeftoverReported, InRestore
<1>6. QED  BY <1>2, <1>3, <1>4, <1>5 DEF WafIInv

(* Steps that only move the drill: its start, an exception, a kill, a      *)
(* signal that nothing handles, a failed preflight or restoration.         *)
LEMMA MoveStep ==
  ASSUME WafIInv,
         \/ WafStart \/ PreflightFails \/ PhaseFails \/ EnterRestore \/ RestoreFails
         \/ CutShort \/ WafKilled
  PROVE  WafIInv'
<1> USE DEF WafStart, PreflightFails, PhaseFails, EnterRestore, RestoreFails, CutShort,
       WafKilled, Goto
<1>1. Tokens'
  BY ReadingKeepsTokens DEF WafIInv, drillVars, ruleVars
<1>2. WafTypeOK'
  BY DEF WafIInv, WafTypeOK, awsVars, drillVars, ruleVars, phaseVars, reportVars, InRestore,
         WafEnded
<1>3. KnownRules'
  BY DEF WafIInv, KnownRules, InTry, InRestore, awsVars, drillVars, ruleVars
<1>4. Reports' /\ WafLeftoverReported'
  BY DEF WafIInv, KnownRules, Reports, WafLeftoverReported, InTry, InRestore, WafEnded, drillVars,
         ruleVars, reportVars
<1>5. QED  BY <1>1, <1>2, <1>3, <1>4 DEF WafIInv

LEMMA ReadForRestoreStep ==
  ASSUME WafIInv, ReadForRestore
  PROVE  WafIInv'
<1> USE DEF ReadForRestore, Goto, Read, phaseVars, reportVars
<1>1. snap' \in Settings /\ Tokens'
  BY ReadingKeepsTokens DEF WafIInv
<1>2. WafTypeOK'
  BY <1>1 DEF WafIInv, WafTypeOK, awsVars, ruleVars, InRestore
<1>3. KnownRules'
  BY DEF WafIInv, KnownRules, InTry, InRestore, Ours, awsVars, ruleVars
<1>4. Reports' /\ WafLeftoverReported'
  BY DEF WafIInv, Reports, WafLeftoverReported, InRestore
<1>5. QED  BY <1>1, <1>2, <1>3, <1>4 DEF WafIInv

LEMMA RewriteStep ==
  ASSUME WafIInv, RestoreApplied \/ RestoreUnanswered
  PROVE  WafIInv'
<1> USE DEF RestoreApplied, RestoreUnanswered, Goto, drillVars, ruleVars, phaseVars, reportVars
<1>1. original \in Rules /\ Ours(snap.rule)
  BY DEF WafIInv, KnownRules, InRestore, Rules
<1>2. Payload(original) \in Settings /\ UpToDate(Payload(original))
  BY <1>1, PayloadUpToDate DEF WafIInv
<1>3. acl' \in Settings /\ flight' \subseteq Settings /\ Tokens'
  <2>1. CASE RestoreApplied
    <3>1. /\ acl' \in Settings /\ snap.token < acl'.token
          /\ \A other \in flight : other.token < acl'.token
      BY <1>2, <2>1, PutAccepted DEF WafIInv
    <3>2. QED  BY <2>1, <3>1 DEF WafIInv, WafTypeOK, Tokens, UpToDate, Settings
  <2>2. CASE RestoreUnanswered
    BY <1>2, <2>2, UnansweredKeepsTokens DEF WafIInv
  <2>3. QED  BY <2>1, <2>2
<1>4. WafTypeOK'
  BY <1>3 DEF WafIInv, WafTypeOK, Unanswered, InRestore, WafEnded
<1>5. KnownRules'
  BY DEF WafIInv, KnownRules, InTry, InRestore
<1>6. Reports' /\ WafLeftoverReported'
  BY DEF WafIInv, Reports, WafLeftoverReported, InRestore
<1>7. QED  BY <1>3, <1>4, <1>5, <1>6 DEF WafIInv

(* The read-back saw the original action, and whoever changes it after the *)
(* end is remembered.                                                      *)
LEMMA ConfirmStep ==
  ASSUME WafIInv, Confirm
  PROVE  WafIInv'
<1> USE DEF Confirm, Goto, Read
<1>1. snap' \in Settings /\ Tokens'
  BY ReadingKeepsTokens DEF WafIInv
<1>2. WafTypeOK'
  <2>1. status' \in {"failed", "passed"}
    OBVIOUS
  <2>2. QED  BY <1>1, <2>1 DEF WafIInv, WafTypeOK, awsVars, ruleVars, phaseVars, WafEnded
<1>3. KnownRules'
  BY DEF WafIInv, KnownRules, InTry, InRestore
<1>4. Reports' /\ WafLeftoverReported'
  BY DEF Reports, WafLeftoverReported, InRestore, awsVars, ruleVars
<1>5. QED  BY <1>1, <1>2, <1>3, <1>4 DEF WafIInv

LEMMA WafNextIInv == WafIInv /\ [WafNext]_wafVars => WafIInv'
<1> SUFFICES ASSUME WafIInv, [WafNext]_wafVars PROVE WafIInv'
  OBVIOUS
<1>1. ASSUME NEW rule \in Rules, OtherEdit(rule) PROVE WafIInv'
  BY <1>1, OtherEditStep
<1>2. ASSUME NEW request \in flight, LateArrival(request) PROVE WafIInv'
  BY <1>2, LateArrivalStep
<1>3. CASE ScopeEdit \/ UNCHANGED wafVars
  <2>1. UNCHANGED <<acl, wafPc, drillVars, flight, afterwards>>
    BY <1>3 DEF ScopeEdit, wafVars, drillVars, ruleVars, phaseVars, reportVars
  <2>2. scoped' \in BOOLEAN
    BY <1>3 DEF ScopeEdit, wafVars, WafIInv, WafTypeOK
  <2>3. edits' \in 0..WafEdits
    BY <1>3, WafAssumption DEF ScopeEdit, wafVars, WafIInv, WafTypeOK
  <2>4. WafTypeOK'
    BY <2>1, <2>2, <2>3 DEF WafIInv, WafTypeOK, drillVars, ruleVars, phaseVars, reportVars
  <2>5. Tokens' /\ KnownRules' /\ Reports' /\ WafLeftoverReported'
    BY <2>1 DEF WafIInv, Tokens, UpToDate, KnownRules, Reports, WafLeftoverReported, Ours, drillVars,
       ruleVars, reportVars
  <2>6. QED  BY <2>4, <2>5 DEF WafIInv
<1>4. CASE WafStep \/ WafStart \/ CutShort \/ WafKilled
  BY <1>4, PreflightStep, TryStep, ChangeAppliedStep, ChangeFailsStep, MoveStep,
     ReadForRestoreStep, RewriteStep, ConfirmStep DEF WafStep
<1>5. QED  BY <1>1, <1>2, <1>3, <1>4 DEF WafNext, WafEnvironment

(***************************************************************************)
(* Theorems                                                                *)
(***************************************************************************)
(* The inductive invariant holds.                                          *)
THEOREM WafInvariant == WafSpec => []WafIInv
<1>1. QED  BY WafInitIInv, WafNextIInv, PTL DEF WafSpec

(* Every variable keeps its type.                                          *)
THEOREM WafTypeCorrect == WafSpec => []WafTypeOK
<1>1. WafIInv => WafTypeOK
  BY DEF WafIInv
<1>2. QED  BY <1>1, WafInvariant, PTL

(* A run that ended by itself left the original action or did not pass, at *)
(* whichever step it failed and whatever its writes came to; it reports    *)
(* that the recovery is due unless a signal cut it short before restore()  *)
(* could note it.                                                          *)
THEOREM LeftoverReported == WafSpec => []WafLeftoverReported
<1>1. WafIInv => WafLeftoverReported
  BY DEF WafIInv
<1>2. QED  BY <1>1, WafInvariant, PTL

(* The steps that write the ACL.                                           *)
LEMMA Writers ==
  ASSUME WafIInv, [WafNext]_wafVars
  PROVE  \/ acl' = acl
         \/ \E rule \in Rules : OtherEdit(rule)
         \/ \E request \in Settings : UpToDate(request) /\ Put(request)
<1>1. ASSUME NEW request \in flight, LateArrival(request)
      PROVE  acl' = acl \/ \E r \in Settings : UpToDate(r) /\ Put(r)
  BY <1>1 DEF LateArrival, WafIInv, WafTypeOK, Tokens
<1>2. ASSUME NEW rule \in Rules, Ours(snap.rule),
             Put(Payload(rule)) \/ Unanswered(Payload(rule))
      PROVE  acl' = acl \/ \E r \in Settings : UpToDate(r) /\ Put(r)
  BY <1>2, PayloadUpToDate DEF Unanswered, WafIInv
<1>3. ASSUME ChangeApplied \/ ChangeFails
      PROVE  acl' = acl \/ \E r \in Settings : UpToDate(r) /\ Put(r)
  <2>1. mode \in Rules /\ Ours(snap.rule)
    BY <1>3 DEF ChangeApplied, ChangeFails, Goto, WafIInv, WafTypeOK, KnownRules, Rules, Ours
  <2>2. acl' = acl \/ Put(Payload(mode)) \/ Unanswered(Payload(mode))
    BY <1>3 DEF ChangeApplied, ChangeFails, awsVars
  <2>3. QED  BY <1>2, <2>1, <2>2
<1>4. ASSUME RestoreApplied \/ RestoreUnanswered
      PROVE  acl' = acl \/ \E r \in Settings : UpToDate(r) /\ Put(r)
  <2>1. original \in Rules /\ Ours(snap.rule)
    BY <1>4 DEF RestoreApplied, RestoreUnanswered, Goto, WafIInv, KnownRules, InRestore, Rules
  <2>2. QED  BY <1>2, <1>4, <2>1 DEF RestoreApplied, RestoreUnanswered
<1>5. QED
  BY <1>1, <1>3, <1>4 DEF WafNext, WafStep, WafEnvironment, ScopeEdit, WafStart, CutShort, WafKilled,
     Preflight, PreflightFails, ReadForChange, Probe, Poll, PhaseFails, EnterRestore,
     ReadForRestore, RestoreFails, Confirm, awsVars, wafVars

(* No write of the drill, however late, brings older settings of others    *)
(* back.                                                                   *)
THEOREM SettingsKept == WafSpec => WafSettingsKept
<1>1. WafIInv /\ [WafNext]_wafVars => [acl'.others >= acl.others]_wafVars
  <2> SUFFICES ASSUME WafIInv, [WafNext]_wafVars PROVE acl'.others >= acl.others
    OBVIOUS
  <2>1. acl.others \in Nat
    BY DEF WafIInv, WafTypeOK, Settings
  <2>2. ASSUME NEW request \in Settings, UpToDate(request), Put(request)
        PROVE  acl'.others = acl.others
    BY <2>2, PutAccepted DEF WafIInv
  <2>3. QED  BY <2>1, <2>2, Writers DEF OtherEdit
<1>2. QED  BY <1>1, WafInvariant, PTL DEF WafSpec, WafSettingsKept

(* The drill, however late its writes, replaces the rule's action only if  *)
(* it is the original one or one the drill set or may have set.            *)
THEOREM ForeignKept == WafSpec => WafForeignKept
<1>1. WafIInv /\ [WafNext]_wafVars
        => [acl'.rule # acl.rule /\ edits' = edits
              => acl.rule \in {original, owned, pending}]_wafVars
  <2> SUFFICES ASSUME WafIInv, [WafNext]_wafVars, acl'.rule # acl.rule, edits' = edits
               PROVE  acl.rule \in {original, owned, pending}
    OBVIOUS
  <2>1. ASSUME NEW rule \in Rules, OtherEdit(rule) PROVE FALSE
    BY <2>1, WafAssumption DEF OtherEdit, WafIInv, WafTypeOK
  <2>2. ASSUME NEW request \in Settings, UpToDate(request), Put(request)
        PROVE  Ours(acl.rule)
    BY <2>2, PutAccepted DEF WafIInv
  <2>3. QED  BY <2>1, <2>2, Writers DEF Ours
<1>2. QED  BY <1>1, WafInvariant, PTL DEF WafSpec, WafForeignKept
=============================================================================
