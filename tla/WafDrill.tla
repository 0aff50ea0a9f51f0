------------------------------ MODULE WafDrill ------------------------------
(***************************************************************************)
(* The WAF drill of the live lab (platform/live-lab/scripts/               *)
(* verify_waf_live.py): one run sets the session's drill rule to Count,    *)
(* then to Block, shows the effect of each with probes and metrics, and    *)
(* gives the rule its original action back.  UpdateWebACL replaces the     *)
(* whole ACL; only its LockToken protects the settings of other operators. *)
(* A write may be applied although its reply is lost, and a write that was *)
(* given up may still arrive.                                              *)
(***************************************************************************)
EXTENDS Integers

CONSTANTS
  WafAttempts,  \* --attempts and --evidence-polls
  WafEdits      \* bound: changes of other operators

ASSUME WafAssumption == WafAttempts \in Nat \ {0} /\ WafEdits \in Nat

VARIABLES
  acl,          \* the ACL: action of the drill rule, version of the other settings, LockToken
  scoped,       \* cluster, ALB and ACL are still the approved session's, and no one else's
  edits,        \* changes other operators made so far
  wafPc,
  snap,         \* what read() returned last
  original, owned, pending,  \* the drill's attributes of these names
  mode,         \* the phase that runs
  left,         \* probes or polls that are left
  raising,      \* an exception passes through the finally of run()
  flight,       \* writes that were given up and may still arrive
  restoration, status,       \* of the report
  afterwards,   \* the rule was set after the drill had ended
  cut           \* a signal ended the run just before its try or its restore()

wafVars == <<acl, scoped, edits, wafPc, snap, original, owned, pending, mode, left,
             raising, flight, restoration, status, afterwards, cut>>
reportVars == <<restoration, status, cut>>
ruleVars == <<original, owned, pending>>
phaseVars == <<mode, left, raising>>
drillVars == <<snap, ruleVars, phaseVars, reportVars>>
awsVars == <<acl, scoped, edits, flight, afterwards>>

Modes == {"Count", "Block"}
Unset == "None"
(* "Unsafe" stands for every action or statement validate_rule refuses.    *)
Rules == Modes \union {"Unsafe"}
Settings == [rule : Rules, others : Nat, token : Nat]
InTry == {"change", "write", "probe", "poll"}
InRestore == {"restore", "reread", "rewrite", "confirm"}
WafEnded == {"ended", "killed"}

WafTypeOK ==
  /\ acl \in Settings /\ scoped \in BOOLEAN /\ edits \in 0..WafEdits
  /\ wafPc \in {"idle", "preflight"} \union InTry \union InRestore \union WafEnded
  /\ snap \in Settings
  /\ original \in Modes \union {Unset}
  /\ owned \in Modes \union {Unset}
  /\ pending \in Modes \union {Unset}
  /\ mode \in Modes /\ left \in 0..WafAttempts
  /\ flight \in SUBSET Settings /\ raising \in BOOLEAN
  /\ restoration \in {"not_needed", "recovery_required", "verified"}
  /\ status \in {"failed", "passed"}
  /\ afterwards \in BOOLEAN /\ cut \in BOOLEAN

WafInit ==
  /\ acl = [rule |-> "Count", others |-> 0, token |-> 0]
  /\ scoped = TRUE /\ edits = 0
  /\ wafPc = "idle" /\ snap = acl
  /\ original = Unset /\ owned = Unset /\ pending = Unset
  /\ mode = "Count" /\ left = 0
  /\ raising = FALSE /\ flight = {}
  /\ restoration = "not_needed" /\ status = "failed"
  /\ afterwards = FALSE /\ cut = FALSE

(***************************************************************************)
(* The ACL in AWS                                                          *)
(***************************************************************************)

(* Another operator, or Terraform, writes the ACL.                         *)
OtherEdit(rule) ==
  /\ edits < WafEdits /\ edits' = edits + 1
  /\ acl' = [rule |-> rule, others |-> acl.others + 1, token |-> acl.token + 1]
  /\ afterwards' = (afterwards \/ (wafPc \in WafEnded /\ rule # acl.rule))
  /\ UNCHANGED <<scoped, wafPc, drillVars, flight>>

(* A tag, the association or the listener's address changes, or is         *)
(* repaired.                                                               *)
ScopeEdit ==
  /\ edits < WafEdits /\ edits' = edits + 1
  /\ scoped' = ~scoped
  /\ UNCHANGED <<acl, wafPc, drillVars, flight, afterwards>>

Accepts(request) == request.token = acl.token

(* UpdateWebACL replaces everything with the request's content.            *)
Put(request) ==
  /\ Accepts(request)
  /\ acl' = [request EXCEPT !.token = acl.token + 1]

(* A write the drill gave up arrives.                                      *)
LateArrival(request) ==
  /\ flight' = flight \ {request}
  /\ \/ Put(request) /\ afterwards' = (afterwards \/ wafPc \in WafEnded)
     \/ ~Accepts(request) /\ UNCHANGED <<acl, afterwards>>
  /\ UNCHANGED <<scoped, edits, wafPc, drillVars>>

(***************************************************************************)
(* The drill                                                               *)
(***************************************************************************)
Goto(from, to) == wafPc = from /\ wafPc' = to

(* scope(): identities, tags, and an ACL associated with this ALB alone.   *)
Scope == scoped

(* read() with validate_rule.                                              *)
Read == acl.rule \in Modes /\ snap' = acl

(* payload(): all that was read with another action and the token it was   *)
(* read with.                                                              *)
PayloadWithNewToken(rule) == [snap EXCEPT !.rule = rule, !.token = acl.token]

Payload(rule) == [snap EXCEPT !.rule = rule]

(* A write without an answer: applied, lost, or still on its way.          *)
Unanswered(request) ==
  /\ \/ Put(request) /\ UNCHANGED flight
     \/ UNCHANGED <<acl, flight>>
     \/ flight' = flight \union {request} /\ UNCHANGED acl
  /\ UNCHANGED <<scoped, edits, afterwards>>

WafStart ==
  /\ Goto("idle", "preflight")
  /\ UNCHANGED <<awsVars, drillVars>>

Preflight ==
  /\ Scope /\ Read
  /\ original' = acl.rule /\ owned' = acl.rule
  /\ Goto("preflight", "change")
  /\ UNCHANGED <<awsVars, pending, phaseVars, reportVars>>

(* scope() or read() refuses, AWS fails, a signal: nothing to restore.     *)
PreflightFails ==
  /\ Goto("preflight", "ended")
  /\ UNCHANGED <<awsVars, drillVars>>

(* The first part of change(): a fresh read, compared with what the drill  *)
(* left.                                                                   *)
ReadForChange ==
  /\ Scope /\ Read /\ acl.rule = owned
  /\ \/ acl.rule = mode /\ Goto("change", "probe") /\ left' = WafAttempts
     \/ acl.rule # mode /\ Goto("change", "write") /\ UNCHANGED left
  /\ UNCHANGED <<awsVars, ruleVars, mode, raising, reportVars>>

ChangeApplied ==
  /\ Put(Payload(mode))
  /\ Goto("write", "probe") /\ left' = WafAttempts
  /\ owned' = mode /\ pending' = Unset
  /\ UNCHANGED <<scoped, edits, flight, afterwards, snap, original, mode, raising, reportVars>>

(* Only WAFOptimisticLockException says that the write did not apply.      *)
ChangeFails ==
  /\ \/ /\ ~Accepts(Payload(mode)) /\ pending' = Unset
        /\ UNCHANGED awsVars
     \/ Unanswered(Payload(mode)) /\ pending' = mode
  /\ Goto("write", "restore") /\ raising' = TRUE
  /\ UNCHANGED <<snap, original, owned, mode, left, reportVars>>

(* A round of phase(): the rule is still ours, and the two probes show the *)
(* expected answer or not yet.                                             *)
Probe ==
  /\ Scope /\ Read /\ acl.rule = owned
  /\ \/ Goto("probe", "poll") /\ left' = WafAttempts
     \/ left > 1 /\ left' = left - 1 /\ wafPc = "probe" /\ UNCHANGED wafPc
  /\ UNCHANGED <<awsVars, ruleVars, mode, raising, reportVars>>

(* Samples and metrics are there, or not yet; after Count comes Block.     *)
Poll ==
  /\ \/ mode = "Count" /\ Goto("poll", "change") /\ mode' = "Block" /\ UNCHANGED left
     \/ mode = "Block" /\ Goto("poll", "restore") /\ UNCHANGED <<mode, left>>
     \/ left > 1 /\ left' = left - 1 /\ wafPc = "poll" /\ UNCHANGED <<wafPc, mode>>
  /\ UNCHANGED <<awsVars, snap, ruleVars, raising, reportVars>>

(* Every other exception of the phases: scope, an edited rule, a probe, the *)
(* last attempt, a signal; the finally of run() calls restore().           *)
PhaseFails ==
  /\ wafPc \in InTry /\ wafPc' = "restore"
  /\ raising' = TRUE
  /\ UNCHANGED <<awsVars, snap, ruleVars, mode, left, reportVars>>

(***************************************************************************)
(* restore(), in the finally of run()                                      *)
(***************************************************************************)
Ours(rule) == rule \in {original, owned, pending}

(* The drill never wrote, it believes.                                     *)
EnterRestoreIfOwned ==
  /\ \/ owned # original /\ Goto("restore", "reread") /\ restoration' = "recovery_required"
     \/ owned = original /\ Goto("restore", "ended") /\ UNCHANGED restoration
  /\ UNCHANGED <<awsVars, snap, ruleVars, phaseVars, status, cut>>

EnterRestore ==
  /\ Goto("restore", "reread")
  /\ restoration' = "recovery_required"
  /\ UNCHANGED <<awsVars, snap, ruleVars, phaseVars, status, cut>>

(* A fresh read: only an action the drill knows may be replaced.           *)
ReadForRestoreUnchecked ==
  /\ Scope /\ Read
  /\ Goto("reread", IF acl.rule = original THEN "confirm" ELSE "rewrite")
  /\ UNCHANGED <<awsVars, ruleVars, phaseVars, reportVars>>

ReadForRestore ==
  /\ Scope /\ Read /\ Ours(acl.rule)
  /\ Goto("reread", IF acl.rule = original THEN "confirm" ELSE "rewrite")
  /\ UNCHANGED <<awsVars, ruleVars, phaseVars, reportVars>>

RestoreApplied ==
  /\ Put(Payload(original))
  /\ Goto("rewrite", "confirm")
  /\ UNCHANGED <<scoped, edits, flight, afterwards, drillVars>>

RestoreUnanswered ==
  /\ Unanswered(Payload(original))
  /\ Goto("rewrite", "ended")
  /\ UNCHANGED drillVars

(* Scope, a read or a token fails, the rule is not as it should be, or a   *)
(* signal, after the report said recovery_required.                        *)
RestoreFails ==
  /\ wafPc \in InRestore \ {"restore"} /\ wafPc' = "ended"
  /\ UNCHANGED <<awsVars, drillVars>>

(* The first signal raises wherever it arrives: also between the read of   *)
(* the original and the try, and after the try before restore() has set    *)
(* recovery_required, where nothing handles it any more.                   *)
CutShort ==
  /\ wafPc = "restore" \/ (wafPc = "change" /\ mode = "Count")
  /\ wafPc' = "ended" /\ cut' = TRUE
  /\ UNCHANGED <<awsVars, snap, ruleVars, phaseVars, restoration, status>>

(* The read-back; the run passes if restore() was reached without an       *)
(* exception and no signal comes before the report.                        *)
Confirm ==
  /\ Read /\ acl.rule = original
  /\ Goto("confirm", "ended")
  /\ restoration' = "verified"
  /\ status' \in IF raising THEN {"failed"} ELSE {"failed", "passed"}
  /\ UNCHANGED <<awsVars, ruleVars, phaseVars, cut>>

(* SIGKILL or the loss of the host: no restore() and no report.            *)
WafKilled ==
  /\ wafPc \in InTry \union InRestore /\ wafPc' = "killed"
  /\ UNCHANGED <<awsVars, drillVars>>

----------------------------------------------------------------------------
WafStep ==
  \/ Preflight \/ PreflightFails
  \/ ReadForChange \/ ChangeApplied \/ ChangeFails
  \/ Probe \/ Poll \/ PhaseFails
  \/ EnterRestore \/ ReadForRestore
  \/ RestoreApplied \/ RestoreUnanswered \/ RestoreFails \/ Confirm

WafEnvironment ==
  \/ \E rule \in Rules : OtherEdit(rule)
  \/ ScopeEdit
  \/ \E request \in flight : LateArrival(request)
  \/ WafStart
  \/ CutShort \/ WafKilled

WafNext == WafStep \/ WafEnvironment

WafSpec == WafInit /\ [][WafNext]_wafVars /\ WF_wafVars(WafStep)

----------------------------------------------------------------------------
(* The settings of other operators never go back to an older version:      *)
(* no write of the drill, however late, carries content that was read      *)
(* before somebody else's write.                                           *)
WafSettingsKept == [][acl'.others >= acl.others]_wafVars

(* The drill replaces the rule's action only when the action it replaces   *)
(* is the original, one it set, or the one whose write got no answer; an   *)
(* edit of somebody else that set another one stands.                      *)
WafForeignKept ==
  [][acl'.rule # acl.rule /\ edits' = edits
       => acl.rule \in {original, owned, pending}]_wafVars

(* A run that ends by itself and leaves the rule with another action than  *)
(* the original says so, whether or not its last write was answered: it    *)
(* never passes, and it reports recovery_required unless a signal came in  *)
(* the instant before restore() could note it.  A passed run has verified  *)
(* the restoration.                                                        *)
WafLeftoverReported ==
  wafPc = "ended" =>
    /\ status = "passed" => restoration = "verified"
    /\ original # Unset /\ acl.rule # original /\ ~afterwards
         => status = "failed" /\ (restoration = "recovery_required" \/ cut)

(* A run ends, whatever the probes, the metrics and the other operators    *)
(* do: every loop of it is bounded.                                        *)
WafBegan == wafPc = "preflight"
WafOver == wafPc \in WafEnded
WafEnds == WafBegan ~> WafOver
=============================================================================
