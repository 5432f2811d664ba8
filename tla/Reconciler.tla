------------------------------- MODULE Reconciler -------------------------------
(***************************************************************************)
(* The drift reconciler (reconciler/reconciler.go) beside the operations   *)
(* of the same resources.                                                  *)
(*                                                                         *)
(* A pass lists the applied manifests and looks at each in turn: it asks   *)
(* the provider, loads the stored manifest, records whether they differ,   *)
(* and, for a resource that has opted in, submits an apply of what it has  *)
(* loaded.  Users' operations, strangers and the dispatcher act between    *)
(* any two of these steps.  Time is counted in passes: the ticker's        *)
(* interval is the unit of the backoff.                                    *)
(***************************************************************************)
EXTENDS Naturals, FiniteSets

CONSTANTS
  Resource,
  Composite,    \* those whose provider is a Planner
  Spec, None,
  MinBackoff, MaxBackoff,
  Scenarios     \* bounds to explore, each a record of Bounds

\* A stored manifest; auto is the annotation autoReconcile=true.
Manifest == [spec : Spec, auto : BOOLEAN]
Bounds == [submits : Nat, strangers : Nat, failures : Nat, stops : Nat]

ASSUME ReconcilerConstants ==
  /\ Composite \subseteq Resource /\ None \notin Spec \cup Manifest \cup Resource
  /\ MinBackoff \in Nat \ {0} /\ MaxBackoff \in Nat /\ MinBackoff <= MaxBackoff
  /\ Scenarios \subseteq Bounds

VARIABLES
  observed,    \* resource -> what the provider has
  stored,      \* resource -> its row of applied_manifests
  op,          \* resource -> its operation in flight
  todo,        \* resources that the pass has still to look at
  check,       \* the resource that it looks at
  driftState, backoff,
  left,        \* what remains of the scenario's bounds
  tries,       \* resource -> its failed attempts in a row (MaxBackoff for more), and passes since (history)
  applied      \* resource -> the manifest of its last successful apply (history)

worldVars == <<observed, stored, op>>
recVars == <<todo, check, driftState, backoff>>
vars == <<worldVars, recVars, left, tries, applied>>

Oper == [manifest : Manifest \cup {None}, auto : BOOLEAN, at : {"pending", "acted"}]
Check == [res : Resource, at : {"load", "submit"}, seen : Spec, want : Manifest \cup {None}]

TypeOK ==
  /\ observed \in [Resource -> Spec \cup {None}]
  /\ stored \in [Resource -> Manifest \cup {None}]
  /\ op \in [Resource -> Oper \cup {None}]
  /\ todo \subseteq Resource /\ check \in Check \cup {None}
  /\ driftState \in [Resource -> BOOLEAN \cup {None}]
  /\ backoff \in [Resource -> [current : 0..MaxBackoff, wait : 0..MaxBackoff]]
  /\ left \in Bounds
  /\ tries \in [Resource -> [failed : 0..MaxBackoff, since : 0..MaxBackoff]]
  /\ applied \in [Resource -> Manifest \cup {None}]

NoBackoff == [current |-> 0, wait |-> 0]
NoTries == [failed |-> 0, since |-> 0]

Init ==
  /\ observed = [r \in Resource |-> None] /\ stored = [r \in Resource |-> None]
  /\ op = [r \in Resource |-> None]
  /\ todo = {} /\ check = None
  /\ driftState = [r \in Resource |-> None] /\ backoff = [r \in Resource |-> NoBackoff]
  /\ left \in Scenarios
  /\ tries = [r \in Resource |-> NoTries] /\ applied = [r \in Resource |-> None]

Spend(b) == left[b] > 0 /\ left' = [left EXCEPT ![b] = @ - 1]

------------------------------------------------------------------------------
(* Operations and strangers *)

\* Submit: one operation in flight per resource.  A delete has no manifest.
UserSubmits(r, man) ==
  /\ op[r] = None
  /\ op' = [op EXCEPT ![r] = [manifest |-> man, auto |-> FALSE, at |-> "pending"]]
  /\ Spend("submits")
  /\ UNCHANGED <<observed, stored, recVars, tries, applied>>

\* tryCacheHitInline: the hash is that of the spec, not of the annotations.
CacheHit(r) ==
  /\ op[r].manifest # None /\ r \notin Composite
  /\ stored[r] # None /\ stored[r].spec = op[r].manifest.spec
  /\ observed[r] # None

Pending(r) == op[r] # None /\ op[r].at = "pending"

ServeFromCache(r) ==
  /\ Pending(r) /\ CacheHit(r)
  /\ op' = [op EXCEPT ![r] = None]
  /\ applied' = [applied EXCEPT ![r] = op[r].manifest]
  /\ UNCHANGED <<observed, stored, recVars, left, tries>>

\* What a call that succeeds leaves.  A composite plans from its own record of
\* its children, not from what Get counts, so that after an apply of one that is
\* there any part of the drift may remain.
Outcome(r) ==
  IF op[r].manifest = None THEN {None}
  ELSE IF r \in Composite /\ observed[r] # None THEN Spec
  ELSE {op[r].manifest.spec}

ProviderActs(r) ==
  /\ Pending(r) /\ ~CacheHit(r)
  /\ \E s \in Outcome(r) : observed' = [observed EXCEPT ![r] = s]
  /\ op' = [op EXCEPT ![r].at = "acted"]
  /\ UNCHANGED <<stored, recVars, left, tries, applied>>

\* A provider call that fails, before or after it has taken effect.
OperationFails(r) ==
  /\ op[r] # None /\ (Pending(r) => ~CacheHit(r))
  /\ op' = [op EXCEPT ![r] = None]
  /\ Spend("failures")
  /\ UNCHANGED <<observed, stored, recVars, tries, applied>>

\* applyExisting refuses removals and respecs that the annotations do not allow,
\* as often as it is asked.
ComposerRefuses(r) ==
  /\ Pending(r) /\ r \in Composite /\ op[r].manifest # None /\ observed[r] # None
  /\ op' = [op EXCEPT ![r] = None]
  /\ UNCHANGED <<observed, stored, recVars, left, tries, applied>>

OperationSaves(r) ==
  /\ op[r] # None /\ op[r].at = "acted"
  /\ stored' = [stored EXCEPT ![r] = op[r].manifest]
  /\ applied' = [applied EXCEPT ![r] = op[r].manifest]
  /\ op' = [op EXCEPT ![r] = None]
  /\ UNCHANGED <<observed, recVars, left, tries>>

\* Somebody clicks in the provider's own UI.
StrangerActs(r, s) ==
  /\ observed[r] \notin {None, s}
  /\ observed' = [observed EXCEPT ![r] = s]
  /\ Spend("strangers")
  /\ UNCHANGED <<stored, op, recVars, tries, applied>>

------------------------------------------------------------------------------
(* tick, reconcileOne, tryAutoApply *)

Earlier(n) == IF n = 0 THEN 0 ELSE n - 1
Later(n) == IF n = MaxBackoff THEN n ELSE n + 1

\* loop: the ticker fires, or the startup delay is over.
TickStarts ==
  /\ todo = {} /\ check = None
  /\ todo' = {r \in Resource : stored[r] # None}
  /\ backoff' = [r \in Resource |-> [backoff[r] EXCEPT !.wait = Earlier(@)]]
  /\ tries' = [r \in Resource |-> [tries[r] EXCEPT !.since = Later(@)]]
  /\ UNCHANGED <<worldVars, check, driftState, left, applied>>

Turns(r) == check = None /\ r \in todo /\ todo' = todo \ {r}

\* markAndLogIfChanged.
FaultyMarked(r, d) == IF driftState[r] = None THEN [driftState EXCEPT ![r] = d] ELSE driftState
Marked(r, d) == [driftState EXCEPT ![r] = d]

GetFinds(r) ==
  /\ Turns(r) /\ observed[r] # None
  /\ check' = [res |-> r, at |-> "load", seen |-> observed[r], want |-> None]
  /\ UNCHANGED <<worldVars, driftState, backoff, left, tries, applied>>

GetMisses(r) ==
  /\ Turns(r) /\ observed[r] = None
  /\ driftState' = Marked(r, TRUE)
  /\ UNCHANGED <<worldVars, check, backoff, left, tries, applied>>

GetFails(r) ==
  /\ Turns(r) /\ Spend("failures")
  /\ UNCHANGED <<worldVars, check, driftState, backoff, tries, applied>>

\* The row may have gone since the pass began.
LoadsNothing ==
  /\ check # None /\ check.at = "load" /\ stored[check.res] = None
  /\ check' = None
  /\ UNCHANGED <<worldVars, todo, driftState, backoff, left, tries, applied>>

Drifted(want, seen) == want.spec # seen
FaultyDue(r) == backoff[r].current = 0
Due(r) == backoff[r].wait = 0

\* Due: tryAutoApply is not held back.
Loads ==
  LET r == check.res
      want == stored[r]
      drifted == Drifted(want, check.seen)
  IN /\ check # None /\ check.at = "load" /\ want # None
     /\ driftState' = Marked(r, drifted)
     /\ check' = IF drifted /\ want.auto /\ Due(r)
                 THEN [check EXCEPT !.at = "submit", !.want = want] ELSE None
     /\ UNCHANGED <<worldVars, todo, backoff, left, tries, applied>>

Longer(n) == IF n = 0 THEN MinBackoff ELSE IF 2 * n > MaxBackoff THEN MaxBackoff ELSE 2 * n

SubmitRefused ==
  LET r == check.res
      next == Longer(backoff[r].current)
  IN /\ check # None /\ check.at = "submit" /\ op[r] # None
     /\ backoff' = [backoff EXCEPT ![r] = [current |-> next, wait |-> next]]
     /\ tries' = [tries EXCEPT ![r] = [failed |-> Later(@.failed), since |-> 0]]
     /\ check' = None
     /\ UNCHANGED <<worldVars, todo, driftState, left, applied>>

FaultyReset(r) == backoff
Reset(r) == [backoff EXCEPT ![r] = NoBackoff]

AutoSubmits ==
  LET r == check.res
  IN /\ check # None /\ check.at = "submit" /\ op[r] = None
     /\ op' = [op EXCEPT ![r] = [manifest |-> check.want, auto |-> TRUE, at |-> "pending"]]
     /\ backoff' = Reset(r)
     /\ tries' = [tries EXCEPT ![r] = NoTries]
     /\ check' = None
     /\ UNCHANGED <<observed, stored, todo, driftState, left, applied>>

\* What is running is interrupted, and is among the pending here if its provider
\* has not acted; what is queued stays; the memory is lost.
Restarts ==
  /\ Spend("stops")
  /\ \E interrupted \in SUBSET {r \in Resource : op[r] # None} :
       /\ {r \in Resource : op[r] # None /\ op[r].at = "acted"} \subseteq interrupted
       /\ op' = [r \in Resource |-> IF r \in interrupted THEN None ELSE op[r]]
  /\ todo' = {} /\ check' = None
  /\ driftState' = [r \in Resource |-> None] /\ backoff' = [r \in Resource |-> NoBackoff]
  /\ tries' = [r \in Resource |-> NoTries]
  /\ UNCHANGED <<observed, stored, applied>>

Dispatches(r) == ServeFromCache(r) \/ ProviderActs(r) \/ ComposerRefuses(r) \/ OperationSaves(r)
Gets(r) == GetFinds(r) \/ GetMisses(r)
Pass == TickStarts \/ LoadsNothing \/ Loads \/ SubmitRefused \/ AutoSubmits \/ \E r \in Resource : Gets(r)

Next ==
  \/ \E r \in Resource :
       \/ \E man \in Manifest \cup {None} : UserSubmits(r, man)
       \/ ServeFromCache(r) \/ ProviderActs(r) \/ ComposerRefuses(r) \/ OperationFails(r)
       \/ OperationSaves(r)
       \/ \E s \in Spec \cup {None} : StrangerActs(r, s)
       \/ GetFinds(r) \/ GetMisses(r) \/ GetFails(r)
  \/ TickStarts \/ LoadsNothing \/ Loads \/ SubmitRefused \/ AutoSubmits \/ Restarts

\* The ticker fires, calls return, and the dispatcher works through its queue.
ReconcilerFairness ==
  /\ WF_vars(Pass)
  /\ \A r \in Resource : WF_vars(Dispatches(r))

ReconcilerSpec == Init /\ [][Next]_vars /\ ReconcilerFairness

------------------------------------------------------------------------------
(* Properties *)

\* The wait after the k-th submission in a row that was refused.
Wait[k \in Nat] ==
  IF k <= 1 THEN MinBackoff
  ELSE IF 2 * Wait[k - 1] > MaxBackoff THEN MaxBackoff ELSE 2 * Wait[k - 1]

\* Whenever a pass finds drift on a resource that has opted in, it submits an
\* apply if and only if the wait after the submissions that were refused since
\* one was taken, or since the last start, is over: neither is a busy resource
\* tried at every pass, nor does one that is free again wait longer than it has
\* to.  The backoff counts refused submissions only; that an apply which was
\* taken fails later is another matter, see FailuresAreThrottled (tryAutoApply).
BackoffKept ==
  [][Loads /\ stored[check.res].auto /\ driftState'[check.res] =>
       (check' # None <=> LET t == tries[check.res] IN t.failed = 0 \/ t.since >= Wait[t.failed])]_vars

\* driftState comes to say the truth about every resource that has come to rest,
\* whatever the pass had read when it moved (reconcileOne, markAndLogIfChanged).
Differs(r) == observed[r] = None \/ observed[r] # stored[r].spec
DriftNoticed ==
  \A r \in Resource :
    /\ <>[](stored[r] # None /\ Differs(r)) => <>[](driftState[r] = TRUE)
    /\ <>[](stored[r] # None /\ ~Differs(r)) => <>[](driftState[r] = FALSE)

\* The reconciler does not give up: a resource that has opted in, and is there,
\* comes to rest or is given another apply, again and again.  Refused submissions
\* and their waits, stale reads, users' operations, applies that fail or change
\* nothing, and restarts only delay it (tick, reconcileOne, tryAutoApply).
Settled(r) == stored[r] = None \/ ~stored[r].auto \/ observed[r] \in {None, stored[r].spec}
AppliesGoOn == \A r \in Resource : []<>(Settled(r) \/ (op[r] # None /\ op[r].auto))

------------------------------------------------------------------------------
(* What documents and comments say and the code does not keep; each has a  *)
(* configuration, named after it, with which TLC refutes it.               *)

\* README.md: "Automatic remediation is opt-in per resource": one that has opted
\* in does not stay drifted.  The cache answers the apply of an atomic resource,
\* and a composite's apply plans from its state file or is refused.
DriftIsRemediated == \A r \in Resource : []<>Settled(r)

\* ROADMAP.md: "throttling (30s -> 1h) on repeated failure so a persistently-broken
\* resource doesn't hammer the provider"; backoffState: "so consecutive apply
\* failures don't hammer the provider": after an apply of the reconciler's that
\* failed the resource has to wait.  The backoff is reset when the apply is taken.
FailuresAreThrottled ==
  [][\A r \in Resource :
       op[r] # None /\ op[r].auto /\ (OperationFails(r) \/ ComposerRefuses(r)) => backoff'[r].current > 0]_vars

\* reconciler.go: an opted-in resource gets an apply "whenever drift is detected
\* on this resource": a pass that marks it as drifted goes on to submit, unless
\* it has to wait.
DriftIsEnqueued ==
  [][\A r \in Resource :
       /\ GetMisses(r) \/ (Loads /\ check.res = r)
       /\ driftState'[r] = TRUE /\ stored[r] # None /\ stored[r].auto /\ Due(r)
       => check' # None]_vars

\* "An Apply of the stored manifest": what the reconciler submits is what is
\* stored when it submits it.
AutoAppliesStored ==
  [][\A r \in Resource : op[r] = None /\ op'[r] # None /\ op'[r].auto => op'[r].manifest = stored[r]]_vars

\* README.md, on the annotation: "Automatic remediation is opt-in per resource":
\* whether a resource has opted in is what its last successful apply says.
OptInTakesEffect ==
  \A r \in Resource : op[r] = None /\ applied[r] # None /\ stored[r] # None => applied[r].auto = stored[r].auto
================================================================================
