----------------------------- MODULE GitOpsProofs -----------------------------
(***************************************************************************)
(* Proofs about the three copies of what is desired, for any resources and *)
(* directories, any number of timers per file, of goroutines that pull, of *)
(* edits and of crashes.                                                   *)
(***************************************************************************)
EXTENDS GitOps, TLAPS

\* A delete carries no manifest, and an apply does; what is on its way to being
\* submitted does; and once an operation has saved, the row is its own.
OpShape ==
  \A r \in Resource : op[r] # None =>
    /\ op[r].type = "delete" <=> op[r].spec = None
    /\ op[r].at = "saved" =>
         IF op[r].spec = None THEN row[r] = None ELSE row[r] # None /\ row[r].spec = op[r].spec
TimerShape ==
  \A r \in Resource, i \in Slot : watch[r].slot[i].st = "submit" => watch[r].slot[i].spec \in Spec
PullShape ==
  \A p \in Puller :
    /\ puller[p].pc = "submit" => puller[p].spec \in Spec /\ puller[p].cur \in Resource
    /\ puller[p].before <= Len(local)

HistoryShape == Len(local) > 0 /\ Len(remote) > 0

GitBase == TypeOK /\ OpShape /\ TimerShape /\ PullShape /\ HistoryShape

-------------------------------------------------------------------------------
(* Types.                                                                  *)

DirWatches == [Dirs -> {"no", "reported", "yes"}]
WatchOf == [slot : [Slot -> Timer], listed : Slot \cup {0}]

LEMMA NoneIsNothing == None \notin Spec /\ None \notin Row /\ None \notin Oper
BY GitOpsConstants

LEMMA Constants ==
  /\ Broken # None /\ Broken \notin Spec /\ 0 \notin Slot
  /\ EditedTo \subseteq File /\ Upstream \subseteq File
  /\ \A m \in Modes : m.edits \in Nat /\ m.pulls \in Nat /\ m.stops \in Nat
BY GitOpsConstants DEF Mode

LEMMA ConstantTypes ==
  /\ Idle \in Timer /\ NoPull \in Pull /\ Quiet \in WatchOf
  /\ Idle.st = "idle" /\ NoPull.pc = "idle" /\ NoPull.before = 0
  /\ \A i \in Slot : Quiet.slot[i] = Idle
<1>1. Idle \in Timer
  BY DEF Idle, Timer
<1>2. NoPull \in Pull
  BY DEF NoPull, Pull
<1>3. Quiet \in WatchOf /\ \A i \in Slot : Quiet.slot[i] = Idle
  BY <1>1 DEF Quiet, WatchOf
<1> QED BY <1>1, <1>2, <1>3 DEF Idle, NoPull

LEMMA InitBase == Init => GitBase
<1> SUFFICES ASSUME Init PROVE GitBase
  OBVIOUS
<1>1. tree \in Trees
  BY DEF Init, Trees, File
<1>2. [tree |-> tree, by |-> "upstream"] \in Commit
  BY <1>1 DEF Commit
<1>3. local \in Seq(Commit) /\ Len(local) = 1 /\ remote = local
  BY <1>2 DEF Init
<1>4. edits \in 0..mode.edits /\ pulls \in 0..mode.pulls /\ stops \in 0..mode.stops
  BY Constants DEF Init
<1>5. watch \in [Resource -> WatchOf] /\ puller \in [Puller -> Pull]
  BY ConstantTypes DEF Init
<1>6. unsynced \in BOOLEAN /\ up \in BOOLEAN
  BY DEF Init
<1>7. TypeOK
  BY <1>1, <1>3, <1>4, <1>5, <1>6 DEF Init, TypeOK, WatchOf, DirWatches
<1>8. PullShape
  BY <1>3, ConstantTypes DEF Init, PullShape
<1>9. TimerShape
  BY ConstantTypes DEF Init, TimerShape
<1> QED BY <1>3, <1>7, <1>8, <1>9 DEF Init, GitBase, OpShape, HistoryShape

\* handle: the event is noted in a timer of its kind.
LEMMA HandledType ==
  ASSUME NEW w \in WatchOf, NEW kind \in {"write", "remove"}, Listed(w) \/ Free(w) # {}
  PROVE  /\ Handled(w, kind) \in WatchOf
         /\ \E i \in Slot : /\ Handled(w, kind).slot[i] = [st |-> "armed", kind |-> kind, spec |-> None]
                            /\ \A j \in Slot : j # i => Handled(w, kind).slot[j] = w.slot[j]
<1> DEFINE i == IF Listed(w) THEN w.listed ELSE CHOOSE j \in Free(w) : TRUE
           a == [st |-> "armed", kind |-> kind, spec |-> None]
<1>1. i \in Slot
  <2>1. CASE Listed(w)
    BY <2>1 DEF Listed, WatchOf
  <2>2. CASE ~Listed(w)
    <3>1. (CHOOSE j \in Free(w) : TRUE) \in Free(w)
      BY <2>2
    <3> QED BY <2>2, <3>1 DEF Free
  <2> QED BY <2>1, <2>2
<1>2. a \in Timer
  BY DEF Timer
<1>3. Handled(w, kind) = [slot |-> [w.slot EXCEPT ![i] = a], listed |-> i]
  BY DEF Handled
<1> HIDE DEF i, a
<1>4. Handled(w, kind) \in WatchOf
  BY <1>1, <1>2, <1>3 DEF WatchOf
<1>5. /\ Handled(w, kind).slot[i] = a
      /\ \A j \in Slot : j # i => Handled(w, kind).slot[j] = w.slot[j]
  BY <1>1, <1>3 DEF WatchOf
<1> QED BY <1>1, <1>4, <1>5 DEF a

\* The directory is rewritten.
LEMMA RewriteType ==
  ASSUME GitBase, NEW t \in Trees, Rewrite(t)
  PROVE  /\ tree' = t /\ watch' \in [Resource -> WatchOf] /\ TimerShape' /\ excused' \subseteq Resource
         /\ dirWatch' \in DirWatches
         /\ \A r \in Resource :
              \/ /\ watch'[r] = watch[r] /\ r \in excused'
              \/ /\ watch'[r] = watch[r] /\ tree'[r] = tree[r] /\ (r \in excused => r \in excused')
              \/ \E i \in Slot : /\ watch'[r].slot[i].st = "armed"
                                 /\ watch'[r].slot[i].kind = IF tree'[r] = None THEN "remove" ELSE "write"
<1>0. watch \in [Resource -> WatchOf] /\ excused \subseteq Resource /\ tree \in Trees
  BY DEF GitBase, TypeOK, WatchOf
<1>1. PICK dw \in DirWatches, lost \in SUBSET {r \in Changed(t) : dirWatch[Dir[r]] # "yes"} :
        LET seen == {r \in Changed(t) \ lost : up /\ "yes" \in {dirWatch[Dir[r]], dw[Dir[r]]}} IN
        /\ \A d \in Dirs : dw[d] \in IF up THEN DirWatchAfter(d, t) ELSE {dirWatch[d]}
        /\ tree' = t /\ dirWatch' = dw
        /\ \A r \in seen : Listed(watch[r]) \/ Free(watch[r]) # {}
        /\ watch' = [r \in Resource |->
             IF r \in seen
             THEN Handled(watch[r], IF t[r] = None THEN "remove" ELSE "write")
             ELSE watch[r]]
        /\ excused' = (excused \ seen) \cup (Changed(t) \ seen)
  BY Zenon DEF Rewrite, DirWatches
<1> DEFINE seen == {r \in Changed(t) \ lost : up /\ "yes" \in {dirWatch[Dir[r]], dw[Dir[r]]}}
           kind(r) == IF t[r] = None THEN "remove" ELSE "write"
<1>2. seen \subseteq Changed(t) /\ Changed(t) \subseteq Resource
  BY DEF Changed
<1>3. /\ tree' = t /\ excused' = (excused \ seen) \cup (Changed(t) \ seen)
      /\ \A r \in seen : Listed(watch[r]) \/ Free(watch[r]) # {}
      /\ \A r \in Resource : watch'[r] = IF r \in seen THEN Handled(watch[r], kind(r)) ELSE watch[r]
      /\ DOMAIN watch' = Resource /\ watch' = [r \in Resource |-> watch'[r]]
  <2> HIDE DEF seen
  <2> QED BY <1>1 DEF seen
<1>4. ASSUME NEW r \in seen
      PROVE  /\ watch'[r] \in WatchOf
             /\ \E i \in Slot : /\ watch'[r].slot[i] = [st |-> "armed", kind |-> kind(r), spec |-> None]
                                /\ \A j \in Slot : j # i => watch'[r].slot[j] = watch[r].slot[j]
  <2>1. r \in Resource /\ watch[r] \in WatchOf /\ (Listed(watch[r]) \/ Free(watch[r]) # {})
    BY <1>0, <1>2, <1>3
  <2>2. kind(r) \in {"write", "remove"}
    OBVIOUS
  <2> HIDE DEF kind
  <2>3. watch'[r] = Handled(watch[r], kind(r))
    BY <1>3, <2>1
  <2> QED BY <2>1, <2>2, <2>3, HandledType
<1>5. watch' \in [Resource -> WatchOf]
  BY <1>0, <1>3, <1>4
<1>6. TimerShape'
  <2> SUFFICES ASSUME NEW r \in Resource, NEW j \in Slot, watch'[r].slot[j].st = "submit"
               PROVE  watch'[r].slot[j].spec \in Spec
    BY DEF TimerShape
  <2>1. CASE r \notin seen
    BY <1>3, <2>1 DEF GitBase, TimerShape
  <2>2. CASE r \in seen
    <3>1. PICK i \in Slot : /\ watch'[r].slot[i] = [st |-> "armed", kind |-> kind(r), spec |-> None]
                            /\ \A k \in Slot : k # i => watch'[r].slot[k] = watch[r].slot[k]
      BY <1>4, <2>2
    <3>2. watch'[r].slot[i].st = "armed"
      BY <3>1
    <3>3. watch'[r].slot[j] = watch[r].slot[j]
      BY <3>1, <3>2
    <3> QED BY <3>3 DEF GitBase, TimerShape
  <2> QED BY <2>1, <2>2
<1>7. ASSUME NEW r \in Resource
      PROVE  \/ /\ watch'[r] = watch[r] /\ r \in excused'
             \/ /\ watch'[r] = watch[r] /\ tree'[r] = tree[r] /\ (r \in excused => r \in excused')
             \/ \E i \in Slot : /\ watch'[r].slot[i].st = "armed"
                                /\ watch'[r].slot[i].kind = IF tree'[r] = None THEN "remove" ELSE "write"
  <2>1. CASE r \in seen
    <3>1. PICK i \in Slot : watch'[r].slot[i] = [st |-> "armed", kind |-> kind(r), spec |-> None]
      BY <1>4, <2>1
    <3>2. watch'[r].slot[i].st = "armed" /\ watch'[r].slot[i].kind = kind(r)
      BY <3>1
    <3> QED BY <1>3, <3>2
  <2>2. CASE r \notin seen /\ r \in Changed(t)
    BY <1>3, <2>2
  <2>3. CASE r \notin Changed(t)
    BY <1>2, <1>3, <2>3 DEF Changed
  <2> QED BY <2>1, <2>2, <2>3
<1>8. excused' \subseteq Resource
  BY <1>0, <1>2, <1>3
<1>9. dirWatch' \in DirWatches
  BY <1>1
<1> QED BY <1>3, <1>5, <1>6, <1>7, <1>8, <1>9

\* A timer goes on, or comes to rest.
LEMMA TimerSet ==
  ASSUME GitBase, NEW r \in Resource, NEW i \in Slot, NEW st \in {"idle", "fired", "submit"},
         NEW s \in Spec \cup {None}, st = "submit" => s \in Spec, SetTimer(r, i, st, s)
  PROVE  /\ watch' \in [Resource -> WatchOf] /\ TimerShape'
         /\ \A x \in Resource, j \in Slot : x # r \/ j # i => watch'[x].slot[j] = watch[x].slot[j]
         /\ watch'[r].slot[i].st = st
         /\ st # "idle" => watch'[r].slot[i].kind = watch[r].slot[i].kind /\ watch'[r].slot[i].spec = s
<1>0. watch \in [Resource -> WatchOf]
  BY DEF GitBase, TypeOK, WatchOf
<1>1. watch[r] \in WatchOf /\ watch[r].slot \in [Slot -> Timer] /\ watch[r].slot[i] \in Timer
  BY <1>0 DEF WatchOf
<1> DEFINE new == IF st = "idle" THEN Idle ELSE [watch[r].slot[i] EXCEPT !.st = st, !.spec = s]
<1>2. new \in Timer /\ new.st = st
      /\ (st # "idle" => new.kind = watch[r].slot[i].kind /\ new.spec = s)
  <2>1. CASE st = "idle"
    BY <2>1, ConstantTypes
  <2>2. CASE st # "idle"
    BY <1>1, <2>2 DEF Timer
  <2> QED BY <2>1, <2>2
<1>3. watch' = [watch EXCEPT ![r] = [watch[r] EXCEPT !.slot = [watch[r].slot EXCEPT ![i] = new]]]
  BY <1>0, <1>1 DEF SetTimer, WatchOf
<1> HIDE DEF new
<1>4. [watch[r] EXCEPT !.slot = [watch[r].slot EXCEPT ![i] = new]] \in WatchOf
  BY <1>1, <1>2 DEF WatchOf
<1>5. watch' \in [Resource -> WatchOf]
  BY <1>0, <1>3, <1>4
<1>6. /\ watch'[r].slot[i] = new
      /\ \A x \in Resource, j \in Slot : x # r \/ j # i => watch'[x].slot[j] = watch[x].slot[j]
  BY <1>0, <1>1, <1>3 DEF WatchOf
<1>7. TimerShape'
  BY <1>2, <1>6 DEF TimerShape, GitBase
<1> QED BY <1>2, <1>5, <1>6, <1>7

\* An operation is submitted, or refused.
LEMMA SubmitsType ==
  ASSUME GitBase, NEW r \in Resource, NEW q \in Oper, q.at = "pending",
         q.type = "delete" <=> q.spec = None, Submits(r, q), row' = row
  PROVE  /\ op' \in [Resource -> Oper \cup {None}] /\ OpShape' /\ excused' \subseteq Resource
         /\ excused \subseteq excused'
         /\ \A x \in Resource : op[x] # None \/ x # r => op'[x] = op[x]
         /\ r \in excused' \/ (op'[r] # None /\ op'[r].at = "pending")
<1>0. op \in [Resource -> Oper \cup {None}] /\ excused \subseteq Resource
  BY DEF GitBase, TypeOK
<1>1. CASE op[r] = None
  <2>1. op' = [op EXCEPT ![r] = q] /\ excused' = excused
    BY <1>1 DEF Submits
  <2>2. q # None
    BY NoneIsNothing
  <2>3. OpShape'
    BY <1>0, <2>1, <2>2 DEF OpShape, GitBase
  <2> QED BY <1>0, <1>1, <2>1, <2>2, <2>3
<1>2. CASE op[r] # None
  <2>1. op' = op /\ excused' = excused \cup {r}
    BY <1>2 DEF Submits
  <2>2. OpShape'
    BY <2>1 DEF OpShape, GitBase
  <2> QED BY <1>0, <2>1, <2>2
<1> QED BY <1>1, <1>2

LEMMA GitOpsRequests ==
  /\ GitOpsDelete \in Oper /\ GitOpsDelete.at = "pending"
  /\ GitOpsDelete.type = "delete" /\ GitOpsDelete.spec = None
  /\ \A s \in Spec : /\ GitOpsApply(s) \in Oper /\ GitOpsApply(s).at = "pending"
                     /\ GitOpsApply(s).type = "apply" /\ GitOpsApply(s).spec = s /\ s # None
BY NoneIsNothing DEF GitOpsDelete, GitOpsApply, Oper, Source

\* What is not concerned keeps its type.
LEMMA Unconcerned ==
  ASSUME GitBase
  PROVE  /\ UNCHANGED <<mode, up, row, tree>> =>
              mode' \in Modes /\ up' \in BOOLEAN /\ row' \in [Resource -> Row \cup {None}] /\ tree' \in Trees
         /\ UNCHANGED dirWatch => dirWatch' \in DirWatches
         /\ UNCHANGED op => op' \in [Resource -> Oper \cup {None}]
         /\ UNCHANGED watch => watch' \in [Resource -> WatchOf] /\ TimerShape'
         /\ UNCHANGED repoVars => local' \in Seq(Commit) /\ remote' \in Seq(Commit) /\ HistoryShape'
         /\ UNCHANGED <<puller, local>> => puller' \in [Puller -> Pull] /\ PullShape'
         /\ UNCHANGED <<mode, bounds>> =>
              edits' \in 0..mode'.edits /\ pulls' \in 0..mode'.pulls /\ stops' \in 0..mode'.stops
         /\ UNCHANGED <<op, row>> => OpShape'
         /\ UNCHANGED unsynced => unsynced' \in BOOLEAN
         /\ UNCHANGED excused => excused' \subseteq Resource
BY DEF GitBase, TypeOK, WatchOf, DirWatches, repoVars, bounds, OpShape, TimerShape, PullShape, HistoryShape

\* The parts of the invariant, put together.
LEMMA Together ==
  ASSUME mode' \in Modes, up' \in BOOLEAN, row' \in [Resource -> Row \cup {None}], tree' \in Trees,
         dirWatch' \in DirWatches,
         op' \in [Resource -> Oper \cup {None}], watch' \in [Resource -> WatchOf],
         local' \in Seq(Commit), remote' \in Seq(Commit), puller' \in [Puller -> Pull],
         edits' \in 0..mode'.edits, pulls' \in 0..mode'.pulls, stops' \in 0..mode'.stops,
         excused' \subseteq Resource, unsynced' \in BOOLEAN,
         OpShape', TimerShape', PullShape', HistoryShape'
  PROVE  GitBase'
BY DEF GitBase, TypeOK, WatchOf, DirWatches

\* The callback clears the map's entry, and its own timer goes on.
LEMMA ClearsTimer ==
  ASSUME GitBase, NEW r \in Resource, NEW i \in Slot, Clear(r, i)
  PROVE  /\ watch' \in [Resource -> WatchOf] /\ TimerShape'
         /\ \A x \in Resource, j \in Slot : x # r \/ j # i => watch'[x].slot[j] = watch[x].slot[j]
         /\ watch'[r].slot[i].st = "cleared" /\ watch'[r].slot[i].kind = watch[r].slot[i].kind
<1>0. watch \in [Resource -> WatchOf] /\ watch[r].slot[i] \in Timer /\ watch[r] \in WatchOf
  BY DEF GitBase, TypeOK, WatchOf
<1>1. watch' = [watch EXCEPT ![r].slot[i].st = "cleared", ![r].listed = 0]
  BY DEF Clear
<1> DEFINE new == [watch[r].slot[i] EXCEPT !.st = "cleared"]
<1>2. new \in Timer /\ new.st = "cleared" /\ new.kind = watch[r].slot[i].kind
  BY <1>0 DEF Timer
<1>3. watch' = [watch EXCEPT ![r] = [slot |-> [watch[r].slot EXCEPT ![i] = new], listed |-> 0]]
  <2> DEFINE first == [watch EXCEPT ![r].slot[i].st = "cleared"]
  <2>1. first = [watch EXCEPT ![r] = [watch[r] EXCEPT !.slot = [watch[r].slot EXCEPT ![i] = new]]]
    BY <1>0 DEF WatchOf
  <2>2. watch' = [first EXCEPT ![r].listed = 0]
    BY <1>1
  <2> HIDE DEF first, new
  <2>3. first[r] = [slot |-> [watch[r].slot EXCEPT ![i] = new], listed |-> watch[r].listed]
    BY <1>0, <2>1 DEF WatchOf
  <2>4. watch' = [first EXCEPT ![r] = [first[r] EXCEPT !.listed = 0]]
    BY <2>2
  <2>5. [first[r] EXCEPT !.listed = 0] = [slot |-> [watch[r].slot EXCEPT ![i] = new], listed |-> 0]
    BY <2>3
  <2> QED BY <1>0, <2>1, <2>4, <2>5
<1> HIDE DEF new
<1>4. [slot |-> [watch[r].slot EXCEPT ![i] = new], listed |-> 0] \in WatchOf
  BY <1>0, <1>2 DEF WatchOf
<1>5. watch' \in [Resource -> WatchOf]
  BY <1>0, <1>3, <1>4
<1>6. /\ watch'[r].slot[i] = new
      /\ \A x \in Resource, j \in Slot : x # r \/ j # i => watch'[x].slot[j] = watch[x].slot[j]
  BY <1>0, <1>3 DEF WatchOf
<1>7. TimerShape'
  BY <1>2, <1>6 DEF TimerShape, GitBase
<1> QED BY <1>2, <1>5, <1>6, <1>7

LEMMA WatchesBase ==
  ASSUME GitBase, NEW r \in Resource, NEW i \in Slot, Watches(r, i)
  PROVE  GitBase'
<1>0. watch \in [Resource -> WatchOf] /\ excused \subseteq Resource /\ watch[r].slot[i] \in Timer
      /\ watch[r] \in WatchOf
  BY DEF GitBase, TypeOK, WatchOf
<1>1. CASE Expire(r, i)
  <2>1. SetTimer(r, i, "fired", None) /\ UNCHANGED <<mode, up, row, tree, dirWatch, op, repoVars, puller, bounds, histVars>>
    BY <1>1 DEF Expire
  <2>2. watch' \in [Resource -> WatchOf] /\ TimerShape'
    BY <2>1, TimerSet
  <2> QED BY <2>1, <2>2, Unconcerned, Together DEF histVars, repoVars
<1>2. CASE Clear(r, i)
  <2>1. UNCHANGED <<mode, up, row, tree, dirWatch, op, repoVars, puller, bounds, histVars>>
    BY <1>2 DEF Clear
  <2>2. watch' \in [Resource -> WatchOf] /\ TimerShape'
    BY <1>2, ClearsTimer
  <2> QED BY <2>1, <2>2, Unconcerned, Together DEF histVars, repoVars
<1>3. CASE ProcessRemove(r, i)
  <2>1. /\ SetTimer(r, i, "idle", None) /\ UNCHANGED <<mode, up, row, tree, dirWatch, repoVars, puller, bounds, unsynced>>
        /\ IF mode.deleteOnRemove THEN Submits(r, GitOpsDelete)
           ELSE excused' = excused \cup {r} /\ UNCHANGED op
    BY <1>3 DEF ProcessRemove
  <2>2. watch' \in [Resource -> WatchOf] /\ TimerShape'
    BY <2>1, TimerSet
  <2>3. op' \in [Resource -> Oper \cup {None}] /\ OpShape' /\ excused' \subseteq Resource
    BY <1>0, <2>1, SubmitsType, GitOpsRequests, Unconcerned
  <2> QED BY <2>1, <2>2, <2>3, Unconcerned, Together DEF repoVars
<1>4. CASE ProcessWrite(r, i)
  <2>1. /\ IF NeedsApply(r) THEN SetTimer(r, i, "submit", tree[r]) ELSE SetTimer(r, i, "idle", None)
        /\ UNCHANGED <<mode, up, row, tree, dirWatch, op, repoVars, puller, bounds, histVars>>
    BY <1>4 DEF ProcessWrite
  <2>2. watch' \in [Resource -> WatchOf] /\ TimerShape'
    <3>1. NeedsApply(r) => tree[r] \in Spec
      BY DEF NeedsApply
    <3> QED BY <2>1, <3>1, TimerSet
  <2> QED BY <2>1, <2>2, Unconcerned, Together DEF histVars, repoVars
<1>5. CASE ProcessSubmit(r, i)
  <2>1. /\ Submits(r, GitOpsApply(watch[r].slot[i].spec)) /\ SetTimer(r, i, "idle", None)
        /\ UNCHANGED <<mode, up, row, tree, dirWatch, repoVars, puller, bounds, unsynced>>
        /\ watch[r].slot[i].spec \in Spec
    BY <1>5 DEF ProcessSubmit, GitBase, TimerShape
  <2>2. watch' \in [Resource -> WatchOf] /\ TimerShape'
    BY <2>1, TimerSet
  <2>3. op' \in [Resource -> Oper \cup {None}] /\ OpShape' /\ excused' \subseteq Resource
    BY <2>1, SubmitsType, GitOpsRequests
  <2> QED BY <2>1, <2>2, <2>3, Unconcerned, Together DEF repoVars
<1> QED BY <1>1, <1>2, <1>3, <1>4, <1>5 DEF Watches

LEMMA GoesType ==
  ASSUME GitBase, NEW r \in Resource, op[r] # None, NEW at \in {"saved", "mirrored", "committed"}, Goes(r, at)
  PROVE  /\ op' \in [Resource -> Oper \cup {None}] /\ op'[r] # None
         /\ op'[r].at = at /\ op'[r].type = op[r].type /\ op'[r].spec = op[r].spec
         /\ \A x \in Resource : x # r => op'[x] = op[x]
<1>1. op \in [Resource -> Oper \cup {None}] /\ op[r] \in Oper
  BY DEF GitBase, TypeOK
<1>2. op' = [op EXCEPT ![r] = [op[r] EXCEPT !.at = at]]
  BY <1>1 DEF Goes
<1>3. [op[r] EXCEPT !.at = at] \in Oper
  BY <1>1 DEF Oper
<1>4. op'[r] \in Oper /\ op'[r].at = at /\ op'[r].type = op[r].type /\ op'[r].spec = op[r].spec
  BY <1>1, <1>2, <1>3 DEF Oper
<1> QED BY <1>1, <1>2, <1>3, <1>4, NoneIsNothing

LEMMA EndsType ==
  ASSUME GitBase, NEW r \in Resource, op' = [op EXCEPT ![r] = None], row' = row
  PROVE  op' \in [Resource -> Oper \cup {None}] /\ OpShape' /\ op'[r] = None
         /\ \A x \in Resource : x # r => op'[x] = op[x]
BY DEF GitBase, TypeOK, OpShape

\* Histories grow, and what a pull has read of them stays a lower bound.
LEMMA HistoryGrows ==
  ASSUME GitBase, local' \in Seq(Commit), Len(local') >= Len(local), puller' = puller
  PROVE  puller' \in [Puller -> Pull] /\ PullShape'
<1>1. Len(local) \in Nat /\ Len(local') \in Nat /\ \A p \in Puller : puller[p] \in Pull /\ puller[p].before \in Nat
  BY DEF GitBase, TypeOK, Pull
<1> QED BY <1>1 DEF GitBase, TypeOK, PullShape

LEMMA SavesType ==
  ASSUME GitBase, NEW r \in Resource, OpSaves(r)
  PROVE  /\ row' \in [Resource -> Row \cup {None}] /\ OpShape'
         /\ \A x \in Resource : x # r => row'[x] = row[x]
<1>1. /\ op[r] # None /\ op[r].at = "pending" /\ Goes(r, "saved")
      /\ row' = [row EXCEPT ![r] = IF op[r].type = "delete" THEN None
                                   ELSE [spec |-> op[r].spec, source |-> op[r].source]]
  BY DEF OpSaves
<1>2. op[r] \in Oper /\ (op[r].type = "delete" <=> op[r].spec = None)
  BY <1>1 DEF GitBase, TypeOK, OpShape
<1> DEFINE new == [spec |-> op[r].spec, source |-> op[r].source]
<1>3. op[r].type # "delete" => new \in Row /\ new # None /\ new.spec = op[r].spec
  <2>1. op[r].type # "delete" => new \in Row
    BY <1>2 DEF Oper, Row
  <2> QED BY <2>1, NoneIsNothing
<1>4. row \in [Resource -> Row \cup {None}]
  BY DEF GitBase, TypeOK
<1>5. /\ op[r].type = "delete" => row' = [row EXCEPT ![r] = None]
      /\ op[r].type # "delete" => row' = [row EXCEPT ![r] = new]
  BY <1>1
<1> HIDE DEF new
<1>6. row' \in [Resource -> Row \cup {None}] /\ \A x \in Resource : x # r => row'[x] = row[x]
  BY <1>3, <1>4, <1>5
<1>7. IF op[r].spec = None THEN row'[r] = None ELSE row'[r] # None /\ row'[r].spec = op[r].spec
  BY <1>2, <1>3, <1>4, <1>5
<1>8. /\ op'[r].type = op[r].type /\ op'[r].spec = op[r].spec
      /\ \A x \in Resource : x # r => op'[x] = op[x]
  BY <1>1, GoesType
<1>9. OpShape'
  BY <1>2, <1>6, <1>7, <1>8 DEF OpShape, GitBase
<1> QED BY <1>6, <1>9

LEMMA MirroredTree ==
  ASSUME GitBase, NEW r \in Resource, op[r] # None
  PROVE  [tree EXCEPT ![r] = Mirrored(r)] \in Trees /\ [tree EXCEPT ![r] = Mirrored(r)][r] = op[r].spec
<1>1. op[r].spec \in File /\ tree \in Trees
  BY DEF GitBase, TypeOK, Oper, File
<1> QED BY <1>1 DEF Mirrored, Trees

LEMMA OperatesBase ==
  ASSUME GitBase, NEW r \in Resource, Operates(r)
  PROVE  GitBase'
<1>0. /\ excused \subseteq Resource /\ local \in Seq(Commit) /\ remote \in Seq(Commit) /\ tree \in Trees
      /\ mode \in Modes /\ up \in BOOLEAN /\ row \in [Resource -> Row \cup {None}]
  BY DEF GitBase, TypeOK
<1>1. CASE OpEndsUnsaved(r) \/ OpMirrorFails(r)
  <2>1. /\ op' = [op EXCEPT ![r] = None] /\ excused' = excused \cup {r}
        /\ UNCHANGED <<mode, up, row, tree, dirWatch, watch, repoVars, puller, bounds, unsynced>>
    BY <1>1 DEF OpEndsUnsaved, OpMirrorFails
  <2>2. op' \in [Resource -> Oper \cup {None}] /\ OpShape' /\ excused' \subseteq Resource
    BY <1>0, <2>1, EndsType
  <2> QED BY <2>1, <2>2, Unconcerned, Together DEF repoVars
<1>2. CASE OpSaves(r)
  <2>1. /\ Goes(r, "saved") /\ op[r] # None
        /\ UNCHANGED <<mode, up, tree, dirWatch, watch, repoVars, puller, bounds, histVars>>
    BY <1>2 DEF OpSaves
  <2>2. op' \in [Resource -> Oper \cup {None}]
    BY <2>1, GoesType
  <2>3. row' \in [Resource -> Row \cup {None}] /\ OpShape'
    BY <1>2, SavesType
  <2> QED BY <1>0, <2>1, <2>2, <2>3, Unconcerned, Together DEF histVars, repoVars
<1>3. CASE OpMirrors(r)
  <2> DEFINE t == [tree EXCEPT ![r] = Mirrored(r)]
  <2>1. /\ op[r] # None /\ Rewrite(t)
        /\ IF mode.git THEN Goes(r, "mirrored") ELSE op' = [op EXCEPT ![r] = None]
        /\ UNCHANGED <<mode, up, row, repoVars, puller, bounds, unsynced>>
    BY <1>3 DEF OpMirrors
  <2>2. t \in Trees
    BY <2>1, MirroredTree
  <2> HIDE DEF t
  <2>3. tree' \in Trees /\ watch' \in [Resource -> WatchOf] /\ TimerShape' /\ excused' \subseteq Resource
        /\ dirWatch' \in DirWatches
    BY <2>1, <2>2, RewriteType
  <2>4. op' \in [Resource -> Oper \cup {None}] /\ OpShape'
    <3>1. CASE mode.git
      <4>1. /\ op' \in [Resource -> Oper \cup {None}]
            /\ op'[r].at = "mirrored" /\ op'[r].type = op[r].type /\ op'[r].spec = op[r].spec
            /\ \A x \in Resource : x # r => op'[x] = op[x]
        BY <2>1, <3>1, GoesType
      <4> QED BY <2>1, <4>1 DEF OpShape, GitBase
    <3>2. CASE ~mode.git
      BY <2>1, <3>2, EndsType
    <3> QED BY <3>1, <3>2
  <2> QED BY <1>0, <2>1, <2>3, <2>4, Unconcerned, Together DEF repoVars
<1>4. CASE OpCommits(r)
  <2>1. /\ op[r] # None /\ op[r].at = "mirrored"
        /\ UNCHANGED <<mode, up, row, tree, dirWatch, watch, remote, puller, bounds, histVars>>
        /\ \/ op' = [op EXCEPT ![r] = None] /\ local' = local
           \/ local' = Append(local, [tree |-> tree, by |-> "controller"]) /\ Goes(r, "committed")
    BY <1>4 DEF OpCommits
  <2>2. [tree |-> tree, by |-> "controller"] \in Commit
    BY <1>0 DEF Commit
  <2>3. local' \in Seq(Commit) /\ Len(local') >= Len(local)
    BY <1>0, <2>1, <2>2
  <2>6. HistoryShape'
    <3>1. Len(local) \in Nat /\ Len(local') \in Nat /\ Len(local) > 0 /\ Len(remote) > 0
      BY <1>0, <2>3 DEF GitBase, HistoryShape
    <3> QED BY <2>1, <2>3, <3>1 DEF HistoryShape
  <2>4. puller' \in [Puller -> Pull] /\ PullShape'
    BY <2>1, <2>3, HistoryGrows
  <2>5. op' \in [Resource -> Oper \cup {None}] /\ OpShape'
    <3>1. CASE op' = [op EXCEPT ![r] = None]
      BY <2>1, <3>1, EndsType
    <3>2. CASE Goes(r, "committed")
      <4>1. /\ op' \in [Resource -> Oper \cup {None}]
            /\ op'[r].at = "committed" /\ op'[r].type = op[r].type /\ op'[r].spec = op[r].spec
            /\ \A x \in Resource : x # r => op'[x] = op[x]
        BY <2>1, <3>2, GoesType
      <4> QED BY <2>1, <4>1 DEF OpShape, GitBase
    <3> QED BY <2>1, <3>1, <3>2
  <2> QED BY <1>0, <2>1, <2>3, <2>4, <2>5, <2>6, Unconcerned, Together DEF histVars
<1>5. CASE OpPushes(r)
  <2>1. /\ op' = [op EXCEPT ![r] = None]
        /\ remote' \in {remote} \cup (IF AncestorOf(remote, local) THEN {local} ELSE {})
        /\ UNCHANGED <<mode, up, row, tree, dirWatch, watch, local, puller, bounds, histVars>>
    BY <1>5 DEF OpPushes
  <2>2. remote' \in Seq(Commit) /\ HistoryShape'
    BY <1>0, <2>1 DEF GitBase, HistoryShape
  <2>3. op' \in [Resource -> Oper \cup {None}] /\ OpShape'
    BY <2>1, EndsType
  <2> QED BY <1>0, <2>1, <2>2, <2>3, Unconcerned, Together DEF histVars
<1> QED BY <1>1, <1>2, <1>3, <1>4, <1>5 DEF Operates

\* A fast-forward makes the history longer.
LEMMA ForwardType ==
  ASSUME GitBase, FastForwards
  PROVE  /\ local' \in Seq(Commit) /\ Len(local') > Len(local) /\ Len(local) \in Nat /\ Len(local') \in Nat
         /\ tree' \in Trees /\ watch' \in [Resource -> WatchOf] /\ TimerShape' /\ excused' \subseteq Resource
         /\ dirWatch' \in DirWatches
         /\ \E t \in Trees : Rewrite(t)
<1>0. local \in Seq(Commit) /\ remote \in Seq(Commit) /\ Len(local) \in Nat /\ Len(remote) \in Nat /\ tree \in Trees
  BY DEF GitBase, TypeOK
<1>1. Len(local) <= Len(remote) /\ SubSeq(remote, 1, Len(local)) = local /\ local # remote /\ local' = remote
  BY DEF FastForwards, CanPull, AncestorOf
<1>2. Len(local) # Len(remote)
  <2> SUFFICES ASSUME Len(local) = Len(remote) PROVE FALSE
    OBVIOUS
  <2>1. SubSeq(remote, 1, Len(remote)) = remote
    BY <1>0
  <2> QED BY <1>1, <2>1
<1>3. Len(remote) > Len(local) /\ Len(remote) > 0
  BY <1>0, <1>1, <1>2
<1>4. Tip \in Commit
  BY <1>0, <1>3 DEF Tip
<1> DEFINE t == [r \in Resource |-> IF r \in Moved THEN Tip.tree[r] ELSE tree[r]]
<1>5. t \in Trees
  BY <1>0, <1>4 DEF Commit, Trees
<1>6. Rewrite(t)
  BY DEF FastForwards
<1> HIDE DEF t
<1> QED BY <1>0, <1>1, <1>3, <1>5, <1>6, RewriteType

\* A goroutine that pulls goes on.
LEMMA PullGoes ==
  ASSUME GitBase, NEW p \in Puller, NEW st \in Pull, PullGoto(p, st),
         st.pc = "submit" => st.spec \in Spec /\ st.cur \in Resource,
         st.before <= Len(local), local' = local \/ (local' \in Seq(Commit) /\ Len(local') > Len(local))
  PROVE  /\ puller' \in [Puller -> Pull] /\ PullShape' /\ puller'[p] = st
         /\ \A q \in Puller : q # p => puller'[q] = puller[q]
<1>1. puller \in [Puller -> Pull] /\ local \in Seq(Commit) /\ Len(local) \in Nat /\ Len(local') \in Nat
  BY DEF GitBase, TypeOK
<1>2. puller' = [puller EXCEPT ![p] = st]
  BY DEF PullGoto
<1>3. \A q \in Puller : puller[q].before \in Nat
  BY <1>1 DEF Pull
<1>4. st.before \in Nat /\ Len(local) <= Len(local')
  BY <1>1 DEF Pull
<1>5. PullShape'
  <2> SUFFICES ASSUME NEW q \in Puller
               PROVE  /\ puller'[q].pc = "submit" => puller'[q].spec \in Spec /\ puller'[q].cur \in Resource
                      /\ puller'[q].before <= Len(local')
    BY DEF PullShape
  <2>1. CASE q = p
    BY <1>1, <1>2, <1>4, <2>1
  <2>2. CASE q # p
    <3>1. puller'[q] = puller[q] /\ puller[q].before <= Len(local)
      BY <1>1, <1>2, <2>2 DEF GitBase, PullShape
    <3> QED BY <1>1, <1>3, <1>4, <3>1 DEF GitBase, PullShape
  <2> QED BY <2>1, <2>2
<1> QED BY <1>1, <1>2, <1>5

LEMMA PullsBase ==
  ASSUME GitBase, NEW p \in Puller, PullStarts(p) \/ Pulls(p)
  PROVE  GitBase'
<1>0. /\ puller[p] \in Pull /\ puller[p].before <= Len(local) /\ Len(local) \in Nat
      /\ local \in Seq(Commit) /\ remote \in Seq(Commit) /\ tree \in Trees /\ excused \subseteq Resource
      /\ mode \in Modes /\ up \in BOOLEAN /\ row \in [Resource -> Row \cup {None}]
  BY DEF GitBase, TypeOK, PullShape
<1>00. NoPull \in Pull /\ NoPull.before <= Len(local) /\ NoPull.pc = "idle"
  BY <1>0, ConstantTypes
<1>1. CASE PullStarts(p)
  <2>0. PICK before \in {Len(local), 0} : PullGoto(p, [NoPull EXCEPT !.pc = "pull", !.before = before])
    BY <1>1 DEF PullStarts
  <2> DEFINE st == [NoPull EXCEPT !.pc = "pull", !.before = before]
  <2>1. /\ PullGoto(p, st) /\ pulls < mode.pulls /\ pulls' = pulls + 1
        /\ UNCHANGED <<mode, up, row, tree, dirWatch, op, watch, repoVars, edits, stops, histVars>>
    BY <1>1, <2>0 DEF PullStarts
  <2>00. before \in Nat /\ before <= Len(local)
    BY <1>0
  <2>2. st \in Pull /\ st.pc = "pull" /\ st.before <= Len(local)
    BY <1>0, <1>00, <2>00 DEF Pull
  <2> HIDE DEF st
  <2>3. puller' \in [Puller -> Pull] /\ PullShape'
    BY <1>0, <2>1, <2>2, PullGoes DEF repoVars
  <2>4. edits' \in 0..mode'.edits /\ pulls' \in 0..mode'.pulls /\ stops' \in 0..mode'.stops
    <3>1. edits \in 0..mode.edits /\ pulls \in 0..mode.pulls /\ stops \in 0..mode.stops /\ mode.pulls \in Nat
      BY <1>0, Constants DEF GitBase, TypeOK
    <3> QED BY <2>1, <3>1
  <2> QED BY <2>1, <2>3, <2>4, Unconcerned, Together DEF histVars
<1>2. CASE PullAdvances(p)
  <2> DEFINE st == [puller[p] EXCEPT !.pc = "pulled"]
  <2>1. /\ PullGoto(p, st) /\ FastForwards /\ unsynced' = TRUE /\ UNCHANGED <<mode, up, row, op, remote, bounds>>
    BY <1>2 DEF PullAdvances
  <2>2. st \in Pull /\ st.pc = "pulled" /\ st.before = puller[p].before
    BY <1>0 DEF Pull
  <2> HIDE DEF st
  <2>3. /\ local' \in Seq(Commit) /\ Len(local') > Len(local)
        /\ tree' \in Trees /\ watch' \in [Resource -> WatchOf] /\ TimerShape' /\ excused' \subseteq Resource
        /\ dirWatch' \in DirWatches
    BY <2>1, ForwardType
  <2>4. puller' \in [Puller -> Pull] /\ PullShape'
    BY <1>0, <2>1, <2>2, <2>3, PullGoes
  <2>5. remote' \in Seq(Commit) /\ unsynced' \in BOOLEAN
    BY <1>0, <2>1
  <2>6. HistoryShape'
    BY <2>1, ForwardType DEF GitBase, HistoryShape
  <2> QED BY <1>0, <2>1, <2>3, <2>4, <2>5, <2>6, Unconcerned, Together
\* The other steps of a pull but for submissions and its decision.
<1>3. ASSUME NEW st \in Pull, PullGoto(p, st), st.before <= Len(local),
             st.pc = "submit" => st.spec \in Spec /\ st.cur \in Resource,
             UNCHANGED <<mode, up, row, tree, dirWatch, op, watch, repoVars, bounds, excused>>, unsynced' \in BOOLEAN
      PROVE  GitBase'
  <2>1. puller' \in [Puller -> Pull] /\ PullShape'
    BY <1>3, PullGoes DEF repoVars
  <2> QED BY <1>3, <2>1, Unconcerned, Together
<1>4. ASSUME NEW st \in Pull, PullGoto(p, st), st.before <= Len(local), st.pc # "submit",
             NEW r \in Resource, NEW q \in Oper, q.at = "pending", q.type = "delete" <=> q.spec = None,
             Submits(r, q),
             UNCHANGED <<mode, up, row, tree, dirWatch, watch, repoVars, bounds, unsynced>>
      PROVE  GitBase'
  <2>1. puller' \in [Puller -> Pull] /\ PullShape'
    BY <1>4, PullGoes DEF repoVars
  <2>2. op' \in [Resource -> Oper \cup {None}] /\ OpShape' /\ excused' \subseteq Resource
    BY <1>4, SubmitsType
  <2> QED BY <1>4, <2>1, <2>2, Unconcerned, Together
<1>5. unsynced \in BOOLEAN
  BY DEF GitBase, TypeOK
<1>6. CASE PullDoesNothing(p)
  <2> DEFINE st == [puller[p] EXCEPT !.pc = "pulled"]
  <2>1. /\ PullGoto(p, NoPull) \/ PullGoto(p, st)
        /\ UNCHANGED <<mode, up, row, tree, dirWatch, op, watch, repoVars, bounds, excused>> /\ unsynced' = unsynced
    BY <1>6 DEF PullDoesNothing, histVars
  <2>2. st \in Pull /\ st.pc = "pulled" /\ st.before = puller[p].before
    BY <1>0 DEF Pull
  <2> HIDE DEF st
  <2> QED BY <1>0, <1>00, <1>3, <1>5, <2>1, <2>2
<1>7. CASE PullDecides(p)
  <2> DEFINE st == [puller[p] EXCEPT !.pc = "sync", !.todo = Resource]
  <2>1. /\ \/ PullGoto(p, st) /\ unsynced' = FALSE
           \/ PullGoto(p, NoPull) /\ unsynced' = unsynced
        /\ UNCHANGED <<mode, up, row, tree, dirWatch, op, watch, repoVars, bounds, excused>>
    BY <1>7 DEF PullDecides
  <2>2. st \in Pull /\ st.pc = "sync" /\ st.before = puller[p].before
    BY <1>0 DEF Pull
  <2>3. unsynced' \in BOOLEAN
    BY <1>5, <2>1
  <2> HIDE DEF st
  <2> QED BY <1>0, <1>00, <1>3, <2>1, <2>2, <2>3
<1>15. CASE PullLosesHead(p)
  <2>1. /\ PullGoto(p, NoPull) /\ unsynced' = (unsynced /\ ~HeadAdvanced(p))
        /\ UNCHANGED <<mode, up, row, tree, dirWatch, op, watch, repoVars, bounds, excused>>
    BY <1>15 DEF PullLosesHead
  <2>2. unsynced' \in BOOLEAN
    BY <2>1
  <2> QED BY <1>0, <1>00, <1>3, <2>1, <2>2
<1>8. ASSUME NEW r \in Resource, SyncFile(p, r) PROVE GitBase'
  <2> DEFINE rest == [puller[p] EXCEPT !.todo = puller[p].todo \ {r}]
             sub == [rest EXCEPT !.pc = "submit", !.cur = r, !.spec = tree[r]]
  <2>1. /\ PullGoto(p, IF NeedsApply(r) THEN sub ELSE rest)
        /\ UNCHANGED <<mode, up, row, tree, dirWatch, op, watch, repoVars, bounds, excused>> /\ unsynced' = unsynced
        /\ puller[p].pc = "sync"
    BY <1>8 DEF SyncFile, histVars, At
  <2>2. rest \in Pull /\ rest.pc = "sync" /\ rest.before = puller[p].before
    BY <1>0, <2>1 DEF Pull
  <2> HIDE DEF rest
  <2>3. NeedsApply(r) => /\ sub \in Pull /\ sub.before = puller[p].before
                         /\ sub.spec \in Spec /\ sub.cur \in Resource
    <3> SUFFICES ASSUME NeedsApply(r)
                 PROVE  /\ sub \in Pull /\ sub.before = puller[p].before
                        /\ sub.spec \in Spec /\ sub.cur \in Resource
      OBVIOUS
    <3>1. tree[r] \in Spec
      BY DEF NeedsApply
    <3> QED BY <2>2, <3>1 DEF Pull
  <2> HIDE DEF sub
  <2>4. CASE NeedsApply(r)
    <3>1. PullGoto(p, sub)
      BY <2>1, <2>4
    <3> QED BY <1>0, <1>3, <1>5, <2>1, <2>3, <2>4, <3>1
  <2>5. CASE ~NeedsApply(r)
    <3>1. PullGoto(p, rest)
      BY <2>1, <2>5
    <3> QED BY <1>0, <1>3, <1>5, <2>1, <2>2, <3>1
  <2> QED BY <2>4, <2>5
<1>9. CASE SyncSubmit(p)
  <2> DEFINE st == [puller[p] EXCEPT !.pc = "sync", !.cur = None, !.spec = None]
  <2>1. /\ Submits(puller[p].cur, GitOpsApply(puller[p].spec)) /\ PullGoto(p, st) /\ puller[p].pc = "submit"
        /\ UNCHANGED <<mode, up, row, tree, dirWatch, watch, repoVars, bounds, unsynced>>
    BY <1>9 DEF SyncSubmit, At
  <2>2. st \in Pull /\ st.pc = "sync" /\ st.before = puller[p].before
    BY <1>0 DEF Pull
  <2>3. puller[p].cur \in Resource /\ puller[p].spec \in Spec
    BY <2>1 DEF GitBase, PullShape
  <2> HIDE DEF st
  <2>4. /\ GitOpsApply(puller[p].spec) \in Oper /\ GitOpsApply(puller[p].spec).at = "pending"
        /\ GitOpsApply(puller[p].spec).type = "delete" <=> GitOpsApply(puller[p].spec).spec = None
    BY <2>3, GitOpsRequests
  <2> QED BY <1>0, <1>4, <2>1, <2>2, <2>3, <2>4
<1>10. CASE SyncEnds(p)
  <2> DEFINE st == [puller[p] EXCEPT !.pc = "onDisk"]
  <2>1. /\ PullGoto(p, NoPull) \/ PullGoto(p, st)
        /\ UNCHANGED <<mode, up, row, tree, dirWatch, op, watch, repoVars, bounds, excused>> /\ unsynced' = unsynced
    BY <1>10 DEF SyncEnds, histVars
  <2>2. st \in Pull /\ st.pc = "onDisk" /\ st.before = puller[p].before
    BY <1>0 DEF Pull
  <2> HIDE DEF st
  <2> QED BY <1>0, <1>00, <1>3, <1>5, <2>1, <2>2
<1>11. CASE PruneOnDisk(p)
  <2> DEFINE st == [puller[p] EXCEPT !.pc = "list", !.todo = {r \in Resource : tree[r] = None}]
  <2>1. /\ PullGoto(p, st)
        /\ UNCHANGED <<mode, up, row, tree, dirWatch, op, watch, repoVars, bounds, excused>> /\ unsynced' = unsynced
    BY <1>11 DEF PruneOnDisk, histVars
  <2>2. st \in Pull /\ st.pc = "list" /\ st.before = puller[p].before
    BY <1>0 DEF Pull
  <2> HIDE DEF st
  <2> QED BY <1>0, <1>3, <1>5, <2>1, <2>2
<1>12. CASE PruneList(p)
  <2> DEFINE keep == {r \in puller[p].todo : row[r] # None /\ ~ Protected(r)}
             st == [puller[p] EXCEPT !.pc = "prune", !.todo = keep]
  <2>1. /\ PullGoto(p, st)
        /\ UNCHANGED <<mode, up, row, tree, dirWatch, op, watch, repoVars, bounds, excused>> /\ unsynced' = unsynced
    BY <1>12 DEF PruneList, histVars
  <2>2. keep \subseteq Resource
    BY <1>0 DEF Pull
  <2> HIDE DEF keep
  <2>3. st \in Pull /\ st.pc = "prune" /\ st.before = puller[p].before
    BY <1>0, <2>2 DEF Pull
  <2> HIDE DEF st
  <2> QED BY <1>0, <1>3, <1>5, <2>1, <2>3
<1>13. ASSUME NEW r \in Resource, PruneDelete(p, r) PROVE GitBase'
  <2> DEFINE st == [puller[p] EXCEPT !.todo = puller[p].todo \ {r}]
  <2>1. /\ Submits(r, GitOpsDelete) /\ PullGoto(p, st) /\ puller[p].pc = "prune"
        /\ UNCHANGED <<mode, up, row, tree, dirWatch, watch, repoVars, bounds, unsynced>>
    BY <1>13 DEF PruneDelete, At
  <2>2. st \in Pull /\ st.pc = "prune" /\ st.before = puller[p].before
    BY <1>0, <2>1 DEF Pull
  <2> HIDE DEF st
  <2> QED BY <1>0, <1>4, <2>1, <2>2, GitOpsRequests
<1>14. CASE PruneEnds(p)
  <2>1. /\ PullGoto(p, NoPull)
        /\ UNCHANGED <<mode, up, row, tree, dirWatch, op, watch, repoVars, bounds, excused>> /\ unsynced' = unsynced
    BY <1>14 DEF PruneEnds, histVars
  <2> QED BY <1>0, <1>00, <1>3, <1>5, <2>1
<1> QED BY <1>1, <1>2, <1>6, <1>7, <1>8, <1>9, <1>10, <1>11, <1>12, <1>13, <1>14, <1>15 DEF Pulls

LEMMA PeopleBase ==
  ASSUME GitBase,
         \/ \E r \in Resource, f \in EditedTo : UserEdits(r, f)
         \/ \E r \in Resource, f \in Upstream : UpstreamCommits(r, f)
         \/ \E q \in Client : ClientSubmits(q)
         \/ Push \/ RepoPull
  PROVE  GitBase'
<1>0. /\ local \in Seq(Commit) /\ remote \in Seq(Commit) /\ tree \in Trees /\ excused \subseteq Resource
      /\ mode \in Modes /\ up \in BOOLEAN /\ row \in [Resource -> Row \cup {None}] /\ unsynced \in BOOLEAN
      /\ edits \in 0..mode.edits /\ pulls \in 0..mode.pulls /\ stops \in 0..mode.stops
      /\ mode.edits \in Nat
  BY Constants DEF GitBase, TypeOK
<1>1. Edit /\ UNCHANGED <<mode, pulls, stops>> =>
        edits' \in 0..mode'.edits /\ pulls' \in 0..mode'.pulls /\ stops' \in 0..mode'.stops
  BY <1>0 DEF Edit
<1>2. ASSUME NEW r \in Resource, NEW f \in EditedTo, UserEdits(r, f) PROVE GitBase'
  <2> DEFINE t == [tree EXCEPT ![r] = f]
  <2>1. Edit /\ Rewrite(t) /\ UNCHANGED <<mode, up, row, op, repoVars, puller, pulls, stops, unsynced>>
    BY <1>2 DEF UserEdits
  <2>2. t \in Trees
    BY <1>0, Constants DEF Trees
  <2> HIDE DEF t
  <2>3. tree' \in Trees /\ watch' \in [Resource -> WatchOf] /\ TimerShape' /\ excused' \subseteq Resource
        /\ dirWatch' \in DirWatches
    BY <2>1, <2>2, RewriteType
  <2> QED BY <1>0, <1>1, <2>1, <2>3, Unconcerned, Together DEF repoVars
<1>3. ASSUME NEW r \in Resource, NEW f \in Upstream, UpstreamCommits(r, f) PROVE GitBase'
  <2>1. /\ Edit /\ remote' = Append(remote, [tree |-> [Tip.tree EXCEPT ![r] = f], by |-> "upstream"])
        /\ UNCHANGED <<mode, up, row, tree, dirWatch, op, watch, local, puller, pulls, stops, histVars>>
    BY <1>3 DEF UpstreamCommits
  <2>2. remote' \in Seq(Commit) /\ HistoryShape'
    <3>1. Len(remote) \in Nat /\ Len(remote) > 0
      BY <1>0 DEF GitBase, HistoryShape
    <3>2. Tip \in Commit
      BY <1>0, <3>1 DEF Tip
    <3>3. [Tip.tree EXCEPT ![r] = f] \in Trees
      BY <3>2, Constants DEF Commit, Trees
    <3>4. [tree |-> [Tip.tree EXCEPT ![r] = f], by |-> "upstream"] \in Commit
      BY <3>3 DEF Commit
    <3>5. remote' \in Seq(Commit) /\ Len(remote') > 0
      BY <1>0, <2>1, <3>4
    <3> QED BY <2>1, <3>5 DEF GitBase, HistoryShape
  <2> QED BY <1>0, <1>1, <2>1, <2>2, Unconcerned, Together DEF histVars
<1>4. ASSUME NEW q \in Client, ClientSubmits(q) PROVE GitBase'
  <2> DEFINE o == [type |-> q.type, spec |-> q.spec, source |-> "cli", at |-> "pending"]
  <2>1. /\ Edit /\ op[q.res] = None /\ op' = [op EXCEPT ![q.res] = o]
        /\ UNCHANGED <<mode, up, row, tree, dirWatch, watch, repoVars, puller, pulls, stops, histVars>>
    BY <1>4 DEF ClientSubmits
  <2>2. q.res \in Resource /\ o \in Oper /\ o.at = "pending" /\ (o.type = "delete" <=> o.spec = None)
    BY <1>4, GitOpsConstants DEF Oper, Source
  <2> HIDE DEF o
  <2>3. Submits(q.res, o)
    BY <2>1 DEF Submits, histVars
  <2>4. op' \in [Resource -> Oper \cup {None}] /\ OpShape'
    BY <2>1, <2>2, <2>3, SubmitsType
  <2> QED BY <1>0, <1>1, <2>1, <2>4, Unconcerned, Together DEF repoVars, histVars
<1>5. CASE Push
  <2>1. remote' = local /\ UNCHANGED <<mode, up, row, tree, dirWatch, op, watch, local, puller, bounds, histVars>>
    BY <1>5 DEF Push
  <2>2. remote' \in Seq(Commit) /\ HistoryShape'
    BY <1>0, <2>1 DEF GitBase, HistoryShape
  <2> QED BY <1>0, <2>1, <2>2, Unconcerned, Together DEF histVars
<1>6. CASE RepoPull
  <2>1. FastForwards /\ UNCHANGED <<mode, up, row, op, remote, puller, bounds, unsynced>>
    BY <1>6 DEF RepoPull
  <2>2. /\ local' \in Seq(Commit) /\ Len(local') >= Len(local)
        /\ tree' \in Trees /\ watch' \in [Resource -> WatchOf] /\ TimerShape' /\ excused' \subseteq Resource
        /\ dirWatch' \in DirWatches
    BY <2>1, ForwardType
  <2>3. puller' \in [Puller -> Pull] /\ PullShape' /\ HistoryShape'
    BY <2>1, <2>2, HistoryGrows, ForwardType DEF GitBase, HistoryShape
  <2> QED BY <1>0, <2>1, <2>2, <2>3, Unconcerned, Together
<1> QED BY <1>2, <1>3, <1>4, <1>5, <1>6
LEMMA LifeBase ==
  ASSUME GitBase, Crash \/ Restart
  PROVE  GitBase'
<1>0. /\ mode \in Modes /\ up \in BOOLEAN /\ row \in [Resource -> Row \cup {None}] /\ unsynced \in BOOLEAN
      /\ edits \in 0..mode.edits /\ pulls \in 0..mode.pulls /\ stops \in 0..mode.stops
      /\ mode.stops \in Nat /\ tree \in Trees /\ Len(local) \in Nat
  BY Constants DEF GitBase, TypeOK
<1>1. CASE Crash
  <2>1. /\ stops < mode.stops /\ up' = FALSE /\ stops' = stops + 1 /\ excused' = Resource /\ unsynced' = FALSE
        /\ op' \in [Resource -> Oper \cup {None}]
        /\ \A r \in Resource : op'[r] = None \/ (op'[r] = op[r] /\ op[r].at = "pending")
        /\ watch' = [r \in Resource |-> Quiet] /\ puller' = [p \in Puller |-> NoPull]
        /\ dirWatch' \in DirWatches
        /\ UNCHANGED <<mode, row, tree, repoVars, edits, pulls>>
    BY <1>1 DEF Crash, DirWatches
  <2>2. OpShape'
    BY <2>1 DEF GitBase, OpShape
  <2>3. watch' \in [Resource -> WatchOf] /\ TimerShape'
    BY <2>1, ConstantTypes DEF TimerShape
  <2>4. puller' \in [Puller -> Pull] /\ PullShape'
    BY <1>0, <2>1, ConstantTypes DEF PullShape, repoVars
  <2>5. edits' \in 0..mode'.edits /\ pulls' \in 0..mode'.pulls /\ stops' \in 0..mode'.stops
    BY <1>0, <2>1
  <2>6. up' \in BOOLEAN /\ unsynced' \in BOOLEAN
    BY <2>1
  <2> QED BY <1>0, <2>1, <2>2, <2>3, <2>4, <2>5, <2>6, Unconcerned, Together
<1>2. CASE Restart
  <2>1. /\ up' = TRUE /\ tree' = Reconciled /\ excused' \subseteq Resource
        /\ UNCHANGED <<mode, row, op, watch, repoVars, puller, bounds, unsynced>>
    BY <1>2 DEF Restart
  <2>2. tree' \in Trees
    <3>1. \A r \in Resource : row[r] # None => row[r].spec \in File
      BY <1>0 DEF Row, File
    <3> QED BY <1>0, <2>1, <3>1 DEF Reconciled, Trees
  <2>3. up' \in BOOLEAN
    BY <2>1
  <2>4. dirWatch' \in DirWatches
    BY <1>2 DEF Restart, DirWatches
  <2> QED BY <1>0, <2>1, <2>2, <2>3, <2>4, Unconcerned, Together DEF repoVars
<1> QED BY <1>1, <1>2

\* A directory's watch concerns no other part of the state.
LEMMA AddsBase ==
  ASSUME GitBase, NEW d \in Dirs, AddsWatch(d)
  PROVE  GitBase'
<1>1. UNCHANGED <<mode, up, row, tree, op, watch, repoVars, puller, bounds, histVars>>
  BY DEF AddsWatch
<1>2. dirWatch' \in DirWatches
  BY DEF AddsWatch, GitBase, TypeOK, DirWatches
<1> QED BY <1>1, <1>2, Unconcerned, Together DEF repoVars, histVars

LEMMA BaseStep == GitBase /\ [Next]_vars => GitBase'
<1> SUFFICES ASSUME GitBase, [Next]_vars PROVE GitBase'
  OBVIOUS
<1>1. CASE Next
  BY <1>1, WatchesBase, OperatesBase, PullsBase, PeopleBase, LifeBase, AddsBase DEF Next
<1>2. CASE UNCHANGED vars
  BY <1>2, Unconcerned, Together DEF vars, repoVars, bounds, histVars, GitBase, TypeOK
<1> QED BY <1>1, <1>2

\* Rows, files, timers, pulls and histories have the shapes the code gives
\* them, and what a pull has read of HEAD never exceeds the history.
THEOREM GitTypes == GitOpsSpec => []GitBase
BY InitBase, BaseStep, PTL DEF GitOpsSpec
-------------------------------------------------------------------------------
(* Rows and files agree at rest.                                           *)

\* A timer will look at the file, or has read what it holds and will submit it.
Speaks(t, f) ==
  \/ t.st \in {"armed", "fired", "cleared"} /\ t.kind = (IF f = None THEN "remove" ELSE "write")
  \/ t.st = "submit" /\ t.spec = f

\* What can be said of a resource whose latest change nobody has given up: row
\* and file agree, or an operation will make them agree, or a timer speaks for
\* the file.
Agree(r) == tree[r] = Broken \/ (IF row[r] = None THEN tree[r] = None ELSE tree[r] = row[r].spec)
Underway(r) == op[r] # None /\ op[r].at \in {"pending", "saved"}
Noticed(r) == \E i \in Slot : Speaks(watch[r].slot[i], tree[r])
Accounted(r) == up /\ r \notin excused => Agree(r) \/ Underway(r) \/ Noticed(r)
SettleInv == \A r \in Resource : Accounted(r)

LEMMA InitSettle == Init => SettleInv
BY DEF Init, SettleInv, Accounted, Agree

\* A resource that a step leaves alone stays accounted for.
LEMMA LeftAlone ==
  ASSUME NEW x \in Resource, Accounted(x), up' = up, row'[x] = row[x], tree'[x] = tree[x],
         op'[x] = op[x] \/ Underway(x)', \A j \in Slot : watch'[x].slot[j] = watch[x].slot[j],
         x \in excused => x \in excused'
  PROVE  Accounted(x)'
BY DEF Accounted, Agree, Underway, Noticed, Speaks

\* A submission accounts for its resource, and leaves the others alone.
LEMMA SubmitsAccounts ==
  ASSUME GitBase, SettleInv, NEW r \in Resource, NEW q \in Oper, q.at = "pending",
         q.type = "delete" <=> q.spec = None, Submits(r, q), up' = up, row' = row, tree' = tree,
         \A x \in Resource, j \in Slot : x # r => watch'[x].slot[j] = watch[x].slot[j]
  PROVE  SettleInv'
<1>1. /\ excused \subseteq excused'
      /\ \A x \in Resource : x # r => op'[x] = op[x]
      /\ r \in excused' \/ (op'[r] # None /\ op'[r].at = "pending")
  BY SubmitsType
<1> SUFFICES ASSUME NEW x \in Resource PROVE Accounted(x)'
  BY DEF SettleInv
<1>2. CASE x = r
  BY <1>1, <1>2 DEF Accounted, Underway
<1>3. CASE x # r
  BY <1>1, <1>3, LeftAlone DEF SettleInv
<1> QED BY <1>2, <1>3

\* So does rewriting the directory.
LEMMA RewriteAccounts ==
  ASSUME GitBase, SettleInv, NEW t \in Trees, Rewrite(t), up' = up, row' = row,
         NEW x \in Resource, op'[x] = op[x]
  PROVE  Accounted(x)'
<1>1. \/ /\ watch'[x] = watch[x] /\ x \in excused'
      \/ /\ watch'[x] = watch[x] /\ tree'[x] = tree[x] /\ (x \in excused => x \in excused')
      \/ \E i \in Slot : /\ watch'[x].slot[i].st = "armed"
                         /\ watch'[x].slot[i].kind = IF tree'[x] = None THEN "remove" ELSE "write"
  BY RewriteType
<1>2. CASE x \in excused'
  BY <1>2 DEF Accounted
<1>3. CASE watch'[x] = watch[x] /\ tree'[x] = tree[x] /\ (x \in excused => x \in excused')
  BY <1>3, LeftAlone DEF SettleInv
<1>4. CASE \E i \in Slot : /\ watch'[x].slot[i].st = "armed"
                           /\ watch'[x].slot[i].kind = IF tree'[x] = None THEN "remove" ELSE "write"
  BY <1>4 DEF Accounted, Noticed, Speaks
<1> QED BY <1>1, <1>2, <1>3, <1>4

LEMMA WatchesSettle ==
  ASSUME GitBase, SettleInv, NEW r \in Resource, NEW i \in Slot, Watches(r, i)
  PROVE  SettleInv'
<1>0. watch \in [Resource -> WatchOf] /\ watch[r] \in WatchOf /\ watch[r].slot[i] \in Timer /\ Accounted(r)
      /\ tree[r] \in File
  BY DEF GitBase, TypeOK, WatchOf, SettleInv, Trees
\* When no operation and no copy changes, only this timer's resource matters.
<1>1. ASSUME UNCHANGED <<up, row, tree, op, excused>>, Accounted(r)',
             \A x \in Resource, j \in Slot : x # r => watch'[x].slot[j] = watch[x].slot[j]
      PROVE  SettleInv'
  <2> SUFFICES ASSUME NEW x \in Resource, x # r PROVE Accounted(x)'
    BY <1>1 DEF SettleInv
  <2> QED BY <1>1, LeftAlone DEF SettleInv
<1>2. CASE Expire(r, i)
  <2>1. /\ SetTimer(r, i, "fired", None) /\ watch[r].slot[i].st = "armed"
        /\ UNCHANGED <<up, row, tree, op, excused>>
    BY <1>2 DEF Expire, histVars
  <2>2. /\ \A x \in Resource, j \in Slot : x # r \/ j # i => watch'[x].slot[j] = watch[x].slot[j]
        /\ watch'[r].slot[i].st = "fired" /\ watch'[r].slot[i].kind = watch[r].slot[i].kind
    BY <2>1, TimerSet
  <2>3. Accounted(r)'
    BY <1>0, <2>1, <2>2 DEF Accounted, Agree, Underway, Noticed, Speaks
  <2> QED BY <1>1, <2>1, <2>2, <2>3
<1>3. CASE Clear(r, i)
  <2>1. /\ watch[r].slot[i].st = "fired" /\ UNCHANGED <<up, row, tree, op, excused>>
    BY <1>3 DEF Clear, histVars
  <2>2. /\ \A x \in Resource, j \in Slot : x # r \/ j # i => watch'[x].slot[j] = watch[x].slot[j]
        /\ watch'[r].slot[i].st = "cleared" /\ watch'[r].slot[i].kind = watch[r].slot[i].kind
    BY <1>3, ClearsTimer
  <2>3. Accounted(r)'
    BY <1>0, <2>1, <2>2 DEF Accounted, Agree, Underway, Noticed, Speaks
  <2> QED BY <1>1, <2>1, <2>2, <2>3
<1>4. CASE ProcessRemove(r, i)
  <2>1. /\ SetTimer(r, i, "idle", None) /\ UNCHANGED <<up, row, tree>>
        /\ IF mode.deleteOnRemove THEN Submits(r, GitOpsDelete)
           ELSE excused' = excused \cup {r} /\ UNCHANGED op
    BY <1>4 DEF ProcessRemove
  <2>2. \A x \in Resource, j \in Slot : x # r => watch'[x].slot[j] = watch[x].slot[j]
    BY <2>1, TimerSet
  <2>3. CASE mode.deleteOnRemove
    BY <2>1, <2>2, <2>3, SubmitsAccounts, GitOpsRequests
  <2>4. CASE ~mode.deleteOnRemove
    <3> SUFFICES ASSUME NEW x \in Resource PROVE Accounted(x)'
      BY DEF SettleInv
    <3>1. CASE x = r
      BY <2>1, <2>4, <3>1 DEF Accounted
    <3>2. CASE x # r
      BY <2>1, <2>2, <2>4, <3>2, LeftAlone DEF SettleInv
    <3> QED BY <3>1, <3>2
  <2> QED BY <2>3, <2>4
<1>5. CASE ProcessWrite(r, i)
  <2>1. /\ IF NeedsApply(r) THEN SetTimer(r, i, "submit", tree[r]) ELSE SetTimer(r, i, "idle", None)
        /\ watch[r].slot[i].st = "cleared" /\ watch[r].slot[i].kind = "write"
        /\ UNCHANGED <<up, row, tree, op, excused>>
    BY <1>5 DEF ProcessWrite, histVars
  <2>2. CASE NeedsApply(r)
    <3>1. tree[r] \in Spec
      BY <2>2 DEF NeedsApply
    <3>2. /\ \A x \in Resource, j \in Slot : x # r \/ j # i => watch'[x].slot[j] = watch[x].slot[j]
          /\ watch'[r].slot[i].st = "submit" /\ watch'[r].slot[i].spec = tree[r]
      BY <2>1, <2>2, <3>1, TimerSet
    <3>3. Accounted(r)'
      BY <2>1, <3>2 DEF Accounted, Noticed, Speaks
    <3> QED BY <1>1, <2>1, <3>2, <3>3
  <2>3. CASE ~NeedsApply(r)
    <3>1. /\ \A x \in Resource, j \in Slot : x # r \/ j # i => watch'[x].slot[j] = watch[x].slot[j]
      BY <2>1, <2>3, TimerSet
    <3>2. Agree(r) \/ tree[r] = None
      BY <1>0, <2>3 DEF NeedsApply, matchesStored, Agree, File
    <3>3. tree[r] = None => ~Speaks(watch[r].slot[i], tree[r])
      BY <2>1 DEF Speaks
    <3>4. Accounted(r)'
      BY <1>0, <2>1, <3>1, <3>2, <3>3 DEF Accounted, Agree, Underway, Noticed, Speaks
    <3> QED BY <1>1, <2>1, <3>1, <3>4
  <2> QED BY <2>2, <2>3
<1>6. CASE ProcessSubmit(r, i)
  <2>1. /\ Submits(r, GitOpsApply(watch[r].slot[i].spec)) /\ SetTimer(r, i, "idle", None)
        /\ UNCHANGED <<up, row, tree>> /\ watch[r].slot[i].spec \in Spec
    BY <1>6 DEF ProcessSubmit, GitBase, TimerShape
  <2>2. \A x \in Resource, j \in Slot : x # r => watch'[x].slot[j] = watch[x].slot[j]
    BY <2>1, TimerSet
  <2>3. /\ GitOpsApply(watch[r].slot[i].spec) \in Oper /\ GitOpsApply(watch[r].slot[i].spec).at = "pending"
        /\ GitOpsApply(watch[r].slot[i].spec).type = "delete" <=> GitOpsApply(watch[r].slot[i].spec).spec = None
    BY <2>1, GitOpsRequests
  <2> QED BY <2>1, <2>2, <2>3, SubmitsAccounts
<1> QED BY <1>2, <1>3, <1>4, <1>5, <1>6 DEF Watches
LEMMA OperatesSettle ==
  ASSUME GitBase, SettleInv, NEW r \in Resource, Operates(r)
  PROVE  SettleInv'
\* Only the operation's own resource matters where no file changes.
<1>1. ASSUME UNCHANGED <<up, tree, watch>>, Accounted(r)', \A x \in Resource : x # r => row'[x] = row[x],
             \A x \in Resource : x # r => op'[x] = op[x], excused \subseteq excused'
      PROVE  SettleInv'
  <2> SUFFICES ASSUME NEW x \in Resource, x # r PROVE Accounted(x)'
    BY <1>1 DEF SettleInv
  <2> QED BY <1>1, LeftAlone DEF SettleInv
<1>2. CASE OpEndsUnsaved(r) \/ OpMirrorFails(r)
  <2>1. /\ op' = [op EXCEPT ![r] = None] /\ excused' = excused \cup {r}
        /\ UNCHANGED <<up, row, tree, watch>>
    BY <1>2 DEF OpEndsUnsaved, OpMirrorFails
  <2>2. \A x \in Resource : x # r => op'[x] = op[x]
    BY <2>1, EndsType
  <2>3. Accounted(r)'
    BY <2>1 DEF Accounted
  <2> QED BY <1>1, <2>1, <2>2, <2>3
<1>3. CASE OpSaves(r)
  <2>1. Goes(r, "saved") /\ op[r] # None /\ UNCHANGED <<up, tree, watch, excused>>
    BY <1>3 DEF OpSaves, histVars
  <2>2. op'[r] # None /\ op'[r].at = "saved" /\ \A x \in Resource : x # r => op'[x] = op[x]
    BY <2>1, GoesType
  <2>3. \A x \in Resource : x # r => row'[x] = row[x]
    BY <1>3, SavesType
  <2>4. Accounted(r)'
    BY <2>2 DEF Accounted, Underway
  <2> QED BY <1>1, <2>1, <2>2, <2>3, <2>4
<1>4. CASE OpMirrors(r)
  <2> DEFINE t == [tree EXCEPT ![r] = Mirrored(r)]
  <2>1. /\ op[r] # None /\ op[r].at = "saved" /\ Rewrite(t) /\ up' = up /\ row' = row
        /\ IF mode.git THEN Goes(r, "mirrored") ELSE op' = [op EXCEPT ![r] = None]
    BY <1>4 DEF OpMirrors
  <2>2. t \in Trees /\ t[r] = op[r].spec
    BY <2>1, MirroredTree
  <2> HIDE DEF t
  <2>3. \A x \in Resource : x # r => op'[x] = op[x]
    BY <2>1, GoesType, EndsType
  <2>4. Accounted(r)'
    <3>1. tree' = t
      BY <2>1, <2>2, RewriteType
    <3>2. IF op[r].spec = None THEN row[r] = None ELSE row[r] # None /\ row[r].spec = op[r].spec
      BY <2>1 DEF GitBase, OpShape
    <3> QED BY <2>1, <2>2, <3>1, <3>2 DEF Accounted, Agree
  <2>5. ASSUME NEW x \in Resource, x # r PROVE Accounted(x)'
    BY <2>1, <2>2, <2>3, <2>5, RewriteAccounts
  <2> QED BY <2>4, <2>5 DEF SettleInv
\* Past the disk write, the operation no longer accounts for anything.
<1>5. CASE OpCommits(r) \/ OpPushes(r)
  <2>1. /\ op[r] # None /\ op[r].at \in {"mirrored", "committed"} /\ UNCHANGED <<up, row, tree, watch, excused>>
        /\ op' = [op EXCEPT ![r] = None] \/ Goes(r, "committed")
    BY <1>5 DEF OpCommits, OpPushes, histVars
  <2>2. \A x \in Resource : x # r => op'[x] = op[x]
    BY <2>1, GoesType, EndsType
  <2>3. Accounted(r)'
    BY <2>1 DEF SettleInv, Accounted, Agree, Underway, Noticed
  <2> QED BY <1>1, <2>1, <2>2, <2>3
<1> QED BY <1>2, <1>3, <1>4, <1>5 DEF Operates

LEMMA PullsSettle ==
  ASSUME GitBase, SettleInv, NEW p \in Puller, PullStarts(p) \/ Pulls(p)
  PROVE  SettleInv'
<1>1. CASE UNCHANGED <<up, row, tree, op, watch, excused>>
  BY <1>1, LeftAlone DEF SettleInv
<1>2. CASE PullAdvances(p)
  <2>1. FastForwards /\ UNCHANGED <<up, row, op>>
    BY <1>2 DEF PullAdvances
  <2>2. PICK t \in Trees : Rewrite(t)
    BY <2>1, ForwardType
  <2> SUFFICES ASSUME NEW x \in Resource PROVE Accounted(x)'
    BY DEF SettleInv
  <2>3. up' = up /\ row' = row /\ op'[x] = op[x]
    BY <2>1
  <2> QED BY <2>2, <2>3, RewriteAccounts
<1>3. CASE SyncSubmit(p)
  <2>1. /\ Submits(puller[p].cur, GitOpsApply(puller[p].spec)) /\ puller[p].pc = "submit"
        /\ UNCHANGED <<up, row, tree, watch>>
    BY <1>3 DEF SyncSubmit, At
  <2>2. puller[p].cur \in Resource /\ puller[p].spec \in Spec
    BY <2>1 DEF GitBase, PullShape
  <2>3. /\ GitOpsApply(puller[p].spec) \in Oper /\ GitOpsApply(puller[p].spec).at = "pending"
        /\ GitOpsApply(puller[p].spec).type = "delete" <=> GitOpsApply(puller[p].spec).spec = None
    BY <2>2, GitOpsRequests
  <2> QED BY <2>1, <2>2, <2>3, SubmitsAccounts
<1>4. ASSUME NEW r \in Resource, PruneDelete(p, r) PROVE SettleInv'
  <2>1. Submits(r, GitOpsDelete) /\ UNCHANGED <<up, row, tree, watch>>
    BY <1>4 DEF PruneDelete
  <2> QED BY <2>1, SubmitsAccounts, GitOpsRequests
<1>5. \/ UNCHANGED <<up, row, tree, op, watch, excused>>
      \/ PullAdvances(p) \/ SyncSubmit(p) \/ \E r \in Resource : PruneDelete(p, r)
  BY DEF Pulls, PullStarts, PullDoesNothing, PullDecides, PullLosesHead, SyncFile, SyncEnds,
         PruneOnDisk, PruneList, PruneEnds, histVars
<1> QED BY <1>1, <1>2, <1>3, <1>4, <1>5

LEMMA PeopleSettle ==
  ASSUME GitBase, SettleInv,
         \/ \E r \in Resource, f \in EditedTo : UserEdits(r, f)
         \/ \E r \in Resource, f \in Upstream : UpstreamCommits(r, f)
         \/ \E q \in Client : ClientSubmits(q)
         \/ Push \/ RepoPull
  PROVE  SettleInv'
<1>1. ASSUME NEW t \in Trees, Rewrite(t), UNCHANGED <<up, row, op>> PROVE SettleInv'
  <2> SUFFICES ASSUME NEW x \in Resource PROVE Accounted(x)'
    BY DEF SettleInv
  <2>1. up' = up /\ row' = row /\ op'[x] = op[x]
    BY <1>1
  <2> QED BY <1>1, <2>1, RewriteAccounts
<1>2. ASSUME NEW r \in Resource, NEW f \in EditedTo, UserEdits(r, f) PROVE SettleInv'
  <2>1. Rewrite([tree EXCEPT ![r] = f]) /\ UNCHANGED <<up, row, op>>
    BY <1>2 DEF UserEdits
  <2>2. [tree EXCEPT ![r] = f] \in Trees
    BY Constants DEF Trees, GitBase, TypeOK
  <2> QED BY <1>1, <2>1, <2>2
<1>3. ASSUME UNCHANGED <<up, row, tree, op, watch, excused>> PROVE SettleInv'
  BY <1>3, LeftAlone DEF SettleInv
<1>4. ASSUME NEW q \in Client, ClientSubmits(q) PROVE SettleInv'
  <2> DEFINE o == [type |-> q.type, spec |-> q.spec, source |-> "cli", at |-> "pending"]
  <2>1. /\ op[q.res] = None /\ op' = [op EXCEPT ![q.res] = o] /\ UNCHANGED <<up, row, tree, watch, excused>>
    BY <1>4 DEF ClientSubmits, histVars
  <2>2. q.res \in Resource /\ o \in Oper /\ o.at = "pending" /\ (o.type = "delete" <=> o.spec = None)
    BY <1>4, GitOpsConstants DEF Oper, Source
  <2> HIDE DEF o
  <2>3. Submits(q.res, o)
    BY <2>1 DEF Submits
  <2> QED BY <2>1, <2>2, <2>3, SubmitsAccounts
<1>5. CASE RepoPull
  <2>1. FastForwards /\ UNCHANGED <<up, row, op>>
    BY <1>5 DEF RepoPull
  <2>2. PICK t \in Trees : Rewrite(t)
    BY <2>1, ForwardType
  <2> QED BY <1>1, <2>1, <2>2
<1>6. ASSUME NEW r \in Resource, NEW f \in Upstream, UpstreamCommits(r, f) PROVE SettleInv'
  BY <1>3, <1>6 DEF UpstreamCommits, histVars
<1>7. CASE Push
  BY <1>3, <1>7 DEF Push, histVars
<1> QED BY <1>2, <1>4, <1>5, <1>6, <1>7

\* DiskMirror.Reconcile restores the file of a row that has none, so what it
\* leaves apart is what a person has written.
LEMMA LifeSettle ==
  ASSUME GitBase, SettleInv, Crash \/ Restart
  PROVE  SettleInv'
<1>1. CASE Crash
  BY <1>1 DEF Crash, SettleInv, Accounted
<1>2. CASE Restart
  <2> SUFFICES ASSUME NEW x \in Resource, x \notin excused' PROVE Agree(x)'
    BY DEF SettleInv, Accounted
  <2>1. /\ tree' = Reconciled /\ row' = row
        /\ Reconciled[x] = None \/ matchesStored(x, Reconciled[x])
    BY <1>2 DEF Restart
  <2>2. Reconciled[x] = IF row[x] # None /\ tree[x] = None THEN row[x].spec ELSE tree[x]
    BY DEF Reconciled
  <2>3. row[x] # None => row[x].spec # None
    BY NoneIsNothing DEF GitBase, TypeOK, Row
  <2> QED BY <2>1, <2>2, <2>3 DEF Agree, matchesStored
<1> QED BY <1>1, <1>2

LEMMA SettleStep == GitBase /\ SettleInv /\ [Next]_vars => SettleInv'
<1> SUFFICES ASSUME GitBase, SettleInv, [Next]_vars PROVE SettleInv'
  OBVIOUS
<1>3. ASSUME NEW d \in Dirs, AddsWatch(d) PROVE SettleInv'
  BY <1>3, LeftAlone DEF AddsWatch, histVars, SettleInv
<1>1. CASE Next
  BY <1>1, <1>3, WatchesSettle, OperatesSettle, PullsSettle, PeopleSettle, LifeSettle DEF Next
<1>2. CASE UNCHANGED vars
  BY <1>2, LeftAlone DEF vars, histVars, SettleInv
<1> QED BY <1>1, <1>2

LEMMA RestIsAgreed == SettleInv => SettledAgree
<1> SUFFICES ASSUME SettleInv, Settled, NEW r \in Resource \ excused PROVE Agree(r)
  BY DEF SettledAgree, Agree
<1>1. ~Underway(r) /\ ~Noticed(r) /\ up
  BY DEF Settled, Underway, Noticed, Speaks
<1> QED BY <1>1 DEF SettleInv, Accounted

\* Once timers, operations and pulls have come to rest, every file and its row
\* agree unless its latest change was given up, for want of a watch or for one of
\* the other reasons SettledAgree names: for every interleaving of file events,
\* directories, operations, pulls, prunes and crashes.
THEOREM SettledIsAgreed == GitOpsSpec => []SettledAgree
<1>1. GitOpsSpec => []SettleInv
  BY InitSettle, GitTypes, SettleStep, PTL DEF GitOpsSpec
<1> QED BY <1>1, RestIsAgreed, PTL

-------------------------------------------------------------------------------
(* What a pull brought is walked.                                          *)

\* A goroutine that has pulled a longer history than it started from still sees
\* that after any step that is not its own, for histories only grow.
LEMMA StillAdvanced ==
  ASSUME GitBase, PulledIsSynced, unsynced, up' = up, NEW p \in Puller, puller[p].pc # "pulled",
         local' = local \/ (local' \in Seq(Commit) /\ Len(local') >= Len(local)),
         \A q \in Puller : q # p => puller'[q] = puller[q]
  PROVE  PulledIsSynced'
<1>1. PICK q \in Puller : up /\ puller[q].pc = "pulled" /\ Len(local) > puller[q].before
  BY DEF PulledIsSynced, At, HeadAdvanced
<1>2. puller'[q] = puller[q]
  BY <1>1
<1>3. Len(local) \in Nat /\ Len(local') \in Nat /\ puller[q].before \in Nat
  BY DEF GitBase, TypeOK, Pull
<1>4. Len(local') > puller'[q].before
  BY <1>1, <1>2, <1>3
<1> QED BY <1>1, <1>2, <1>4 DEF PulledIsSynced, At, HeadAdvanced

\* The same where no pull goes on.
LEMMA NoPullGoes ==
  ASSUME GitBase, PulledIsSynced, UNCHANGED <<up, puller, unsynced>>,
         local' = local \/ (local' \in Seq(Commit) /\ Len(local') >= Len(local))
  PROVE  PulledIsSynced'
<1> SUFFICES ASSUME unsynced PROVE \E p \in Puller : At(p, "pulled")' /\ HeadAdvanced(p)'
  BY DEF PulledIsSynced
<1>1. PICK q \in Puller : up /\ puller[q].pc = "pulled" /\ Len(local) > puller[q].before
  BY DEF PulledIsSynced, At, HeadAdvanced
<1>2. Len(local) \in Nat /\ Len(local') \in Nat /\ puller[q].before \in Nat
  BY DEF GitBase, TypeOK, Pull
<1>3. Len(local') > puller'[q].before
  BY <1>1, <1>2
<1> QED BY <1>1, <1>3 DEF At, HeadAdvanced

LEMMA PullsSync ==
  ASSUME GitBase, PulledIsSynced, NEW p \in Puller, PullStarts(p) \/ Pulls(p)
  PROVE  PulledIsSynced'
<1>1. CASE PullAdvances(p)
  <2>1. up /\ up' = up /\ puller' = [puller EXCEPT ![p] = [puller[p] EXCEPT !.pc = "pulled"]] /\ FastForwards
    BY <1>1 DEF PullAdvances, PullGoto, At
  <2>2. puller \in [Puller -> Pull] /\ puller[p].before \in Nat /\ puller[p].before <= Len(local)
    BY DEF GitBase, TypeOK, PullShape, Pull
  <2>3. puller'[p].pc = "pulled" /\ puller'[p].before = puller[p].before
    BY <2>1, <2>2 DEF Pull
  <2>4. Len(local') > Len(local) /\ Len(local) \in Nat /\ Len(local') \in Nat
    BY <2>1, ForwardType
  <2>5. Len(local') > puller'[p].before
    BY <2>2, <2>3, <2>4
  <2> QED BY <2>1, <2>3, <2>5 DEF PulledIsSynced, At, HeadAdvanced
<1>2. CASE PullDecides(p)
  <2>1. CASE HeadAdvanced(p)
    BY <1>2, <2>1 DEF PullDecides, PulledIsSynced
  <2>2. CASE ~HeadAdvanced(p)
    <3> SUFFICES ASSUME unsynced' PROVE \E q \in Puller : At(q, "pulled")' /\ HeadAdvanced(q)'
      BY DEF PulledIsSynced
    <3>1. /\ up' = up /\ unsynced /\ local' = local /\ puller' = [puller EXCEPT ![p] = NoPull]
      BY <1>2, <2>2 DEF PullDecides, PullGoto, repoVars
    <3>2. PICK q \in Puller : At(q, "pulled") /\ HeadAdvanced(q)
      BY <3>1 DEF PulledIsSynced
    <3>3. q # p /\ puller \in [Puller -> Pull]
      BY <2>2, <3>2 DEF GitBase, TypeOK
    <3>4. puller'[q] = puller[q]
      BY <3>1, <3>3
    <3> QED BY <3>1, <3>2, <3>4 DEF At, HeadAdvanced
  <2> QED BY <2>1, <2>2
<1>5. CASE PullLosesHead(p)
  <2> SUFFICES ASSUME unsynced' PROVE \E q \in Puller : At(q, "pulled")' /\ HeadAdvanced(q)'
    BY DEF PulledIsSynced
  <2>1. /\ up' = up /\ unsynced /\ ~HeadAdvanced(p) /\ local' = local
        /\ puller' = [puller EXCEPT ![p] = NoPull]
    BY <1>5 DEF PullLosesHead, PullGoto, repoVars
  <2>2. PICK q \in Puller : At(q, "pulled") /\ HeadAdvanced(q)
    BY <2>1 DEF PulledIsSynced
  <2>3. q # p /\ puller \in [Puller -> Pull]
    BY <2>1, <2>2 DEF GitBase, TypeOK
  <2>4. puller'[q] = puller[q]
    BY <2>1, <2>3
  <2> QED BY <2>1, <2>2, <2>4 DEF At, HeadAdvanced
<1>3. ASSUME NEW st, PullGoto(p, st), puller[p].pc # "pulled", UNCHANGED <<up, unsynced, local>>
      PROVE  PulledIsSynced'
  <2>1. CASE ~unsynced
    BY <1>3, <2>1 DEF PulledIsSynced
  <2>2. CASE unsynced
    <3>1. \A q \in Puller : q # p => puller'[q] = puller[q]
      BY <1>3 DEF PullGoto, GitBase, TypeOK
    <3> QED BY <1>3, <2>2, <3>1, StillAdvanced
  <2> QED BY <2>1, <2>2
<1>4. PullAdvances(p) \/ PullDecides(p) \/ PullLosesHead(p) \/
        (puller[p].pc # "pulled" /\ UNCHANGED <<up, unsynced, local>> /\ \E st : PullGoto(p, st))
  BY DEF Pulls, PullStarts, PullDoesNothing, SyncFile, SyncSubmit, SyncEnds, PruneOnDisk, PruneList,
         PruneDelete, PruneEnds, At, histVars, repoVars
<1> QED BY <1>1, <1>2, <1>3, <1>4, <1>5

LEMMA SyncStep == GitBase /\ PulledIsSynced /\ [Next]_vars => PulledIsSynced'
<1> SUFFICES ASSUME GitBase, PulledIsSynced, [Next]_vars PROVE PulledIsSynced'
  OBVIOUS
<1>1. ASSUME NEW r \in Resource, NEW i \in Slot, Watches(r, i) PROVE PulledIsSynced'
  BY <1>1, NoPullGoes DEF Watches, Expire, Clear, ProcessRemove, ProcessWrite, ProcessSubmit, histVars, repoVars
<1>2. ASSUME NEW r \in Resource, Operates(r) PROVE PulledIsSynced'
  <2>1. UNCHANGED <<up, puller, unsynced>>
    BY <1>2 DEF Operates, OpEndsUnsaved, OpSaves, OpMirrors, OpMirrorFails, OpCommits, OpPushes, histVars
  <2>2. local' = local \/ local' = Append(local, [tree |-> tree, by |-> "controller"])
    BY <1>2 DEF Operates, OpEndsUnsaved, OpSaves, OpMirrors, OpMirrorFails, OpCommits, OpPushes, repoVars
  <2>3. local \in Seq(Commit) /\ [tree |-> tree, by |-> "controller"] \in Commit
    BY DEF GitBase, TypeOK, Commit
  <2>4. local' = local \/ (local' \in Seq(Commit) /\ Len(local') >= Len(local))
    BY <2>2, <2>3
  <2> QED BY <2>1, <2>4, NoPullGoes
<1>3. CASE \E p \in Puller : PullStarts(p) \/ Pulls(p)
  BY <1>3, PullsSync
<1>4. CASE \/ \E r \in Resource, f \in EditedTo : UserEdits(r, f)
           \/ \E r \in Resource, f \in Upstream : UpstreamCommits(r, f)
           \/ \E q \in Client : ClientSubmits(q)
           \/ Push
  BY <1>4, NoPullGoes DEF UserEdits, UpstreamCommits, ClientSubmits, Push, histVars, repoVars
<1>5. CASE RepoPull
  <2>1. FastForwards /\ UNCHANGED <<up, puller, unsynced>>
    BY <1>5 DEF RepoPull
  <2>2. local' \in Seq(Commit) /\ Len(local') >= Len(local)
    BY <2>1, ForwardType
  <2> QED BY <2>1, <2>2, NoPullGoes
<1>6. CASE Crash
  BY <1>6 DEF Crash, PulledIsSynced
<1>7. CASE Restart
  BY <1>7 DEF Restart, PulledIsSynced, At
<1>8. CASE UNCHANGED vars
  BY <1>8, NoPullGoes DEF vars, repoVars, histVars
<1>9. ASSUME NEW d \in Dirs, AddsWatch(d) PROVE PulledIsSynced'
  BY <1>9, NoPullGoes DEF AddsWatch, repoVars, histVars
<1> QED BY <1>1, <1>2, <1>3, <1>4, <1>5, <1>6, <1>7, <1>8, <1>9 DEF Next

\* A pull of PullAndReconcile that advanced HEAD is followed by a walk of the tree,
\* however many goroutines pull at once and read HEAD without the lock, unless a
\* read of HEAD fails after it or the process stops.
THEOREM PullsAreSynced == GitOpsSpec => []PulledIsSynced
<1>1. Init => PulledIsSynced
  BY DEF Init, PulledIsSynced
<1> QED BY <1>1, GitTypes, SyncStep, PTL DEF GitOpsSpec

===============================================================================
