-------------------------- MODULE ResourceWatchProofs --------------------------
(***************************************************************************)
(* Proofs about the watch streams and the list page, for any kinds and     *)
(* resources, any number of visits, cuts and changes.                      *)
(***************************************************************************)
EXTENDS ResourceWatch, TLAPS

\* A visit without an open stream has a blank one; what a poll has still to
\* send is there to be sent.
VisitShape(v) ==
  /\ v.first => v.snapshot = NoRows
  /\ v.at \notin Open => v.first
  /\ v.at = "emit" => \A n \in v.todo : v.matches[n] # None

\* No visit has a controller of the future.
VisitsInv == \A i \in 1..Len(visit) : VisitShape(visit[i]) /\ visit[i].signal <= Len(visit)

WatchBase == TypeOK /\ VisitsInv

\* The page agrees on n with the snapshot of a stream, or with its last poll.
Agrees(v, page, n) ==
  /\ v.snapshot[n] # None => page[n] # None /\ page[n].spec = v.snapshot[n]
  /\ page[n] # None => v.snapshot[n] # None \/ n \in v.held
Told(v, page, n) == page[n] # None /\ page[n].spec = v.matches[n].spec

\* While a poll is being sent, the page is between the two.
Follows(v, page) ==
  \A n \in Name :
    /\ v.at \in {"wait", "list", "filter"} => Agrees(v, page, n)
    /\ v.at = "emit" => IF v.matches[n] # None /\ n \notin v.todo
                        THEN Told(v, page, n) ELSE Agrees(v, page, n)

StreamInv == \A i \in 1..Len(visit) : Alone(i) => Follows(visit[i], rows)

LEMMA StreamInStep == StreamInv => InStep
BY DEF StreamInv, InStep, Follows, Agrees

--------------------------------------------------------------------------------
(* Types.                                                                  *)

LEMMA NoneIsNothing ==
  None \notin Kind /\ None \notin Spec /\ None \notin Seen /\ None \notin Row
BY WatchConstants

LEMMA MaxErrsType == MaxErrs \in Nat /\ MaxErrs > 0
BY WatchConstants

LEMMA NoRowsType ==
  /\ NoRows \in [Name -> Row \cup {None}] /\ NoRows \in [Name -> Spec \cup {None}]
  /\ NoRows \in [Name -> Seen \cup {None}] /\ \A n \in Name : NoRows[n] = None
BY DEF NoRows

LEMMA BlankType ==
  ASSUME NEW k \in Kind, NEW s \in Nat,
         NEW stage \in {"asks", "answered", "connect", "backoff", "over", "refused"}
  PROVE  /\ Blank(k, s, stage) \in Visit /\ Blank(k, s, stage).signal = s
         /\ Blank(k, s, stage).at = stage /\ Blank(k, s, stage).kind = k
         /\ VisitShape(Blank(k, s, stage))
<1>1. 0 \in 0..(MaxErrs - 1)
  BY MaxErrsType
<1>2. stage \notin Open
  BY DEF Open
<1>3. Blank(k, s, stage) \in Visit
  BY <1>1, NoRowsType DEF Blank, Visit
<1> QED BY <1>2, <1>3 DEF Blank, VisitShape

LEMMA RowType ==
  ASSUME NEW k \in Kind, NEW n \in Name, NEW o \in Seen
  PROVE  RowOf(k, n, o) \in Row /\ RowOf(k, n, o) # None /\ RowOf(k, n, o).spec = o.spec
<1>1. (desired[k][n] # None /\ desired[k][n] # o.spec) \in BOOLEAN
  OBVIOUS
<1>2. RowOf(k, n, o) \in Row
  BY <1>1 DEF RowOf, Row, Seen
<1> QED BY <1>2, NoneIsNothing DEF RowOf

LEMMA VisitTypes ==
  ASSUME TypeOK, NEW i \in 1..Len(visit)
  PROVE  /\ visit[i] \in Visit /\ visit \in Seq(Visit) /\ DOMAIN visit = 1..Len(visit) /\ Len(visit) \in Nat
         /\ visit[i].kind \in Kind /\ visit[i].signal \in Nat
<1>1. visit \in Seq(Visit)
  BY DEF TypeOK
<1>2. visit[i] \in Visit
  BY <1>1
<1> QED BY <1>1, <1>2 DEF Visit

\* One visit changes.
LEMMA VisitChanges ==
  ASSUME TypeOK, NEW j \in 1..Len(visit), NEW v \in Visit, visit' = [visit EXCEPT ![j] = v]
  PROVE  /\ visit' \in Seq(Visit) /\ Len(visit') = Len(visit) /\ visit'[j] = v
         /\ \A i \in 1..Len(visit) : i # j => visit'[i] = visit[i]
BY VisitTypes

LEMMA SpendType ==
  ASSUME TypeOK, NEW b \in {"changes", "cuts", "flaps", "visits", "expiries"}, Spend(b)
  PROVE  left' \in Bounds
<1>1. left \in Bounds /\ left' = [left EXCEPT ![b] = left[b] - 1] /\ left[b] > 0
  BY DEF TypeOK, Spend
<1>2. left[b] \in Nat
  BY <1>1 DEF Bounds
<1>3. left[b] - 1 \in Nat
  BY <1>1, <1>2
<1> QED BY <1>1, <1>3 DEF Bounds

LEMMA InitInv == Init => WatchBase /\ StreamInv
<1> SUFFICES ASSUME Init PROVE WatchBase /\ StreamInv
  OBVIOUS
<1>1. visit \in Seq(Visit) /\ Len(visit) = 0
  BY DEF Init
<1>2. left \in Bounds
  BY WatchConstants DEF Init
<1>3. down \in BOOLEAN
  BY DEF Init
<1>4. TypeOK
  BY <1>1, <1>2, <1>3, NoRowsType DEF Init, TypeOK
<1> QED BY <1>1, <1>4 DEF WatchBase, VisitsInv, StreamInv

--------------------------------------------------------------------------------
(* Steps that do not concern a stream.                                     *)

LEMMA SameVisits ==
  ASSUME WatchBase, StreamInv, TypeOK', UNCHANGED <<shown, rows, visit>>
  PROVE  WatchBase' /\ StreamInv'
<1>1. VisitsInv'
  BY DEF WatchBase, VisitsInv
<1>2. StreamInv'
  BY DEF StreamInv, Alone, Running, Aborted, Follows, Agrees, Told
<1> QED BY <1>1, <1>2 DEF WatchBase

LEMMA WorldSteps ==
  ASSUME WatchBase, StreamInv,
         \/ \E k \in left.kinds, n \in left.names :
              \/ \E s \in Spec \cup {None} : OperationActs(k, n, s)
              \/ \E o \in Seen \cup {None} : StrangerActs(k, n, o)
         \/ OperationSaves \/ ProviderFlaps
  PROVE  WatchBase' /\ StreamInv'
<1>0. left.kinds \subseteq Kind /\ left.names \subseteq Name
  BY DEF WatchBase, TypeOK, Bounds
<1>1. UNCHANGED <<shown, rows, visit>>
  BY DEF OperationActs, StrangerActs, OperationSaves, ProviderFlaps, pageVars
<1>00. TypeOK
  BY DEF WatchBase
<1>2. ASSUME NEW k \in left.kinds, NEW n \in left.names, NEW s \in Spec \cup {None}, OperationActs(k, n, s)
      PROVE  TypeOK'
  <2>1. k \in Kind /\ n \in Name
    BY <1>0, <1>2
  <2> DEFINE old == observed[k][n]
             new == IF s = None THEN None
                    ELSE [spec |-> s, status |-> IF old = None THEN CHOOSE t \in Status : TRUE ELSE old.status]
  <2>2. (CHOOSE t \in Status : TRUE) \in Status
    BY WatchConstants
  <2>3. new \in Seen \cup {None}
    <3>1. old \in Seen \cup {None}
      BY <1>00, <2>1 DEF TypeOK
    <3> QED BY <2>2, <3>1 DEF Seen
  <2>4. observed' = [observed EXCEPT ![k] = [observed[k] EXCEPT ![n] = new]]
    BY <1>2, <1>00, <2>1 DEF OperationActs, TypeOK
  <2>5. observed' \in [Kind -> [Name -> Seen \cup {None}]]
    BY <1>00, <2>1, <2>3, <2>4 DEF TypeOK
  <2>6. saving' \in [kind : Kind, name : Name, spec : Spec \cup {None}]
    BY <1>2, <2>1 DEF OperationActs
  <2>7. left' \in Bounds
    BY <1>2, <1>00, SpendType DEF OperationActs
  <2>8. UNCHANGED <<desired, down>>
    BY <1>2 DEF OperationActs
  <2> QED BY <1>00, <1>1, <2>5, <2>6, <2>7, <2>8 DEF TypeOK
<1>3. ASSUME NEW k \in left.kinds, NEW n \in left.names, NEW o \in Seen \cup {None}, StrangerActs(k, n, o)
      PROVE  TypeOK'
  <2>1. k \in Kind /\ n \in Name
    BY <1>0, <1>3
  <2>2. observed' \in [Kind -> [Name -> Seen \cup {None}]]
    BY <1>00, <1>3, <2>1 DEF StrangerActs, TypeOK
  <2>3. left' \in Bounds
    BY <1>3, <1>00, SpendType DEF StrangerActs
  <2>4. UNCHANGED <<desired, saving, down>>
    BY <1>3 DEF StrangerActs
  <2> QED BY <1>00, <1>1, <2>2, <2>3, <2>4 DEF TypeOK
<1>4. CASE OperationSaves
  <2>1. saving.kind \in Kind /\ saving.name \in Name /\ saving.spec \in Spec \cup {None}
    BY <1>00, <1>4 DEF OperationSaves, TypeOK
  <2>2. desired' \in [Kind -> [Name -> Spec \cup {None}]]
    BY <1>00, <1>4, <2>1 DEF OperationSaves, TypeOK
  <2>3. saving' = None /\ UNCHANGED <<observed, left>> /\ down' = down
    BY <1>4 DEF OperationSaves
  <2>4. TypeOK'
    BY <1>00, <1>1, <2>2, <2>3 DEF TypeOK
  <2> QED BY <1>1, <2>4, SameVisits
<1>5. CASE ProviderFlaps
  <2>1. left' \in Bounds
    BY <1>5, <1>00, SpendType DEF ProviderFlaps
  <2>2. down' \in BOOLEAN
    BY <1>5 DEF ProviderFlaps
  <2>3. UNCHANGED <<observed, desired, saving>>
    BY <1>5 DEF ProviderFlaps
  <2>4. TypeOK'
    BY <1>00, <1>1, <2>1, <2>2, <2>3 DEF TypeOK
  <2> QED BY <1>1, <2>4, SameVisits
<1> QED BY <1>1, <1>2, <1>3, <1>4, <1>5, SameVisits

\* Going to another kind, and leaving the page, leave no stream alone.
LEMMA PageSteps ==
  ASSUME WatchBase, StreamInv, Leave \/ \E k \in left.kinds : SwitchTo(k)
  PROVE  WatchBase' /\ StreamInv'
<1>0. TypeOK /\ visit \in Seq(Visit) /\ Len(visit) \in Nat /\ DOMAIN visit = 1..Len(visit)
  BY DEF WatchBase, TypeOK
<1>1. ASSUME NEW k \in left.kinds, SwitchTo(k) PROVE WatchBase' /\ StreamInv'
  <2>1. k \in Kind
    BY <1>0, <1>1 DEF TypeOK, Bounds
  <2> DEFINE b == Blank(k, 0, "asks")
  <2>2. b \in Visit /\ b.signal = 0 /\ b.at = "asks" /\ VisitShape(b)
    BY <2>1, BlankType
  <2>3. /\ shown' = k /\ rows' = NoRows /\ visit' = Append(visit, b) /\ Spend("visits")
        /\ UNCHANGED <<observed, desired, saving, down>>
    BY <1>1 DEF SwitchTo, worldVars
  <2> HIDE DEF b
  <2>4. /\ visit' \in Seq(Visit) /\ Len(visit') = Len(visit) + 1
        /\ \A i \in 1..Len(visit) : visit'[i] = visit[i]
        /\ visit'[Len(visit) + 1] = b
    BY <1>0, <2>2, <2>3
  <2>5. TypeOK'
    <3>1. left' \in Bounds
      BY <1>0, <2>3, SpendType
    <3> QED BY <1>0, <2>1, <2>3, <2>4, <3>1, NoRowsType DEF TypeOK
  <2>6. ASSUME NEW i \in 1..Len(visit')
        PROVE  /\ VisitShape(visit'[i]) /\ visit'[i].signal <= Len(visit')
               /\ ~(visit'[i].at \in Open /\ visit'[i].signal = Len(visit'))
    <3>1. CASE i \in 1..Len(visit)
      <4>1. visit[i].signal <= Len(visit) /\ visit[i].signal \in Nat /\ VisitShape(visit[i])
        BY <1>0, <3>1, VisitTypes DEF WatchBase, VisitsInv
      <4> QED BY <1>0, <2>4, <3>1, <4>1
    <3>2. CASE i = Len(visit) + 1
      BY <1>0, <2>2, <2>4, <3>2 DEF Open
    <3> QED BY <1>0, <2>4, <3>1, <3>2
  <2> QED BY <2>5, <2>6 DEF WatchBase, VisitsInv, StreamInv, Alone, Running, Aborted
<1>2. CASE Leave
  <2>1. /\ shown' = None /\ rows' = NoRows
        /\ visit' = [i \in 1..Len(visit) |-> Blank(visit[i].kind, 0, "over")]
        /\ UNCHANGED <<observed, desired, saving, down, left>>
    BY <1>0, <1>2 DEF Leave, worldVars
  <2>2. \A i \in 1..Len(visit) : /\ Blank(visit[i].kind, 0, "over") \in Visit
                                 /\ Blank(visit[i].kind, 0, "over").signal = 0
                                 /\ Blank(visit[i].kind, 0, "over").at = "over"
                                 /\ VisitShape(Blank(visit[i].kind, 0, "over"))
    BY <1>0, VisitTypes, BlankType
  <2>3. visit' \in Seq(Visit) /\ Len(visit') = Len(visit)
    BY <1>0, <2>1, <2>2
  <2>4. TypeOK'
    BY <1>0, <2>1, <2>3, NoRowsType DEF TypeOK
  <2>5. \A i \in 1..Len(visit') : /\ VisitShape(visit'[i]) /\ visit'[i].signal <= Len(visit')
                                  /\ visit'[i].at \notin Open
    BY <1>0, <2>1, <2>2, <2>3 DEF Open
  <2> QED BY <2>4, <2>5 DEF WatchBase, VisitsInv, StreamInv, Alone, Running
<1> QED BY <1>1, <1>2

--------------------------------------------------------------------------------
(* Steps of one visit, of its list or of its stream.                       *)

\* A visit that may still put something on the page goes on to be able to, so
\* that no other stream comes to be alone by its step; and where it puts
\* something there, no other stream is alone.
LEMMA OneVisit ==
  ASSUME WatchBase, StreamInv, NEW j \in 1..Len(visit), NEW v \in Visit,
         visit' = [visit EXCEPT ![j] = v], shown' = shown,
         rows' \in [Name -> Row \cup {None}], left' \in Bounds,
         UNCHANGED <<observed, desired, saving, down>>,
         VisitShape(v), v.signal <= Len(visit),
         visit[j].at \in {"asks", "answered"} \/ ~Aborted(visit[j]) =>
           v.at \in {"asks", "answered"} \/ v.signal = Len(visit),
         rows' = rows \/ visit[j].at = "answered" \/ ~Aborted(visit[j]),
         v.at \in Open => v.kind = visit[j].kind /\ ~Aborted(visit[j]),
         v.at \in Open /\ (visit[j].at \in Open => Follows(visit[j], rows)) => Follows(v, rows')
  PROVE  WatchBase' /\ StreamInv'
<1>1. TypeOK
  BY DEF WatchBase
<1>2. /\ visit' \in Seq(Visit) /\ Len(visit') = Len(visit) /\ visit'[j] = v
      /\ \A i \in 1..Len(visit) : i # j => visit'[i] = visit[i]
  BY <1>1, VisitChanges
<1>3. TypeOK'
  BY <1>1, <1>2 DEF TypeOK
<1>4. VisitsInv'
  BY <1>2 DEF WatchBase, VisitsInv
<1>5. ASSUME NEW i \in 1..Len(visit), Alone(i)' PROVE Follows(visit'[i], rows')
  <2>1. /\ visit'[i].at \in Open /\ visit'[i].signal = Len(visit) /\ visit'[i].kind = shown
        /\ \A k \in 1..Len(visit) \ {i} :
             visit'[k].at \notin {"asks", "answered"} /\ visit'[k].signal # Len(visit)
    BY <1>2, <1>5 DEF Alone, Running, Aborted
  <2>2. CASE i # j
    <3>1. visit'[i] = visit[i] /\ visit'[j] = v /\ j \in 1..Len(visit) \ {i}
      BY <1>2, <2>2
    <3>2. visit[j].at \notin {"asks", "answered"} /\ visit[j].signal # Len(visit) /\ rows' = rows
      BY <2>1, <3>1 DEF Aborted
    <3>3. \A k \in 1..Len(visit) \ {i} :
             visit[k].at \notin {"asks", "answered"} /\ visit[k].signal # Len(visit)
      BY <1>2, <2>1, <3>2
    <3>4. Alone(i)
      BY <2>1, <3>1, <3>3 DEF Alone, Running, Aborted
    <3> QED BY <3>1, <3>2, <3>4 DEF StreamInv
  <2>3. CASE i = j
    <3>1. v.at \in Open /\ v.kind = shown /\ ~Aborted(visit[j]) /\ v.kind = visit[j].kind
      BY <1>2, <2>1, <2>3
    <3>2. visit[j].at \in Open => Alone(j)
      BY <1>2, <2>1, <2>3, <3>1 DEF Alone, Running, Aborted
    <3> QED BY <1>2, <2>3, <3>1, <3>2 DEF StreamInv
  <2> QED BY <2>2, <2>3
<1>6. StreamInv'
  BY <1>2, <1>5 DEF StreamInv
<1> QED BY <1>3, <1>4, <1>6 DEF WatchBase

\* A visit whose stream, or list, comes to nothing.
LEMMA BlankVisit ==
  ASSUME WatchBase, NEW j \in 1..Len(visit), NEW s \in Nat, NEW stage \in {"connect", "backoff", "over", "refused"}
  PROVE  LET b == Blank(visit[j].kind, s, stage)
         IN  b \in Visit /\ b.signal = s /\ b.at = stage /\ VisitShape(b) /\ b.at \notin Open
<1>1. visit[j].kind \in Kind
  BY VisitTypes DEF WatchBase
<1> QED BY <1>1, BlankType DEF Open

LEMMA ListSteps ==
  ASSUME WatchBase, StreamInv, NEW j \in 1..Len(visit),
         ListAnswers(j) \/ ListArrives(j) \/ ListFails(j) \/ RunEnds(j)
  PROVE  WatchBase' /\ StreamInv'
<1>0. /\ visit[j] \in Visit /\ visit \in Seq(Visit) /\ DOMAIN visit = 1..Len(visit) /\ Len(visit) \in Nat
      /\ visit[j].kind \in Kind /\ visit[j].signal \in Nat
      /\ VisitShape(visit[j]) /\ visit[j].signal <= Len(visit)
      /\ rows \in [Name -> Row \cup {None}] /\ left \in Bounds
  BY VisitTypes DEF WatchBase, VisitsInv, TypeOK
<1>1. CASE ListAnswers(j)
  <2> DEFINE v == [visit[j] EXCEPT !.at = "answered", !.found = Listed(visit[j].kind)]
  <2>1. visit[j].at = "asks" /\ visit' = [visit EXCEPT ![j] = v]
    BY <1>0, <1>1 DEF ListAnswers, At
  <2>2. Listed(visit[j].kind) \in [Name -> Row \cup {None}]
    <3>1. \A n \in Name : observed[visit[j].kind][n] \in Seen \cup {None}
      BY <1>0 DEF WatchBase, TypeOK
    <3> QED BY <1>0, <3>1, RowType DEF Listed
  <2>3. v \in Visit /\ v.at = "answered" /\ v.signal = visit[j].signal
        /\ v.first = visit[j].first /\ v.snapshot = visit[j].snapshot
    BY <1>0, <2>2 DEF Visit
  <2>4. VisitShape(v) /\ v.at \notin Open
    BY <1>0, <2>1, <2>3 DEF VisitShape, Open
  <2>5. UNCHANGED <<observed, desired, saving, down, shown, rows, left>>
    BY <1>1 DEF ListAnswers, worldVars, pageVars
  <2> HIDE DEF v
  <2> QED BY <1>0, <2>1, <2>3, <2>4, <2>5, OneVisit
<1>2. CASE ListArrives(j)
  <2> DEFINE b == Blank(visit[j].kind, Len(visit), "connect")
  <2>1. /\ visit[j].at = "answered" /\ rows' = visit[j].found /\ visit' = [visit EXCEPT ![j] = b]
        /\ UNCHANGED <<observed, desired, saving, down, shown, left>>
    BY <1>0, <1>2 DEF ListArrives, At, StartsRun, Becomes, worldVars
  <2>2. rows' \in [Name -> Row \cup {None}]
    BY <1>0, <2>1 DEF Visit
  <2>3. b \in Visit /\ b.signal = Len(visit) /\ b.signal <= Len(visit) /\ VisitShape(b) /\ b.at \notin Open
    BY <1>0, BlankVisit
  <2>9. /\ visit[j].at \in {"asks", "answered"} \/ ~Aborted(visit[j]) =>
             b.at \in {"asks", "answered"} \/ b.signal = Len(visit)
        /\ rows' = rows \/ visit[j].at = "answered" \/ ~Aborted(visit[j])
        /\ b.at \in Open => b.kind = visit[j].kind /\ ~Aborted(visit[j])
        /\ b.at \in Open /\ (visit[j].at \in Open => Follows(visit[j], rows)) => Follows(b, rows')
    BY <2>1, <2>2, <2>3
  <2> HIDE DEF b
  <2> QED BY <1>0, <2>1, <2>2, <2>3, <2>9, OneVisit
<1>3. CASE ListFails(j)
  <2> DEFINE b == Blank(visit[j].kind, Len(visit), "connect")
  <2>1. /\ visit' = [visit EXCEPT ![j] = b]
        /\ UNCHANGED <<observed, desired, saving, down, shown, rows, left>>
    BY <1>0, <1>3 DEF ListFails, At, StartsRun, Becomes, worldVars, pageVars
  <2>2. b \in Visit /\ b.signal = Len(visit) /\ b.signal <= Len(visit) /\ VisitShape(b) /\ b.at \notin Open
    BY <1>0, BlankVisit
  <2>9. /\ visit[j].at \in {"asks", "answered"} \/ ~Aborted(visit[j]) =>
             b.at \in {"asks", "answered"} \/ b.signal = Len(visit)
        /\ rows' = rows \/ visit[j].at = "answered" \/ ~Aborted(visit[j])
        /\ b.at \in Open => b.kind = visit[j].kind /\ ~Aborted(visit[j])
        /\ b.at \in Open /\ (visit[j].at \in Open => Follows(visit[j], rows)) => Follows(b, rows')
    BY <2>1, <2>2
  <2> HIDE DEF b
  <2> QED BY <1>0, <2>1, <2>2, <2>9, OneVisit
<1>4. CASE RunEnds(j)
  <2> DEFINE b == Blank(visit[j].kind, 0, "over")
  <2>1. /\ visit[j].at \in {"connect", "backoff"} \cup Open /\ Aborted(visit[j])
        /\ visit' = [visit EXCEPT ![j] = b]
        /\ UNCHANGED <<observed, desired, saving, down, shown, rows, left>>
    BY <1>0, <1>4 DEF RunEnds, Becomes, worldVars, pageVars
  <2>2. visit[j].at \notin {"asks", "answered"}
    BY <2>1 DEF Open
  <2>3. b \in Visit /\ b.signal = 0 /\ VisitShape(b) /\ b.at \notin Open
    BY <1>0, BlankVisit
  <2>4. b.signal <= Len(visit)
    BY <1>0, <2>3
  <2>9. /\ visit[j].at \in {"asks", "answered"} \/ ~Aborted(visit[j]) =>
             b.at \in {"asks", "answered"} \/ b.signal = Len(visit)
        /\ rows' = rows \/ visit[j].at = "answered" \/ ~Aborted(visit[j])
        /\ b.at \in Open => b.kind = visit[j].kind /\ ~Aborted(visit[j])
        /\ b.at \in Open /\ (visit[j].at \in Open => Follows(visit[j], rows)) => Follows(b, rows')
    BY <2>1, <2>2, <2>3
  <2> HIDE DEF b
  <2> QED BY <1>0, <2>1, <2>2, <2>3, <2>4, <2>9, OneVisit
<1> QED BY <1>1, <1>2, <1>3, <1>4

LEMMA StreamFacts ==
  ASSUME WatchBase, NEW j \in 1..Len(visit)
  PROVE  /\ visit[j] \in Visit /\ visit \in Seq(Visit) /\ DOMAIN visit = 1..Len(visit) /\ Len(visit) \in Nat
         /\ visit[j].kind \in Kind /\ visit[j].signal \in Nat
         /\ VisitShape(visit[j]) /\ visit[j].signal <= Len(visit)
         /\ rows \in [Name -> Row \cup {None}] /\ left \in Bounds
BY VisitTypes DEF WatchBase, VisitsInv, TypeOK

\* A stream that breaks, or that the server gives up, starts over.
LEMMA CutSteps ==
  ASSUME WatchBase, StreamInv, NEW j \in 1..Len(visit), ~Aborted(visit[j]),
         visit' = [visit EXCEPT ![j] = Blank(@.kind, visit[j].signal, "backoff")],
         left' \in Bounds, UNCHANGED <<observed, desired, saving, down, shown, rows>>
  PROVE  WatchBase' /\ StreamInv'
<1> DEFINE b == Blank(visit[j].kind, visit[j].signal, "backoff")
<1>1. /\ visit[j].signal \in Nat /\ visit[j].signal <= Len(visit) /\ visit[j].signal = Len(visit)
      /\ rows' \in [Name -> Row \cup {None}]
  BY StreamFacts DEF Aborted
<1>2. b \in Visit /\ b.signal = visit[j].signal /\ VisitShape(b) /\ b.at \notin Open
  BY <1>1, BlankVisit
<1>3. visit' = [visit EXCEPT ![j] = b]
  BY StreamFacts
<1>4. /\ b.signal <= Len(visit) /\ b.signal = Len(visit)
      /\ b.at \in Open => b.kind = visit[j].kind /\ ~Aborted(visit[j])
      /\ b.at \in Open /\ (visit[j].at \in Open => Follows(visit[j], rows)) => Follows(b, rows')
  BY <1>1, <1>2
<1> HIDE DEF b
<1> QED BY <1>1, <1>2, <1>3, <1>4, OneVisit

\* A stream goes on.
LEMMA OpenVisit ==
  ASSUME WatchBase, StreamInv, NEW j \in 1..Len(visit), ~Aborted(visit[j]),
         NEW v \in Visit, visit' = [visit EXCEPT ![j] = v],
         rows' \in [Name -> Row \cup {None}],
         UNCHANGED <<observed, desired, saving, down, shown, left>>,
         VisitShape(v), v.signal = visit[j].signal, v.kind = visit[j].kind,
         v.at \in Open /\ (visit[j].at \in Open => Follows(visit[j], rows)) => Follows(v, rows')
  PROVE  WatchBase' /\ StreamInv'
<1>1. v.signal <= Len(visit) /\ v.signal = Len(visit) /\ left' \in Bounds /\ shown' = shown
  BY StreamFacts DEF Aborted
<1> QED BY <1>1, OneVisit

LEMMA ConnectSteps ==
  ASSUME WatchBase, StreamInv, NEW j \in 1..Len(visit), Connects(j) \/ Retries(j) \/ Ticks(j)
  PROVE  WatchBase' /\ StreamInv'
<1>0. /\ visit[j] \in Visit /\ visit \in Seq(Visit) /\ DOMAIN visit = 1..Len(visit)
      /\ VisitShape(visit[j]) /\ rows \in [Name -> Row \cup {None}]
  BY StreamFacts
<1>1. CASE Connects(j)
  <2> DEFINE v == [visit[j] EXCEPT !.at = "list", !.held = {n \in Name : rows[n] # None}]
  <2>1. /\ visit[j].at = "connect" /\ ~Aborted(visit[j]) /\ visit' = [visit EXCEPT ![j] = v]
        /\ UNCHANGED <<observed, desired, saving, down, shown, rows, left>>
    BY <1>0, <1>1 DEF Connects, At, worldVars, pageVars
  <2>2. /\ v \in Visit /\ v.at = "list" /\ v.signal = visit[j].signal /\ v.kind = visit[j].kind
        /\ v.first = visit[j].first /\ v.snapshot = visit[j].snapshot
        /\ v.held = {n \in Name : rows[n] # None}
    BY <1>0 DEF Visit, Open
  <2>3. visit[j].snapshot = NoRows
    BY <1>0, <2>1 DEF VisitShape, Open
  <2>4. VisitShape(v)
    BY <1>0, <2>2, <2>3 DEF VisitShape, Open
  <2>5. Follows(v, rows')
    <3>1. \A n \in Name : v.snapshot[n] = None
      BY <2>2, <2>3, NoRowsType
    <3> QED BY <2>1, <2>2, <3>1 DEF Follows, Agrees
  <2> HIDE DEF v
  <2> QED BY <1>0, <2>1, <2>2, <2>4, <2>5, OpenVisit
<1>2. CASE Retries(j)
  <2> DEFINE v == [visit[j] EXCEPT !.at = "connect"]
  <2>1. /\ visit[j].at = "backoff" /\ ~Aborted(visit[j]) /\ visit' = [visit EXCEPT ![j] = v]
        /\ UNCHANGED <<observed, desired, saving, down, shown, rows, left>>
    BY <1>0, <1>2 DEF Retries, At, Goto, worldVars, pageVars
  <2>2. /\ v \in Visit /\ v.at = "connect" /\ v.signal = visit[j].signal /\ v.kind = visit[j].kind
        /\ v.first = visit[j].first /\ v.snapshot = visit[j].snapshot
    BY <1>0 DEF Visit
  <2>3. VisitShape(v) /\ v.at \notin Open
    BY <1>0, <2>1, <2>2 DEF VisitShape, Open
  <2> HIDE DEF v
  <2> QED BY <1>0, <2>1, <2>2, <2>3, OpenVisit
<1>3. CASE Ticks(j)
  <2> DEFINE v == [visit[j] EXCEPT !.at = "list"]
  <2>1. /\ visit[j].at = "wait" /\ ~Aborted(visit[j]) /\ visit' = [visit EXCEPT ![j] = v]
        /\ UNCHANGED <<observed, desired, saving, down, shown, rows, left>>
    BY <1>0, <1>3 DEF Ticks, Polls, At, Goto, worldVars, pageVars
  <2>2. /\ v \in Visit /\ v.at = "list" /\ v.signal = visit[j].signal /\ v.kind = visit[j].kind
        /\ v.first = visit[j].first /\ v.snapshot = visit[j].snapshot /\ v.held = visit[j].held
    BY <1>0 DEF Visit, Open
  <2>3. VisitShape(v)
    BY <1>0, <2>1, <2>2 DEF VisitShape, Open
  <2>4. visit[j].at \in Open /\ (Follows(visit[j], rows) => Follows(v, rows'))
    BY <2>1, <2>2 DEF Follows, Agrees, Open
  <2> HIDE DEF v
  <2> QED BY <1>0, <2>1, <2>2, <2>3, <2>4, OpenVisit
<1> QED BY <1>1, <1>2, <1>3

\* A poll asks the provider, and drops what has no manifest: nothing is sent yet.
LEMMA PollSteps ==
  ASSUME WatchBase, StreamInv, NEW j \in 1..Len(visit), PollLists(j) \/ PollFilters(j)
  PROVE  WatchBase' /\ StreamInv'
<1>0. /\ visit[j] \in Visit /\ visit \in Seq(Visit) /\ DOMAIN visit = 1..Len(visit)
      /\ VisitShape(visit[j]) /\ rows \in [Name -> Row \cup {None}] /\ visit[j].kind \in Kind
  BY StreamFacts
<1>1. CASE PollLists(j)
  <2> DEFINE v == [visit[j] EXCEPT !.at = "filter", !.errs = 0, !.matches = observed[visit[j].kind]]
  <2>1. /\ visit[j].at = "list" /\ ~Aborted(visit[j]) /\ visit' = [visit EXCEPT ![j] = v]
        /\ UNCHANGED <<observed, desired, saving, down, shown, rows, left>>
    BY <1>0, <1>1 DEF PollLists, Polls, At, worldVars, pageVars
  <2>2. observed[visit[j].kind] \in [Name -> Seen \cup {None}] /\ 0 \in 0..(MaxErrs - 1)
    BY <1>0, MaxErrsType DEF WatchBase, TypeOK
  <2>3. /\ v \in Visit /\ v.at = "filter" /\ v.signal = visit[j].signal /\ v.kind = visit[j].kind
        /\ v.first = visit[j].first /\ v.snapshot = visit[j].snapshot /\ v.held = visit[j].held
    BY <1>0, <2>2 DEF Visit, Open
  <2>4. VisitShape(v)
    BY <1>0, <2>1, <2>3 DEF VisitShape, Open
  <2>5. visit[j].at \in Open /\ (Follows(visit[j], rows) => Follows(v, rows'))
    BY <2>1, <2>3 DEF Follows, Agrees, Open
  <2> HIDE DEF v
  <2> QED BY <1>0, <2>1, <2>3, <2>4, <2>5, OpenVisit
<1>2. CASE PollFilters(j)
  <2> DEFINE kept == [n \in Name |-> IF n \in Managed(visit[j].kind) THEN visit[j].matches[n] ELSE None]
             v == [visit[j] EXCEPT !.at = "emit", !.matches = kept, !.todo = {n \in Name : kept[n] # None}]
  <2>1. /\ visit[j].at = "filter" /\ ~Aborted(visit[j]) /\ visit' = [visit EXCEPT ![j] = v]
        /\ UNCHANGED <<observed, desired, saving, down, shown, rows, left>>
    BY <1>0, <1>2 DEF PollFilters, Polls, At, worldVars, pageVars
  <2>2. kept \in [Name -> Seen \cup {None}]
    BY <1>0 DEF Visit
  <2> HIDE DEF kept
  <2>3. /\ v \in Visit /\ v.at = "emit" /\ v.signal = visit[j].signal /\ v.kind = visit[j].kind
        /\ v.first = visit[j].first /\ v.snapshot = visit[j].snapshot /\ v.held = visit[j].held
        /\ v.matches = kept /\ v.todo = {n \in Name : kept[n] # None}
    BY <1>0, <2>2 DEF Visit, Open
  <2>4. VisitShape(v)
    BY <1>0, <2>1, <2>3 DEF VisitShape, Open
  <2>5. visit[j].at \in Open /\ (Follows(visit[j], rows) => Follows(v, rows'))
    BY <2>1, <2>3 DEF Follows, Agrees, Open
  <2> HIDE DEF v
  <2> QED BY <1>0, <2>1, <2>3, <2>4, <2>5, OpenVisit
<1> QED BY <1>1, <1>2

LEMMA PollFailsStep ==
  ASSUME WatchBase, StreamInv, NEW j \in 1..Len(visit), PollFails(j)
  PROVE  WatchBase' /\ StreamInv'
<1>0. /\ visit[j] \in Visit /\ visit \in Seq(Visit) /\ DOMAIN visit = 1..Len(visit)
      /\ VisitShape(visit[j]) /\ rows \in [Name -> Row \cup {None}] /\ left \in Bounds
  BY StreamFacts
<1>1. /\ visit[j].at = "list" /\ ~Aborted(visit[j])
      /\ UNCHANGED <<observed, desired, saving, down, shown, rows, left>>
  BY DEF PollFails, Polls, At, worldVars, pageVars
<1>2. CASE GivesUp(MoreErrs(visit[j].errs))
  <2>1. visit' = [visit EXCEPT ![j] = Blank(@.kind, visit[j].signal, "backoff")]
    BY <1>2 DEF PollFails, Becomes
  <2> QED BY <1>0, <1>1, <2>1, CutSteps
<1>3. CASE ~GivesUp(MoreErrs(visit[j].errs))
  <2> DEFINE more == visit[j].errs + 1
             v == [visit[j] EXCEPT !.errs = more, !.at = "wait"]
  <2>1. visit' = [visit EXCEPT ![j] = v]
    BY <1>0, <1>3 DEF PollFails, MoreErrs
  <2>2. more \in 0..(MaxErrs - 1)
    <3>1. visit[j].errs \in 0..(MaxErrs - 1)
      BY <1>0 DEF Visit
    <3> QED BY <1>3, <3>1, MaxErrsType DEF GivesUp, MoreErrs
  <2> HIDE DEF more
  <2>3. /\ v \in Visit /\ v.at = "wait" /\ v.signal = visit[j].signal /\ v.kind = visit[j].kind
        /\ v.first = visit[j].first /\ v.snapshot = visit[j].snapshot /\ v.held = visit[j].held
    BY <1>0, <2>2 DEF Visit, Open
  <2>4. VisitShape(v)
    BY <1>0, <1>1, <2>3 DEF VisitShape, Open
  <2>5. visit[j].at \in Open /\ (Follows(visit[j], rows) => Follows(v, rows'))
    BY <1>1, <2>3 DEF Follows, Agrees, Open
  <2> HIDE DEF v
  <2> QED BY <1>0, <1>1, <2>1, <2>3, <2>4, <2>5, OpenVisit
<1> QED BY <1>2, <1>3

\* An event is sent for what is new or has another spec than in the snapshot;
\* what has the same is on the page already.
LEMMA PollEmitsStep ==
  ASSUME WatchBase, StreamInv, NEW j \in 1..Len(visit), NEW m \in Name, PollEmits(j, m)
  PROVE  WatchBase' /\ StreamInv'
<1>0. /\ visit[j] \in Visit /\ visit \in Seq(Visit) /\ DOMAIN visit = 1..Len(visit)
      /\ VisitShape(visit[j]) /\ rows \in [Name -> Row \cup {None}] /\ visit[j].kind \in Kind
  BY StreamFacts
<1> DEFINE w == visit[j]
           v == [visit[j] EXCEPT !.todo = visit[j].todo \ {m}]
           r == RowOf(w.kind, m, w.matches[m])
<1>1. /\ w.at = "emit" /\ ~Aborted(visit[j]) /\ m \in w.todo /\ visit' = [visit EXCEPT ![j] = v]
      /\ UNCHANGED <<observed, desired, saving, down, shown, left>>
      /\ IF Changed(w, m) THEN rows' = [rows EXCEPT ![m] = r] ELSE rows' = rows
  BY <1>0 DEF PollEmits, Polls, At, worldVars, Upserted
<1>2. w.matches[m] \in Seen
  BY <1>0, <1>1 DEF VisitShape, Visit
<1>3. r \in Row /\ r # None /\ r.spec = w.matches[m].spec
  BY <1>0, <1>2, RowType
<1> HIDE DEF r
<1>4. rows' \in [Name -> Row \cup {None}] /\ \A n \in Name : n # m => rows'[n] = rows[n]
  BY <1>0, <1>1, <1>3
<1>5. /\ v \in Visit /\ v.at = "emit" /\ v.signal = w.signal /\ v.kind = w.kind
      /\ v.first = w.first /\ v.snapshot = w.snapshot /\ v.held = w.held
      /\ v.matches = w.matches /\ v.todo = w.todo \ {m}
  BY <1>0, <1>1 DEF Visit
<1> HIDE DEF v
<1>6. VisitShape(v)
  BY <1>0, <1>1, <1>5 DEF VisitShape, Open
<1>7. ASSUME Follows(w, rows) PROVE Follows(v, rows')
  <2>1. \A n \in Name : IF w.matches[n] # None /\ n \notin w.todo THEN Told(w, rows, n) ELSE Agrees(w, rows, n)
    BY <1>1, <1>7 DEF Follows
  <2>2. Told(v, rows', m)
    <3>1. CASE Changed(w, m)
      <4>1. rows'[m] = r
        BY <1>0, <1>1, <3>1
      <4> QED BY <1>3, <1>5, <4>1 DEF Told
    <3>2. CASE ~Changed(w, m)
      <4>1. w.snapshot[m] = w.matches[m].spec /\ rows' = rows
        BY <1>1, <3>2 DEF Changed
      <4>2. w.matches[m].spec # None
        BY <1>2, NoneIsNothing DEF Seen
      <4>3. Agrees(w, rows, m)
        BY <1>1, <2>1
      <4> QED BY <1>5, <4>1, <4>2, <4>3 DEF Agrees, Told
    <3> QED BY <3>1, <3>2
  <2>3. ASSUME NEW n \in Name, n # m
        PROVE  IF v.matches[n] # None /\ n \notin v.todo THEN Told(v, rows', n) ELSE Agrees(v, rows', n)
    BY <1>4, <1>5, <2>1, <2>3 DEF Told, Agrees
  <2>4. v.matches[m] # None /\ m \notin v.todo
    BY <1>2, <1>5, NoneIsNothing
  <2> QED BY <1>5, <2>2, <2>3, <2>4 DEF Follows
<1>8. w.at \in Open
  BY <1>1 DEF Open
<1> QED BY <1>0, <1>1, <1>4, <1>5, <1>6, <1>7, <1>8, OpenVisit

\* What the last poll had and this one has not goes from the page, and the
\* snapshot becomes what the page has been told.
LEMMA PollEndsStep ==
  ASSUME WatchBase, StreamInv, NEW j \in 1..Len(visit), PollEnds(j)
  PROVE  WatchBase' /\ StreamInv'
<1>0. /\ visit[j] \in Visit /\ visit \in Seq(Visit) /\ DOMAIN visit = 1..Len(visit)
      /\ VisitShape(visit[j]) /\ rows \in [Name -> Row \cup {None}] /\ visit[j].kind \in Kind
  BY StreamFacts
<1> DEFINE w == visit[j]
           gone == {n \in Name : w.snapshot[n] # None /\ w.matches[n] = None}
           v == [visit[j] EXCEPT !.at = "wait", !.snapshot = Hashes(w.matches),
                                 !.matches = NoRows, !.first = FALSE]
<1>1. /\ w.at = "emit" /\ ~Aborted(visit[j]) /\ w.todo = {} /\ visit' = [visit EXCEPT ![j] = v]
      /\ UNCHANGED <<observed, desired, saving, down, shown, left>>
      /\ rows' = [n \in Name |-> IF n \in gone THEN None ELSE rows[n]]
  BY <1>0 DEF PollEnds, Polls, At, worldVars, Removed
<1>2. \A n \in Name : w.matches[n] \in Seen \cup {None}
  BY <1>0 DEF Visit
<1>3. Hashes(w.matches) \in [Name -> Spec \cup {None}]
  BY <1>2 DEF Hashes, Seen
<1>4. \A n \in Name : /\ w.matches[n] = None => Hashes(w.matches)[n] = None
                      /\ w.matches[n] # None => /\ Hashes(w.matches)[n] = w.matches[n].spec
                                                /\ w.matches[n].spec # None
  BY <1>2, NoneIsNothing DEF Hashes, Seen
<1>5. rows' \in [Name -> Row \cup {None}]
  BY <1>0, <1>1
<1>6. /\ v \in Visit /\ v.at = "wait" /\ v.signal = w.signal /\ v.kind = w.kind
      /\ ~v.first /\ v.snapshot = Hashes(w.matches) /\ v.held = w.held
  BY <1>0, <1>3, NoRowsType DEF Visit, Open
<1> HIDE DEF v
<1>7. VisitShape(v)
  BY <1>6 DEF VisitShape, Open
<1>8. ASSUME Follows(w, rows) PROVE Follows(v, rows')
  <2> SUFFICES ASSUME NEW n \in Name PROVE Agrees(v, rows', n)
    BY <1>6 DEF Follows
  <2>1. IF w.matches[n] # None THEN Told(w, rows, n) ELSE Agrees(w, rows, n)
    BY <1>1, <1>8 DEF Follows
  <2>2. CASE w.matches[n] # None
    <3>1. rows'[n] = rows[n]
      BY <1>1, <2>2
    <3> QED BY <1>4, <1>6, <2>1, <2>2, <3>1 DEF Told, Agrees
  <2>3. CASE w.matches[n] = None
    <3>1. w.snapshot[n] # None => rows'[n] = None
      BY <1>1, <2>3
    <3>2. w.snapshot[n] = None => rows'[n] = rows[n]
      BY <1>1
    <3> QED BY <1>4, <1>6, <2>1, <2>3, <3>1, <3>2 DEF Agrees
  <2> QED BY <2>2, <2>3
<1>9. w.at \in Open
  BY <1>1 DEF Open
<1> QED BY <1>0, <1>1, <1>5, <1>6, <1>7, <1>8, <1>9, OpenVisit

LEMMA CutStep ==
  ASSUME WatchBase, StreamInv, NEW j \in 1..Len(visit), Cut(j)
  PROVE  WatchBase' /\ StreamInv'
<1>1. /\ ~Aborted(visit[j]) /\ visit' = [visit EXCEPT ![j] = Blank(@.kind, visit[j].signal, "backoff")]
      /\ UNCHANGED <<observed, desired, saving, down, shown, rows>> /\ Spend("cuts")
  BY DEF Cut, Becomes, worldVars, pageVars
<1>2. left' \in Bounds
  BY <1>1, SpendType DEF WatchBase
<1> QED BY <1>1, <1>2, CutSteps

LEMMA UnauthorizedStep ==
  ASSUME WatchBase, StreamInv, NEW j \in 1..Len(visit), Unauthorized(j)
  PROVE  WatchBase' /\ StreamInv'
<1> DEFINE b == Blank(visit[j].kind, Len(visit), "refused")
<1>1. /\ visit' = [visit EXCEPT ![j] = b]
      /\ UNCHANGED <<observed, desired, saving, down, shown, rows>> /\ Spend("expiries")
  BY StreamFacts DEF Unauthorized, Becomes, worldVars, pageVars
<1>2. left' \in Bounds
  BY <1>1, SpendType DEF WatchBase
<1>3. rows' \in [Name -> Row \cup {None}]
  BY <1>1, StreamFacts
<1>4. b \in Visit /\ b.signal = Len(visit) /\ b.signal <= Len(visit) /\ VisitShape(b) /\ b.at \notin Open
  BY StreamFacts, BlankVisit
<1>5. /\ b.at \in Open => b.kind = visit[j].kind /\ ~Aborted(visit[j])
      /\ b.at \in Open /\ (visit[j].at \in Open => Follows(visit[j], rows)) => Follows(b, rows')
  BY <1>4
<1> HIDE DEF b
<1> QED BY <1>1, <1>2, <1>3, <1>4, <1>5, OneVisit

LEMMA WatchStep == WatchBase /\ StreamInv /\ [Next]_vars => WatchBase' /\ StreamInv'
<1> SUFFICES ASSUME WatchBase, StreamInv, [Next]_vars PROVE WatchBase' /\ StreamInv'
  OBVIOUS
<1>1. CASE UNCHANGED vars
  <2>1. TypeOK' /\ UNCHANGED <<shown, rows, visit>>
    BY <1>1 DEF vars, worldVars, pageVars, WatchBase, TypeOK
  <2> QED BY <2>1, SameVisits
<1>2. CASE Next
  BY <1>2, WorldSteps, PageSteps, ListSteps, ConnectSteps, CutStep, UnauthorizedStep, PollSteps, PollFailsStep,
     PollEmitsStep, PollEndsStep DEF Next
<1> QED BY <1>1, <1>2

\* Types, the shape of visits, and that a page whose only stream is i shows what
\* the stream has told it, at every point of a poll.
THEOREM StreamsFollow == WatchSpec => [](WatchBase /\ StreamInv)
BY InitInv, WatchStep, PTL DEF WatchSpec

\* Between polls the page shows the snapshot of its stream and otherwise only
\* rows that it had before, whatever was cut, aborted or started over before:
\* no event is lost between the diff of watch.go and the merge of the page.
THEOREM PageInStep == WatchSpec => []InStep
BY StreamsFollow, StreamInStep, PTL

================================================================================
