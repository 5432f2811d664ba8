----------------------------- MODULE ResourceWatch -----------------------------
(***************************************************************************)
(* ResourceService.Watch (server/watch.go) and the list page of the web UI *)
(* that is fed by it (ui/src/routes/ResourceList.svelte).                  *)
(*                                                                         *)
(* A stream polls: it lists the resources of a kind, drops those without a *)
(* manifest, and sends what differs from the snapshot of its last poll.    *)
(* The page asks for a list first, then opens a stream and merges events   *)
(* by name; a stream that breaks is opened again.  Going to another kind   *)
(* aborts the active controller and starts over in the same component,     *)
(* while a list of the kind before may still be on its way.                *)
(*                                                                         *)
(* An event is merged in the step that sends it: of events on their way    *)
(* between stream.Send and mergeRow only their loss is modelled (Cut).     *)
(* The kinds are those whose resources are managed by having a row: the    *)
(* observed-only ones, and children shown because of their owner's row,    *)
(* are left out.                                                           *)
(***************************************************************************)
EXTENDS Naturals, Sequences, FiniteSets, SequencesExt

CONSTANTS
  Kind, Name,
  Spec, Status,   \* of observed resources
  None,
  MaxErrs,        \* maxConsecutiveWatchListErrors
  Scenarios       \* bounds to explore, each a record of Bounds

Seen == [spec : Spec, status : Status]
Row == [kind : Kind, spec : Spec, status : Status, drift : BOOLEAN]
Bounds == [kinds : SUBSET Kind, names : SUBSET Name, changes : Nat, cuts : Nat, flaps : Nat, visits : Nat, expiries : Nat]

ASSUME WatchConstants ==
  /\ None \notin Kind \cup Name \cup Spec \cup Seen \cup Row /\ Status # {}
  /\ MaxErrs \in Nat \ {0} /\ Scenarios \subseteq Bounds

VARIABLES
  observed,  \* kind -> name -> what the provider has
  desired,   \* kind -> name -> the spec of its row of applied_manifests
  saving,    \* what the operation in progress has still to store
  down,      \* the provider does not answer
  shown,     \* the kind of the page, None when it has been left
  rows,      \* name -> what the page shows
  visit,     \* the calls of switchTo, each with its list and its stream
  left       \* what remains of the scenario's bounds

worldVars == <<observed, desired, saving, down>>
pageVars == <<shown, rows>>
vars == <<worldVars, pageVars, visit, left>>

Open == {"list", "filter", "emit", "wait"}
Visit == [kind : Kind, signal : Nat,
          at : {"asks", "answered", "connect", "backoff", "over", "refused"} \cup Open,
          found : [Name -> Row \cup {None}],
          first : BOOLEAN, errs : 0..(MaxErrs - 1),
          snapshot : [Name -> Spec \cup {None}], \* a hash of the spec, not of the status
          matches : [Name -> Seen \cup {None}], todo : SUBSET Name,
          held : SUBSET Name]                     \* rows at connection (history)

TypeOK ==
  /\ observed \in [Kind -> [Name -> Seen \cup {None}]]
  /\ desired \in [Kind -> [Name -> Spec \cup {None}]]
  /\ saving \in [kind : Kind, name : Name, spec : Spec \cup {None}] \cup {None}
  /\ down \in BOOLEAN
  /\ shown \in Kind \cup {None} /\ rows \in [Name -> Row \cup {None}]
  /\ visit \in Seq(Visit) /\ left \in Bounds

NoRows == [n \in Name |-> None]

Init ==
  /\ observed = [k \in Kind |-> NoRows] /\ desired = [k \in Kind |-> NoRows]
  /\ saving = None /\ down = FALSE
  /\ shown = None /\ rows = NoRows /\ visit = <<>>
  /\ left \in Scenarios

Spend(b) == left[b] > 0 /\ left' = [left EXCEPT ![b] = @ - 1]

------------------------------------------------------------------------------
(* Operations, and what changes by itself *)

\* The provider acts, then the row is written (or removed).
OperationActs(k, n, s) ==
  /\ saving = None /\ (s = None => desired[k][n] # None)
  /\ observed' = [observed EXCEPT ![k][n] =
                    IF s = None THEN None
                    ELSE [spec |-> s, status |-> IF @ = None THEN CHOOSE t \in Status : TRUE ELSE @.status]]
  /\ saving' = [kind |-> k, name |-> n, spec |-> s]
  /\ Spend("changes")
  /\ UNCHANGED <<desired, down, pageVars, visit>>

OperationSaves ==
  /\ saving # None
  /\ desired' = [desired EXCEPT ![saving.kind][saving.name] = saving.spec]
  /\ saving' = None
  /\ UNCHANGED <<observed, down, pageVars, visit, left>>

\* Somebody changes, stops or removes a resource behind the controller's back.
StrangerActs(k, n, o) ==
  /\ observed[k][n] \notin {None, o}
  /\ observed' = [observed EXCEPT ![k][n] = o]
  /\ Spend("changes")
  /\ UNCHANGED <<desired, saving, down, pageVars, visit>>

ProviderFlaps ==
  /\ Spend("flaps")
  /\ down' = ~down
  /\ UNCHANGED <<observed, desired, saving, pageVars, visit>>

------------------------------------------------------------------------------
(* ResourceList.svelte *)

\* The controllers of visits before the last one have been aborted.
Aborted(v) == v.signal # Len(visit)

\* isManaged, for a resource of its own.
Managed(k) == {n \in Name : desired[k][n] # None}
RowOf(k, n, o) ==
  [kind |-> k, spec |-> o.spec, status |-> o.status,
   drift |-> desired[k][n] # None /\ desired[k][n] # o.spec]
\* The provider's list, the names of the rows and the drift of each resource, read
\* at one moment; a stream reads them at three (PollLists, PollFilters, PollEmits).
Listed(k) == [n \in Name |->
                IF observed[k][n] # None /\ n \in Managed(k) THEN RowOf(k, n, observed[k][n]) ELSE None]

\* A visit without a stream and without a list.
Blank(k, sig, stage) ==
  [kind |-> k, signal |-> sig, at |-> stage, found |-> NoRows, first |-> TRUE, errs |-> 0,
   snapshot |-> NoRows, matches |-> NoRows, todo |-> {}, held |-> {}]
Becomes(i, sig, stage) == visit' = [visit EXCEPT ![i] = Blank(@.kind, sig, stage)]

\* switchTo, up to the request.
SwitchTo(k) ==
  /\ k # shown
  /\ shown' = k /\ rows' = NoRows
  /\ visit' = Append(visit, Blank(k, 0, "asks"))
  /\ Spend("visits")
  /\ UNCHANGED worldVars

\* onDestroy: what the component has under way comes to nothing.
Leave ==
  /\ shown # None /\ shown' = None /\ rows' = NoRows
  /\ visit' = [i \in DOMAIN visit |-> Blank(visit[i].kind, 0, "over")]
  /\ UNCHANGED <<worldVars, left>>

At(i, stage) == visit[i].at = stage
Goto(i, stage) == visit' = [visit EXCEPT ![i].at = stage]

ListAnswers(i) ==
  /\ At(i, "asks") /\ ~down
  /\ visit' = [visit EXCEPT ![i].at = "answered", ![i].found = Listed(visit[i].kind)]
  /\ UNCHANGED <<worldVars, pageVars, left>>

\* What comes after the await of switchTo; run gets the controller that is
\* active by now.
StartsRun(i) == Becomes(i, Len(visit), "connect")

ListArrives(i) ==
  /\ At(i, "answered")
  /\ rows' = visit[i].found
  /\ StartsRun(i)
  /\ UNCHANGED <<worldVars, shown, left>>

ListFails(i) ==
  /\ At(i, "asks") /\ down
  /\ StartsRun(i)
  /\ UNCHANGED <<worldVars, pageVars, left>>

\* 401 to the list or to the stream: no stream is opened, or opened again.  (Its
\* signal stays, for what the visit has done to the page.)
Unauthorized(i) ==
  /\ At(i, "asks") \/ (At(i, "connect") /\ ~Aborted(visit[i]))
  /\ Becomes(i, Len(visit), "refused")
  /\ Spend("expiries")
  /\ UNCHANGED <<worldVars, pageVars>>

\* run: the loop ends with its signal.
RunEnds(i) ==
  /\ visit[i].at \in {"connect", "backoff"} \cup Open /\ Aborted(visit[i])
  /\ Becomes(i, 0, "over")
  /\ UNCHANGED <<worldVars, pageVars, left>>

Connects(i) ==
  /\ At(i, "connect") /\ ~Aborted(visit[i])
  /\ visit' = [visit EXCEPT ![i].at = "list", ![i].held = {n \in Name : rows[n] # None}]
  /\ UNCHANGED <<worldVars, pageVars, left>>

\* The connection breaks; the server notices and ends its side.
Cut(i) ==
  /\ visit[i].at \in Open /\ ~Aborted(visit[i])
  /\ Becomes(i, visit[i].signal, "backoff")
  /\ Spend("cuts")
  /\ UNCHANGED <<worldVars, pageVars>>

Retries(i) ==
  /\ At(i, "backoff") /\ ~Aborted(visit[i])
  /\ Goto(i, "connect")
  /\ UNCHANGED <<worldVars, pageVars, left>>

\* mergeRow.
Upserted(n, r) == rows' = [rows EXCEPT ![n] = r]
FaultyRemoved(S) == rows' = rows
Removed(S) == rows' = [n \in Name |-> IF n \in S THEN None ELSE rows[n]]

------------------------------------------------------------------------------
(* Watch *)

Polls(i, stage) == At(i, stage) /\ ~Aborted(visit[i])

PollLists(i) ==
  /\ Polls(i, "list") /\ ~down
  /\ visit' = [visit EXCEPT ![i].at = "filter", ![i].errs = 0, ![i].matches = observed[visit[i].kind]]
  /\ UNCHANGED <<worldVars, pageVars, left>>

MoreErrs(n) == n + 1
GivesUp(n) == n >= MaxErrs

PollFails(i) ==
  /\ Polls(i, "list") /\ down
  /\ IF GivesUp(MoreErrs(visit[i].errs))
     THEN Becomes(i, visit[i].signal, "backoff")
     ELSE visit' = [visit EXCEPT ![i].errs = MoreErrs(@), ![i].at = "wait"]
  /\ UNCHANGED <<worldVars, pageVars, left>>

\* managedScope, isManaged.
PollFilters(i) ==
  /\ Polls(i, "filter")
  /\ LET kept == [n \in Name |-> IF n \in Managed(visit[i].kind) THEN visit[i].matches[n] ELSE None]
     IN  visit' = [visit EXCEPT ![i].at = "emit", ![i].matches = kept,
                                ![i].todo = {n \in Name : kept[n] # None}]
  /\ UNCHANGED <<worldVars, pageVars, left>>

FaultyChanged(v, n) == v.first \/ v.snapshot[n] = None
Changed(v, n) == v.first \/ v.snapshot[n] # v.matches[n].spec

\* attachDrift reads the row again; ADDED or MODIFIED, if the hash is new.
PollEmits(i, n) ==
  LET v == visit[i]
  IN /\ Polls(i, "emit") /\ n \in v.todo
     /\ IF Changed(v, n) THEN Upserted(n, RowOf(v.kind, n, v.matches[n])) ELSE UNCHANGED rows
     /\ visit' = [visit EXCEPT ![i].todo = @ \ {n}]
     /\ UNCHANGED <<worldVars, shown, left>>

Hashes(matches) == [n \in Name |-> IF matches[n] = None THEN None ELSE matches[n].spec]

\* DELETED for what is in the old snapshot only.
PollEnds(i) ==
  LET v == visit[i]
  IN /\ Polls(i, "emit") /\ v.todo = {}
     /\ Removed({n \in Name : v.snapshot[n] # None /\ v.matches[n] = None})
     /\ visit' = [visit EXCEPT ![i].at = "wait", ![i].snapshot = Hashes(v.matches),
                               ![i].matches = NoRows, ![i].first = FALSE]
     /\ UNCHANGED <<worldVars, shown, left>>

Ticks(i) ==
  /\ Polls(i, "wait")
  /\ Goto(i, "list")
  /\ UNCHANGED <<worldVars, pageVars, left>>

Server(i) ==
  PollLists(i) \/ PollFails(i) \/ PollFilters(i) \/ PollEnds(i) \/ Ticks(i) \/ \E n \in Name : PollEmits(i, n)
Client(i) == ListAnswers(i) \/ ListArrives(i) \/ ListFails(i) \/ RunEnds(i) \/ Connects(i) \/ Retries(i)

Next ==
  \/ \E k \in left.kinds, n \in left.names :
       \/ \E s \in Spec \cup {None} : OperationActs(k, n, s)
       \/ \E o \in Seen \cup {None} : StrangerActs(k, n, o)
  \/ OperationSaves \/ ProviderFlaps \/ Leave
  \/ \E k \in left.kinds : SwitchTo(k)
  \/ \E i \in 1..Len(visit) :
       \/ ListAnswers(i) \/ ListArrives(i) \/ ListFails(i) \/ RunEnds(i) \/ Connects(i) \/ Retries(i)
       \/ Cut(i) \/ Unauthorized(i)
       \/ PollLists(i) \/ PollFails(i) \/ PollFilters(i) \/ PollEnds(i) \/ Ticks(i)
       \/ \E n \in Name : PollEmits(i, n)

\* Requests are answered, timers fire and loops go on; operations store their
\* result.  Nobody has to change anything or to look at a page.
MaxVisits == Max({b.visits : b \in Scenarios})
WatchFairness ==
  /\ WF_vars(OperationSaves)
  /\ \A i \in 1..MaxVisits :
       WF_vars(i <= Len(visit) /\ Server(i)) /\ WF_vars(i <= Len(visit) /\ Client(i))

WatchSpec == Init /\ [][Next]_vars /\ WatchFairness

------------------------------------------------------------------------------
(* Properties *)

Strays(i) == i \in DOMAIN visit /\ visit[i].kind # shown /\ visit[i].at \notin {"over", "refused"}
Running(i) == visit[i].at \in Open /\ ~Aborted(visit[i])

\* The page has one stream, of its own kind, and no earlier visit has put, or
\* will put, its list or its events there.
Alone(i) ==
  /\ Running(i) /\ visit[i].kind = shown
  /\ \A j \in 1..Len(visit) \ {i} : visit[j].at \notin {"asks", "answered"} /\ Aborted(visit[j])

\* Between polls the page shows, for every resource of the stream's snapshot,
\* the spec that the snapshot stands for; and nothing else but rows that it had
\* before the stream was opened: no event is lost between the diff of the
\* server and the merge of the page, whatever was cut or aborted before
\* (snapshot, first, seen; mergeRow).
InStep ==
  \A i \in 1..Len(visit) : Alone(i) /\ visit[i].at \in {"wait", "list", "filter"} =>
    \A n \in Name :
      /\ visit[i].snapshot[n] # None => rows[n] # None /\ rows[n].spec = visit[i].snapshot[n]
      /\ rows[n] # None => visit[i].snapshot[n] # None \/ n \in visit[i].held

\* Everything that is managed and there is on the page, with its spec, once the
\* world has come to rest; as long as somebody looks, the provider answers, the
\* session is good, and no stream of another kind feeds the same page.
Undisturbed ==
  /\ ~down /\ shown # None
  /\ \A i \in 1..Len(visit) : visit[i].at = "over" \/ (visit[i].kind = shown /\ visit[i].at # "refused")
Current(n) == observed[shown][n] # None /\ desired[shown][n] # None
CatchesUp ==
  \A n \in Name :
    <>[](Undisturbed /\ Current(n)) =>
      <>[](Undisturbed /\ Current(n) => rows[n] # None /\ rows[n].spec = observed[shown][n].spec)

------------------------------------------------------------------------------
(* What documents and comments say and the code does not keep; each has a  *)
(* configuration, named after it, with which TLC refutes it.               *)

\* watch.go: "attach so MODIFIED fires on drift transitions": where nothing is
\* cut and nobody changes kinds, the drift badge of a row comes to be right.
DriftIsShown ==
  \A n \in Name : <>[](rows[n] # None => rows[n].drift = (desired[rows[n].kind][n] # rows[n].spec))

\* UI.md: "Live updates throughout ... The shell needs no refresh button": a page
\* that stays open comes to show the resources that a reload would.
Names(list) == {n \in Name : list[n] # None}
ListIsLive == <>[](shown # None => Names(rows) = Names(Listed(shown)))

\* stream.ts: the signal is there "so server-side streams tear down cleanly when
\* the user navigates away": a stream of a kind that was left ends.
LeftStreamsEnd ==
  \A i \in 1..MaxVisits : Strays(i) ~> ~Strays(i)
================================================================================
