--------------------------- MODULE KubeObjectsProofs ---------------------------
(***************************************************************************)
(* Proofs about one resource of the k8s plugin, for any items, clusters    *)
(* and namespaces, any number of concurrent Gets and any of the faults.    *)
(***************************************************************************)
EXTENDS KubeObjects, TLAPS

\* An apply wants a spec, a delete none; the answer to an apply is a blob that
\* lists what it wanted.
OpShape ==
  op # None =>
    /\ op.type = "apply" => op.spec \in Spec
    /\ op.at = "answered" => op.blob = op.spec

\* A request whose caller still waits is the one it sent; the items of an apply
\* that nobody waits for are astray.
Asked(r) ==
  /\ r.type = "apply" => r.spec \in Spec
  /\ r.from \in Getter => r.type = "get"
  /\ r.from = "op" => /\ op # None /\ op.at = "sent"
                      /\ r.type = op.type /\ r.spec = op.spec /\ r.state = op.prior
  /\ r.from = "nobody" /\ r.type = "apply" => Places(r.spec) \subseteq astray

\* A request that the plugin works on does no more than it asks for.
Worked(w) ==
  /\ w.req.type = "apply" => w.req.spec \in Spec /\ w.place \subseteq Places(w.req.spec)
  /\ w.req.type # "apply" => w.place = {}
  /\ w.req.type = "get" => w.remove = {}

RequestsInv ==
  /\ \A k \in 1..Len(queue) : Asked(queue[k])
  /\ work # None => Asked(work.req) /\ Worked(work)
  /\ ghost # None => /\ Worked(ghost)
                     /\ ghost.req.type = "apply" => Places(ghost.req.spec) \subseteq astray

\* Only Gets come behind the request of the operation in progress, so that only
\* Gets are under way when it is answered and after it.
OnlyGets == \A k \in 1..Len(queue) : queue[k].type = "get"
OrderInv ==
  /\ \A j, k \in 1..Len(queue) : k < j /\ queue[k].from = "op" => queue[j].type = "get"
  /\ work # None /\ work.req.from = "op" => OnlyGets
  /\ (op # None /\ op.at = "answered") \/ last # None =>
       OnlyGets /\ (work # None => work.req.type = "get")
  /\ op # None => last = None

KubeBase == TypeOK /\ OpShape /\ RequestsInv /\ OrderInv

--------------------------------------------------------------------------------
(* Places.                                                                 *)

LEMMA NoneIsNothing ==
  None \notin Spec /\ None \notin Getter /\ None \notin Oper /\ None \notin GetCall /\ None \notin Work
BY KubeConstants

LEMMA PlacesType == \A s \in Spec : Places(s) \subseteq Place
<1> SUFFICES ASSUME NEW s \in Spec, NEW i \in DOMAIN s.ns
             PROVE  <<s.cluster, s.ns[i], i>> \in Place
  BY DEF Places
<1>1. PICK S \in SUBSET Item : s.ns \in [S -> Namespace]
  BY DEF Spec
<1>2. i \in Item /\ s.ns[i] \in Namespace
  BY <1>1
<1>3. s.cluster \in Cluster
  BY DEF Spec
<1> QED BY <1>2, <1>3 DEF Place

LEMMA RecordedType == \A s \in Spec \cup {None} : Recorded(s) \subseteq Place
BY PlacesType DEF Recorded

\* What is pruned from the cluster is a place, and none that the spec wants but
\* for what is renamed.
LEMMA PrunedType ==
  ASSUME NEW s \in Spec, NEW prior \in Spec \cup {None}
  PROVE  Pruned(s, prior) \subseteq Place /\ Pruned(s, prior) \cap Places(s) \subseteq Renamed(s, prior)
<1>1. CASE prior = None \/ left.kind = "helm"
  BY <1>1 DEF Pruned
<1>2. CASE prior # None /\ left.kind # "helm"
  <2> DEFINE G == {j \in DOMAIN prior.ns : ~Kept(j, s, prior)}
  <2>1. Pruned(s, prior) = {<<s.cluster, prior.ns[i], i>> : i \in G}
    BY <1>2 DEF Pruned
  <2>2. PICK S \in SUBSET Item : prior.ns \in [S -> Namespace]
    BY <1>2 DEF Spec
  <2>3. s.cluster \in Cluster
    BY DEF Spec
  <2>4. ASSUME NEW i \in G PROVE <<s.cluster, prior.ns[i], i>> \in Place
    <3>1. i \in Item /\ prior.ns[i] \in Namespace
      BY <2>2
    <3> QED BY <3>1, <2>3 DEF Place
  <2>5. ASSUME NEW i \in G, <<s.cluster, prior.ns[i], i>> \in Places(s)
        PROVE  <<s.cluster, prior.ns[i], i>> \in Renamed(s, prior)
    <3> DEFINE R == {j \in DOMAIN s.ns \cap DOMAIN prior.ns :
                       s.ns[j] = prior.ns[j] /\ s.api[j] # prior.api[j]}
    <3>1. PICK j \in DOMAIN s.ns : <<s.cluster, prior.ns[i], i>> = <<s.cluster, s.ns[j], j>>
      BY <2>5 DEF Places
    <3>2. j = i /\ s.ns[i] = prior.ns[i]
      BY <3>1
    <3>3. left.kind = "objects" /\ i \in R
      BY <3>1, <3>2 DEF Kept
    <3>4. Renamed(s, prior) = {<<s.cluster, s.ns[k], k>> : k \in R}
      BY <1>2, <3>3 DEF Renamed
    <3> HIDE DEF R
    <3> QED BY <3>2, <3>3, <3>4
  <2> QED BY <2>1, <2>4, <2>5
<1> QED BY <1>1, <1>2

\* The work of a request.
LEMMA WorkType ==
  ASSUME NEW r \in Request, Asked(r)
  PROVE  /\ Work0(r) \in Work /\ Work0(r) # None /\ Work0(r).req = r /\ Worked(Work0(r))
         /\ r.type = "apply" => /\ Work0(r).place = Places(r.spec)
                                /\ Work0(r).remove = Pruned(r.spec, r.state)
         /\ r.type = "delete" => Work0(r).remove = Recorded(r.state)
<1>1. r.state \in Spec \cup {None} /\ r.type \in {"apply", "get", "delete"}
  BY DEF Request, Blob
<1>2. r.type = "apply" => r.spec \in Spec
  BY DEF Asked
<1>3. CASE r.type = "apply"
  <2>1. Work0(r) = [req |-> r, place |-> Places(r.spec), remove |-> Pruned(r.spec, r.state)]
    BY <1>3 DEF Work0
  <2>2. Places(r.spec) \subseteq Place /\ Pruned(r.spec, r.state) \subseteq Place
    BY <1>1, <1>2, <1>3, PlacesType, PrunedType
  <2>3. Work0(r) \in Work
    BY <2>1, <2>2 DEF Work
  <2> QED BY <1>2, <1>3, <2>1, <2>3, NoneIsNothing DEF Worked
<1>4. CASE r.type = "delete"
  <2>1. Work0(r) = [req |-> r, place |-> {}, remove |-> Recorded(r.state)]
    BY <1>4 DEF Work0
  <2>2. Work0(r) \in Work
    BY <2>1, <1>1, RecordedType DEF Work
  <2> QED BY <1>4, <2>1, <2>2, NoneIsNothing DEF Worked
<1>5. CASE r.type = "get"
  <2>1. Work0(r) = [req |-> r, place |-> {}, remove |-> {}]
    BY <1>5 DEF Work0
  <2>2. Work0(r) \in Work
    BY <2>1 DEF Work
  <2> QED BY <1>5, <2>1, <2>2, NoneIsNothing DEF Worked
<1> QED BY <1>1, <1>3, <1>4, <1>5

\* One step of work.
LEMMA DoesOne ==
  ASSUME NEW w \in Work, Worked(w), TypeOK, NEW x \in Place, Does(w, x)
  PROVE  /\ Done(w, x) \in Work /\ Done(w, x) # None /\ Worked(Done(w, x)) /\ Done(w, x).req = w.req
         /\ Done(w, x).place = w.place \ {x} /\ Done(w, x).remove \subseteq w.remove
         /\ w.place # {} => Done(w, x).remove = w.remove
         /\ w.remove \ {x} \subseteq Done(w, x).remove
         /\ things' \in [Place -> Spec \cup {None}]
         /\ \A y \in Place : y # x => things'[y] = things[y]
         /\ w.req.type # "get"
         /\ \/ /\ w.req.type = "apply" /\ w.place # {} /\ x \in w.place
               /\ x \in Places(w.req.spec) /\ things'[x] = w.req.spec
            \/ w.place = {} /\ x \in w.remove /\ things'[x] = None
<1>1. w = [req |-> w.req, place |-> w.place, remove |-> w.remove]
  BY DEF Work
<1>2. w.req \in Request /\ w.place \in SUBSET Place /\ w.remove \in SUBSET Place
  BY DEF Work
<1>3. Done(w, x) = [req |-> w.req, place |-> w.place \ {x},
                    remove |-> IF w.place # {} THEN w.remove ELSE w.remove \ {x}]
  <2> DEFINE d == Done(w, x)
             rest == IF w.place # {} THEN w.remove ELSE w.remove \ {x}
  <2>1. d = [[w EXCEPT !.place = w.place \ {x}] EXCEPT !.remove = rest]
    BY <1>1 DEF Done
  <2> HIDE DEF rest
  <2>2. d = [req |-> w.req, place |-> w.place \ {x}, remove |-> rest]
    BY <1>1, <2>1
  <2> QED BY <2>2 DEF rest
<1>4. Done(w, x) \in Work
  BY <1>2, <1>3 DEF Work
<1>5. things \in [Place -> Spec \cup {None}]
  BY DEF TypeOK
<1>6. CASE w.place # {}
  <2>1. x \in w.place /\ w.req.type = "apply" /\ w.req.spec \in Spec /\ x \in Places(w.req.spec)
    BY <1>6 DEF Does, Worked
  <2>2. things' = [things EXCEPT ![x] = w.req.spec]
    BY <1>6 DEF Does
  <2> QED BY <1>3, <1>4, <1>5, <1>6, <2>1, <2>2, NoneIsNothing DEF Worked
<1>7. CASE w.place = {}
  <2>1. x \in w.remove
    BY <1>7 DEF Does
  <2>2. things' = [things EXCEPT ![x] = None]
    BY <1>7 DEF Does
  <2> QED BY <1>3, <1>4, <1>5, <1>7, <2>1, <2>2, NoneIsNothing DEF Worked
<1> QED BY <1>6, <1>7

--------------------------------------------------------------------------------
(* Types, and the order of requests.                                       *)

\* Requests that are sent, taken and given up.
LEMMA QueueTypes ==
  ASSUME NEW s \in Seq(Request)
  PROVE  /\ s # <<>> => /\ Head(s) \in Request /\ Tail(s) \in Seq(Request)
                        /\ Len(Tail(s)) = Len(s) - 1
                        /\ \A i \in 1..Len(Tail(s)) : i + 1 \in 1..Len(s) /\ Tail(s)[i] = s[i + 1]
                        /\ Head(s) = s[1] /\ 1 \in 1..Len(s)
         /\ \A m \in Request : /\ Append(s, m) \in Seq(Request) /\ Len(Append(s, m)) = Len(s) + 1
                               /\ \A i \in 1..Len(s) : Append(s, m)[i] = s[i]
                               /\ Append(s, m)[Len(s) + 1] = m
         /\ Len(s) \in Nat /\ DOMAIN s = 1..Len(s)
         /\ \A i \in 1..Len(s) : s[i] \in Request
OBVIOUS

LEMMA ForsakenType ==
  ASSUME NEW r \in Request, NEW f
  PROVE  /\ Forsaken(r, f) \in Request
         /\ Forsaken(r, f).type = r.type /\ Forsaken(r, f).spec = r.spec /\ Forsaken(r, f).state = r.state
         /\ Forsaken(r, f).from = IF r.from = f THEN "nobody" ELSE r.from
BY DEF Forsaken, Request

LEMMA AbandonType ==
  ASSUME TypeOK, NEW f, Abandon(f)
  PROVE  /\ queue' \in Seq(Request) /\ Len(queue') = Len(queue)
         /\ \A k \in 1..Len(queue) : queue'[k] = Forsaken(queue[k], f)
         /\ work = None => work' = None
         /\ work # None => /\ work' \in Work /\ work' # None
                           /\ work'.req = Forsaken(work.req, f)
                           /\ work'.place = work.place /\ work'.remove = work.remove
<1>1. queue \in Seq(Request) /\ Len(queue) \in Nat /\ DOMAIN queue = 1..Len(queue)
  BY DEF TypeOK
<1>2. \A k \in 1..Len(queue) : Forsaken(queue[k], f) \in Request
  BY <1>1, ForsakenType, QueueTypes
<1>3. queue' = [k \in 1..Len(queue) |-> Forsaken(queue[k], f)]
  BY <1>1 DEF Abandon
<1>4. queue' \in Seq(Request) /\ Len(queue') = Len(queue)
  BY <1>1, <1>2, <1>3
<1>5. ASSUME work # None
      PROVE  /\ work' \in Work /\ work' # None
             /\ work'.req = Forsaken(work.req, f)
             /\ work'.place = work.place /\ work'.remove = work.remove
  <2>1. work \in Work
    BY <1>5 DEF TypeOK
  <2>2. work.req \in Request
    BY <2>1 DEF Work
  <2>3. Forsaken(work.req, f) \in Request
    BY <2>2, ForsakenType
  <2>4. work' = [work EXCEPT !.req = Forsaken(work.req, f)]
    BY <1>5 DEF Abandon
  <2> HIDE DEF Forsaken
  <2>5. work' \in Work /\ work'.req = Forsaken(work.req, f)
             /\ work'.place = work.place /\ work'.remove = work.remove
    BY <2>1, <2>3, <2>4 DEF Work
  <2> QED BY <2>5, NoneIsNothing
<1> QED BY <1>3, <1>4, <1>5 DEF Abandon

LEMMA SpendType ==
  ASSUME TypeOK, NEW b \in {"ops", "gets", "cancels", "failures", "stops"}, Spend(b)
  PROVE  left' \in Bounds
BY DEF TypeOK, Spend, Bounds

LEMMA InitBase == Init => KubeBase
<1> SUFFICES ASSUME Init PROVE KubeBase
  OBVIOUS
<1>1. left \in Bounds
  BY KubeConstants DEF Init
<1>2. TypeOK
  <2>1. queue \in Seq(Request)
    BY DEF Init
  <2>2. haunted \in BOOLEAN
    BY DEF Init
  <2>3. things \in [Place -> Spec \cup {None}] /\ get \in [Getter -> GetCall \cup {None}]
    BY DEF Init
  <2> QED BY <1>1, <2>1, <2>2, <2>3 DEF Init, TypeOK
<1> QED BY <1>2 DEF Init, KubeBase, OpShape, RequestsInv, OrderInv, OnlyGets

LEMMA LostType == TypeOK /\ OpShape => Lost(op) \subseteq Place
BY PlacesType DEF TypeOK, OpShape, Lost, Oper

\* What an operation does before its request is sent and after it is answered.
LEMMA OpBase ==
  ASSUME KubeBase,
         \/ \E s \in Specs[left.kind] : OpStarts("apply", s)
         \/ OpStarts("delete", None) \/ OpLoads \/ OpSaves
  PROVE  KubeBase'
<1> USE DEF KubeBase
<1>1. ASSUME NEW t \in {"apply", "delete"}, NEW s \in Spec \cup {None}, t = "apply" => s \in Spec,
             OpStarts(t, s)
      PROVE  KubeBase'
  <2>1. op' = [type |-> t, spec |-> s, at |-> "starts", prior |-> None, blob |-> None] /\ op = None
    BY <1>1 DEF OpStarts
  <2>2. op' \in Oper
    BY <2>1 DEF Oper, Blob
  <2>3. TypeOK'
    BY <1>1, <2>2, SpendType DEF OpStarts, TypeOK
  <2>4. OpShape'
    BY <1>1, <2>1 DEF OpShape
  <2>5. UNCHANGED <<queue, work, ghost, astray>> /\ last' = None
    BY <1>1 DEF OpStarts
  <2>6. RequestsInv'
    BY <2>1, <2>5 DEF RequestsInv, Asked
  <2>7. OrderInv'
    BY <2>1, <2>5, NoneIsNothing DEF OrderInv, OnlyGets
  <2> QED BY <2>3, <2>4, <2>6, <2>7
<1>2. ASSUME NEW s \in Specs[left.kind], OpStarts("apply", s) PROVE KubeBase'
  <2>1. left.kind \in Kind
    BY DEF TypeOK, Bounds
  <2>2. s \in Spec
    BY <2>1, KubeConstants
  <2> QED BY <1>1, <1>2, <2>2
<1>3. CASE OpLoads
  <2>1. op \in Oper /\ op.at = "starts" /\ op' = [op EXCEPT !.at = "loaded", !.prior = state]
    BY <1>3 DEF OpLoads, TypeOK
  <2>2. op' \in Oper /\ op'.at = "loaded" /\ op'.type = op.type /\ op'.spec = op.spec
    BY <2>1 DEF Oper, TypeOK
  <2>3. UNCHANGED <<things, state, get, queue, work, ghost, left, last, astray, haunted>>
    BY <1>3 DEF OpLoads
  <2>4. TypeOK'
    BY <2>2, <2>3 DEF TypeOK
  <2>5. OpShape'
    BY <2>1, <2>2, NoneIsNothing DEF OpShape
  <2>6. RequestsInv'
    BY <2>1, <2>3 DEF RequestsInv, Asked
  <2>7. OrderInv'
    BY <2>1, <2>2, <2>3, NoneIsNothing DEF OrderInv, OnlyGets
  <2> QED BY <2>4, <2>5, <2>6, <2>7
<1>4. CASE OpSaves
  <2>1. op \in Oper /\ op # None /\ op.at = "answered" /\ op' = None /\ last' = op
    BY <1>4 DEF OpSaves, TypeOK
  <2>2. UNCHANGED <<things, get, queue, work, ghost, left, astray, haunted>> /\ state' = SavedState(op)
    BY <1>4 DEF OpSaves
  <2>3. TypeOK'
    BY <2>1, <2>2 DEF TypeOK, SavedState, Oper
  <2>4. OpShape' /\ OrderInv'
    BY <2>1, <2>2 DEF OpShape, OrderInv, OnlyGets
  <2>5. RequestsInv'
    BY <2>1, <2>2 DEF RequestsInv, Asked
  <2> QED BY <2>3, <2>4, <2>5
<1> QED BY <1>1, <1>2, <1>3, <1>4

LEMMA SendBase ==
  ASSUME KubeBase, OpSends \/ \E g \in Getter : GetSends(g)
  PROVE  KubeBase'
<1> USE DEF KubeBase
<1>0. queue \in Seq(Request)
  BY DEF TypeOK
<1>1. CASE OpSends
  <2> DEFINE r == [type |-> op.type, spec |-> op.spec, state |-> op.prior, from |-> "op"]
  <2>1. op \in Oper /\ op # None /\ op.at = "loaded" /\ op' = [op EXCEPT !.at = "sent"]
        /\ queue' = Append(queue, r)
    BY <1>1 DEF OpSends, TypeOK
  <2>2. r \in Request
    BY <2>1 DEF Oper, Request
  <2>3. op' \in Oper /\ op'.at = "sent" /\ op'.type = op.type /\ op'.spec = op.spec /\ op'.prior = op.prior
    BY <2>1 DEF Oper
  <2>4. UNCHANGED <<things, state, get, work, ghost, left, last, astray, haunted>>
    BY <1>1 DEF OpSends
  <2>5. /\ queue' \in Seq(Request) /\ Len(queue') = Len(queue) + 1 /\ Len(queue) \in Nat
        /\ \A i \in 1..Len(queue) : queue'[i] = queue[i]
        /\ queue'[Len(queue) + 1] = r
    BY <1>0, <2>1, <2>2, QueueTypes
  <2>6. TypeOK'
    BY <2>3, <2>4, <2>5 DEF TypeOK
  <2>7. OpShape'
    BY <2>1, <2>3, NoneIsNothing DEF OpShape
  <2>8. \A k \in 1..Len(queue) : queue[k].from # "op"
    BY <2>1 DEF RequestsInv, Asked
  <2>9. work # None => work.req.from # "op"
    BY <2>1 DEF RequestsInv, Asked
  <2>10. ASSUME NEW k \in 1..Len(queue') PROVE Asked(queue[k])'
    <3>1. CASE k \in 1..Len(queue)
      BY <2>4, <2>5, <2>8, <3>1 DEF RequestsInv, Asked
    <3>2. CASE k = Len(queue) + 1
      <4>1. "op" \notin Getter
        BY KubeConstants
      <4> QED BY <2>1, <2>3, <2>5, <3>2, <4>1, NoneIsNothing DEF OpShape, Asked
    <3> QED BY <2>5, <3>1, <3>2
  <2>11. RequestsInv'
    BY <2>4, <2>9, <2>10 DEF RequestsInv, Asked
  <2>12. last' = None
    BY <2>1, <2>4 DEF OrderInv
  <2>13. \A j, k \in 1..Len(queue') : ~(k < j /\ queue'[k].from = "op")
    BY <2>5, <2>8
  <2>14. OrderInv'
    BY <2>3, <2>4, <2>9, <2>12, <2>13 DEF OrderInv
  <2> QED BY <2>6, <2>7, <2>11, <2>14
<1>2. ASSUME NEW g \in Getter, GetSends(g) PROVE KubeBase'
  <2> DEFINE r == [type |-> "get", spec |-> None, state |-> get[g].blob, from |-> g]
  <2>1. get[g] \in GetCall /\ get' = [get EXCEPT ![g].at = "sent"] /\ queue' = Append(queue, r)
    BY <1>2 DEF GetSends, TypeOK
  <2>2. r \in Request
    BY <2>1 DEF GetCall, Request
  <2>3. get' \in [Getter -> GetCall \cup {None}]
    BY <2>1 DEF GetCall, TypeOK
  <2>4. UNCHANGED <<things, state, op, work, ghost, left, last, astray, haunted>>
    BY <1>2 DEF GetSends
  <2>5. /\ queue' \in Seq(Request) /\ Len(queue') = Len(queue) + 1 /\ Len(queue) \in Nat
        /\ \A i \in 1..Len(queue) : queue'[i] = queue[i]
        /\ queue'[Len(queue) + 1] = r
    BY <1>0, <2>1, <2>2, QueueTypes
  <2>6. TypeOK'
    BY <2>3, <2>4, <2>5 DEF TypeOK
  <2>7. OpShape'
    BY <2>4 DEF OpShape
  <2>8. g # "op" /\ g # "nobody"
    BY KubeConstants
  <2>9. ASSUME NEW k \in 1..Len(queue') PROVE Asked(queue[k])'
    <3>1. CASE k \in 1..Len(queue)
      BY <2>4, <2>5, <3>1 DEF RequestsInv, Asked
    <3>2. CASE k = Len(queue) + 1
      BY <2>5, <2>8, <3>2 DEF Asked
    <3> QED BY <2>5, <3>1, <3>2
  <2>10. RequestsInv'
    BY <2>4, <2>9 DEF RequestsInv, Asked
  <2>11. OnlyGets => OnlyGets'
    BY <2>5 DEF OnlyGets
  <2>12. \A j, k \in 1..Len(queue') : k < j /\ queue'[k].from = "op" => queue'[j].type = "get"
    BY <2>5, <2>8 DEF OrderInv
  <2>13. OrderInv'
    BY <2>4, <2>11, <2>12 DEF OrderInv
  <2> QED BY <2>6, <2>7, <2>10, <2>13
<1> QED BY <1>1, <1>2

LEMMA GetBase ==
  ASSUME KubeBase, NEW g \in Getter, GetLoads(g) \/ GetSaves(g)
  PROVE  KubeBase'
<1> USE DEF KubeBase
<1>1. CASE GetLoads(g)
  <2>1. UNCHANGED <<things, state, op, queue, work, ghost, last, astray, haunted>>
    BY <1>1 DEF GetLoads
  <2>2. get' \in [Getter -> GetCall \cup {None}]
    BY <1>1 DEF GetLoads, TypeOK, GetCall
  <2>3. TypeOK'
    BY <1>1, <2>1, <2>2, SpendType DEF GetLoads, TypeOK
  <2> QED BY <2>1, <2>3 DEF OpShape, RequestsInv, Asked, OrderInv, OnlyGets
<1>2. CASE GetSaves(g)
  <2>1. /\ UNCHANGED <<things, op, queue, work, ghost, left, last, haunted>>
        /\ state' = get[g].blob /\ get' = [get EXCEPT ![g] = None]
    BY <1>2 DEF GetSaves
  <2>2. state' \in Blob \cup {None} /\ get' \in [Getter -> GetCall \cup {None}]
    BY <1>2, <2>1 DEF GetSaves, TypeOK, GetCall
  <2>3. astray \subseteq astray' /\ astray' \subseteq Place
    BY <1>2 DEF GetSaves, TypeOK, Present
  <2>4. TypeOK'
    BY <2>1, <2>2, <2>3 DEF TypeOK
  <2>5. OpShape' /\ OrderInv'
    BY <2>1 DEF OpShape, OrderInv, OnlyGets
  <2>6. RequestsInv'
    BY <2>1, <2>3 DEF RequestsInv, Asked
  <2> QED BY <2>4, <2>5, <2>6
<1> QED BY <1>1, <1>2

\* A caller gives up: its request, if it is on its way or worked on, is nobody's.
LEMMA CancelBase ==
  ASSUME KubeBase, OpCanceled \/ \E g \in Getter : GetCanceled(g)
  PROVE  KubeBase'
<1> USE DEF KubeBase
<1>0. queue \in Seq(Request) /\ \A k \in 1..Len(queue) : queue[k] \in Request
  BY QueueTypes DEF TypeOK
<1>00. work # None => work \in Work /\ work.req \in Request
  BY DEF TypeOK, Work
<1>1. CASE OpCanceled
  <2>1. /\ op # None /\ op' = None /\ astray' = astray \cup Lost(op) /\ last = None
        /\ UNCHANGED <<things, state, get, ghost, last, haunted>>
        /\ Abandon("op") /\ Spend("cancels")
    BY <1>1 DEF OpCanceled, OrderInv
  <2>2. /\ queue' \in Seq(Request) /\ Len(queue') = Len(queue)
        /\ \A k \in 1..Len(queue) : queue'[k] = Forsaken(queue[k], "op")
        /\ work = None => work' = None
        /\ work # None => /\ work' \in Work /\ work' # None
                          /\ work'.req = Forsaken(work.req, "op")
                          /\ work'.place = work.place /\ work'.remove = work.remove
    BY <2>1, AbandonType
  <2>3. TypeOK'
    <3>1. left' \in Bounds
      BY <2>1, SpendType
    <3>2. astray' \subseteq Place
      BY <2>1, LostType DEF TypeOK
    <3>3. work' \in Work \cup {None}
      BY <2>2 DEF TypeOK
    <3> QED BY <2>1, <2>2, <3>1, <3>2, <3>3 DEF TypeOK
  <2>4. OpShape'
    BY <2>1 DEF OpShape
  <2>5. ASSUME NEW r \in Request, Asked(r)
        PROVE  /\ Forsaken(r, "op").from # "op"
               /\ Forsaken(r, "op").type = r.type /\ Forsaken(r, "op").spec = r.spec
               /\ r.type = "apply" => r.spec \in Spec
               /\ Forsaken(r, "op").from \in Getter => r.type = "get"
               /\ Forsaken(r, "op").from = "nobody" /\ r.type = "apply" => Places(r.spec) \subseteq astray'
    <3>1. Places(r.spec) \subseteq astray => Places(r.spec) \subseteq astray'
      BY <2>1
    <3>2. r.from = "op" /\ r.type = "apply" => Places(r.spec) \subseteq astray'
      BY <2>1, <2>5 DEF Asked, Lost
    <3>3. "nobody" \notin Getter
      BY KubeConstants
    <3> QED BY <2>5, <3>1, <3>2, <3>3, ForsakenType DEF Asked
  <2>6. RequestsInv'
    <3>1. ASSUME NEW k \in 1..Len(queue') PROVE Asked(queue[k])'
      <4>1. queue[k] \in Request /\ Asked(queue[k]) /\ queue'[k] = Forsaken(queue[k], "op")
        BY <1>0, <2>2 DEF RequestsInv
      <4> QED BY <4>1, <2>5 DEF Asked
    <3>2. work' # None => Asked(work.req)' /\ Worked(work)'
      <4>1. work # None => Asked(work.req) /\ Worked(work)
        BY DEF RequestsInv
      <4>2. work # None => Asked(work.req)'
        BY <1>00, <2>2, <2>5, <4>1 DEF Asked
      <4>3. work # None => Worked(work')
        BY <1>00, <2>2, <4>1, ForsakenType DEF Worked
      <4> QED BY <2>2, <4>2, <4>3
    <3>3. ghost' # None => /\ Worked(ghost')
                           /\ ghost'.req.type = "apply" => Places(ghost'.req.spec) \subseteq astray'
      BY <2>1 DEF RequestsInv
    <3> QED BY <3>1, <3>2, <3>3 DEF RequestsInv
  <2>7. OrderInv'
    <3>1. \A k \in 1..Len(queue') : queue'[k].from # "op"
      BY <1>0, <2>2, <2>5 DEF RequestsInv
    <3>2. work' # None => work'.req.from # "op"
      BY <1>00, <2>2, <2>5 DEF RequestsInv
    <3> QED BY <2>1, <3>1, <3>2 DEF OrderInv
  <2> QED BY <2>3, <2>4, <2>6, <2>7
<1>2. ASSUME NEW g \in Getter, GetCanceled(g) PROVE KubeBase'
  <2>1. /\ UNCHANGED <<things, state, op, ghost, last, astray, haunted>>
        /\ get' = [get EXCEPT ![g] = None]
        /\ Abandon(g) /\ Spend("cancels")
    BY <1>2 DEF GetCanceled
  <2>2. /\ queue' \in Seq(Request) /\ Len(queue') = Len(queue)
        /\ \A k \in 1..Len(queue) : queue'[k] = Forsaken(queue[k], g)
        /\ work = None => work' = None
        /\ work # None => /\ work' \in Work /\ work' # None
                          /\ work'.req = Forsaken(work.req, g)
                          /\ work'.place = work.place /\ work'.remove = work.remove
    BY <2>1, AbandonType
  <2>3. TypeOK'
    <3>1. left' \in Bounds
      BY <2>1, SpendType
    <3>2. get' \in [Getter -> GetCall \cup {None}]
      BY <2>1 DEF TypeOK
    <3>3. work' \in Work \cup {None}
      BY <2>2 DEF TypeOK
    <3> QED BY <2>1, <2>2, <3>1, <3>2, <3>3 DEF TypeOK
  <2>4. OpShape'
    BY <2>1 DEF OpShape
  <2>5. ASSUME NEW r \in Request, Asked(r)
        PROVE  /\ Forsaken(r, g).from = "op" => r.from = "op"
               /\ Forsaken(r, g).type = r.type /\ Forsaken(r, g).spec = r.spec
               /\ Forsaken(r, g).state = r.state
               /\ r.type = "apply" => r.spec \in Spec
               /\ Forsaken(r, g).from \in Getter => r.type = "get"
               /\ Forsaken(r, g).from = "nobody" /\ r.type = "apply" => Places(r.spec) \subseteq astray
    <3>1. "nobody" \notin Getter
      BY KubeConstants
    <3> QED BY <2>5, <3>1, ForsakenType DEF Asked
  <2>6. RequestsInv'
    <3>1. ASSUME NEW k \in 1..Len(queue') PROVE Asked(queue[k])'
      <4>1. queue[k] \in Request /\ Asked(queue[k]) /\ queue'[k] = Forsaken(queue[k], g)
        BY <1>0, <2>2 DEF RequestsInv
      <4> QED BY <4>1, <2>1, <2>5 DEF Asked
    <3>2. work' # None => Asked(work.req)' /\ Worked(work)'
      <4>1. work # None => Asked(work.req) /\ Worked(work)
        BY DEF RequestsInv
      <4>2. work # None => Asked(work.req)'
        BY <1>00, <2>1, <2>2, <2>5, <4>1 DEF Asked
      <4>3. work # None => Worked(work')
        BY <1>00, <2>2, <4>1, ForsakenType DEF Worked
      <4> QED BY <2>2, <4>2, <4>3
    <3>3. ghost' # None => /\ Worked(ghost')
                           /\ ghost'.req.type = "apply" => Places(ghost'.req.spec) \subseteq astray'
      BY <2>1 DEF RequestsInv
    <3> QED BY <3>1, <3>2, <3>3 DEF RequestsInv
  <2>7. OrderInv'
    <3>1. \A k \in 1..Len(queue') :
            queue'[k].type = queue[k].type /\ (queue'[k].from = "op" => queue[k].from = "op")
      BY <1>0, <2>2, <2>5 DEF RequestsInv
    <3>2. work' # None => /\ work # None /\ work'.req.type = work.req.type
                          /\ work'.req.from = "op" => work.req.from = "op"
      BY <1>00, <2>2, <2>5 DEF RequestsInv
    <3> QED BY <2>1, <2>2, <3>1, <3>2 DEF OrderInv, OnlyGets
  <2> QED BY <2>3, <2>4, <2>6, <2>7
<1> QED BY <1>1, <1>2

LEMMA TakeBase ==
  ASSUME KubeBase, PluginTakes
  PROVE  KubeBase'
<1> USE DEF KubeBase
<1> DEFINE r == Head(queue)
<1>1. /\ work = None /\ queue # <<>> /\ work' = Work0(r) /\ queue' = Tail(queue)
      /\ haunted' = (haunted /\ r.from # "op") /\ astray' = astray \cup Moved(r)
      /\ UNCHANGED <<things, state, op, get, ghost, left, last>>
  BY DEF PluginTakes
<1>2. queue \in Seq(Request)
  BY DEF TypeOK
<1>3. /\ r \in Request /\ queue' \in Seq(Request) /\ Len(queue') = Len(queue) - 1 /\ Len(queue) \in Nat
      /\ \A i \in 1..Len(queue') : i + 1 \in 1..Len(queue) /\ queue'[i] = queue[i + 1]
      /\ r = queue[1] /\ 1 \in 1..Len(queue)
  BY <1>1, <1>2, QueueTypes
<1>4. Asked(r)
  BY <1>3 DEF RequestsInv
<1>5. work' \in Work /\ work' # None /\ work'.req = r /\ Worked(work')
  BY <1>1, <1>3, <1>4, WorkType
<1>6. astray \subseteq astray' /\ astray' \subseteq Place
  <2>1. Moved(r) \subseteq Place
    <3>1. Recorded(r.state) \subseteq Place
      BY <1>3, RecordedType DEF Request, Blob
    <3> QED BY <3>1 DEF Moved
  <2> QED BY <1>1, <2>1 DEF TypeOK
<1>7. TypeOK'
  <2>1. haunted' \in BOOLEAN
    BY <1>1
  <2> QED BY <1>1, <1>3, <1>5, <1>6, <2>1 DEF TypeOK
<1>8. OpShape'
  BY <1>1 DEF OpShape
<1>9. RequestsInv'
  <2>1. ASSUME NEW k \in 1..Len(queue') PROVE Asked(queue[k])'
    <3>1. Asked(queue[k + 1]) /\ queue'[k] = queue[k + 1]
      BY <1>3 DEF RequestsInv
    <3> QED BY <1>1, <1>6, <3>1 DEF Asked
  <2>2. Asked(work.req)'
    BY <1>1, <1>4, <1>5, <1>6 DEF Asked
  <2>3. ghost' # None => /\ Worked(ghost')
                         /\ ghost'.req.type = "apply" => Places(ghost'.req.spec) \subseteq astray'
    BY <1>1, <1>6 DEF RequestsInv
  <2> QED BY <1>5, <2>1, <2>2, <2>3 DEF RequestsInv
<1>10. OrderInv'
  <2>1. \A j, k \in 1..Len(queue') : k < j /\ queue'[k].from = "op" => queue'[j].type = "get"
    <3> SUFFICES ASSUME NEW j \in 1..Len(queue'), NEW k \in 1..Len(queue'), k < j, queue'[k].from = "op"
                 PROVE  queue'[j].type = "get"
      OBVIOUS
    <3>1. j + 1 \in 1..Len(queue) /\ k + 1 \in 1..Len(queue) /\ k + 1 < j + 1
      BY <1>3
    <3> QED BY <1>3, <3>1 DEF OrderInv
  <2>2. r.from = "op" => OnlyGets'
    BY <1>3 DEF OrderInv, OnlyGets
  <2>3. OnlyGets => OnlyGets' /\ r.type = "get"
    BY <1>3 DEF OnlyGets
  <2> QED BY <1>1, <1>5, <2>1, <2>2, <2>3 DEF OrderInv
<1> QED BY <1>7, <1>8, <1>9, <1>10

\* A step of the plugin, and one of a plugin whose controller was killed.
LEMMA StepBase ==
  ASSUME KubeBase, NEW x \in Place, PluginSteps(x) \/ GhostSteps(x)
  PROVE  KubeBase'
<1> USE DEF KubeBase
<1>1. CASE PluginSteps(x)
  <2>1. /\ work \in Work /\ work # None /\ Does(work, x) /\ work' = Done(work, x) /\ Worked(work)
        /\ UNCHANGED <<state, op, get, queue, ghost, left, last, astray, haunted>>
    BY <1>1 DEF PluginSteps, TypeOK, RequestsInv
  <2>2. /\ work' \in Work /\ work' # None /\ Worked(work') /\ work'.req = work.req
        /\ things' \in [Place -> Spec \cup {None}]
    BY <2>1, DoesOne
  <2>3. TypeOK'
    BY <2>1, <2>2 DEF TypeOK
  <2>4. OpShape' /\ OrderInv'
    BY <2>1, <2>2 DEF OpShape, OrderInv, OnlyGets
  <2>5. RequestsInv'
    BY <2>1, <2>2 DEF RequestsInv, Asked
  <2> QED BY <2>3, <2>4, <2>5
<1>2. CASE GhostSteps(x)
  <2>1. /\ ghost \in Work /\ ghost # None /\ Does(ghost, x) /\ ghost' = Done(ghost, x) /\ Worked(ghost)
        /\ UNCHANGED <<state, op, get, queue, work, left, last, astray>> /\ haunted' = TRUE
    BY <1>2 DEF GhostSteps, TypeOK, RequestsInv
  <2>2. /\ ghost' \in Work /\ ghost' # None /\ Worked(ghost') /\ ghost'.req = ghost.req
        /\ things' \in [Place -> Spec \cup {None}]
    BY <2>1, DoesOne
  <2>3. TypeOK'
    <3>1. haunted' \in BOOLEAN
      BY <2>1
    <3> QED BY <2>1, <2>2, <3>1 DEF TypeOK
  <2>4. OpShape' /\ OrderInv'
    BY <2>1 DEF OpShape, OrderInv, OnlyGets
  <2>5. RequestsInv'
    BY <2>1, <2>2 DEF RequestsInv, Asked
  <2> QED BY <2>3, <2>4, <2>5
<1> QED BY <1>1, <1>2

LEMMA ReplyBase ==
  ASSUME KubeBase, PluginReplies \/ PluginFails
  PROVE  KubeBase'
<1> USE DEF KubeBase
<1>1. work # None /\ work \in Work /\ work.req \in Request /\ Asked(work.req)
  BY DEF PluginReplies, PluginFails, TypeOK, RequestsInv, Work
<1>2. work.req.from = "op" =>
        /\ OnlyGets /\ \A k \in 1..Len(queue) : queue[k].from # "op"
        /\ op # None /\ op \in Oper /\ op.at = "sent" /\ last = None
        /\ work.req.spec = op.spec /\ work.req.type = op.type
  <2>1. work.req.from = "op" => OnlyGets /\ op # None /\ op.at = "sent"
                                /\ work.req.spec = op.spec /\ work.req.type = op.type
    BY <1>1 DEF OrderInv, Asked
  <2>2. op # None => op.type # "get" /\ op \in Oper /\ last = None
    BY DEF TypeOK, Oper, OrderInv
  <2> QED BY <2>1, <2>2 DEF RequestsInv, Asked, OnlyGets
<1>3. CASE PluginReplies
  <2> DEFINE r == work.req
  <2>1. /\ op' = (IF r.from = "op" THEN [op EXCEPT !.at = "answered", !.blob = r.spec] ELSE op)
        /\ get' = [g \in Getter |->
                     IF r.from # g THEN get[g]
                     ELSE IF Found(r) THEN [at |-> "answered", blob |-> r.state] ELSE None]
        /\ work' = None
        /\ UNCHANGED <<things, state, queue, ghost, left, last, astray, haunted>>
    BY <1>3 DEF PluginReplies
  <2>2. r.from = "op" => /\ op' \in Oper /\ op' # None /\ op'.at = "answered" /\ op'.blob = op'.spec
                         /\ op'.type = op.type /\ op'.spec = op.spec
    BY <1>2, <2>1, NoneIsNothing DEF Oper, Blob
  <2>3. op' \in Oper \cup {None}
    BY <2>1, <2>2 DEF TypeOK
  <2>4. get' \in [Getter -> GetCall \cup {None}]
    <3>1. [at |-> "answered", blob |-> r.state] \in GetCall
      BY <1>1 DEF Request, GetCall
    <3> QED BY <2>1, <3>1 DEF TypeOK
  <2>5. TypeOK'
    BY <2>1, <2>3, <2>4 DEF TypeOK
  <2>6. OpShape'
    BY <1>2, <2>1, <2>2 DEF OpShape
  <2>7. RequestsInv'
    BY <1>2, <2>1 DEF RequestsInv, Asked
  <2>8. OrderInv'
    BY <1>2, <2>1, <2>2 DEF OrderInv, OnlyGets
  <2> QED BY <2>5, <2>6, <2>7, <2>8
<1>4. CASE PluginFails
  <2> DEFINE r == work.req
  <2>1. /\ op' = (IF r.from = "op" THEN None ELSE op)
        /\ get' = [g \in Getter |-> IF r.from = g THEN None ELSE get[g]]
        /\ astray' = (IF r.from = "op" THEN astray \cup Lost(op) ELSE astray)
        /\ work' = None /\ Spend("failures")
        /\ UNCHANGED <<things, state, queue, ghost, last, haunted>>
    BY <1>4 DEF PluginFails
  <2>2. astray \subseteq astray' /\ astray' \subseteq Place
    BY <2>1, LostType DEF TypeOK
  <2>3. TypeOK'
    <3>1. left' \in Bounds
      BY <2>1, SpendType
    <3>2. get' \in [Getter -> GetCall \cup {None}]
      BY <2>1 DEF TypeOK
    <3>3. op' \in Oper \cup {None}
      BY <2>1 DEF TypeOK
    <3> QED BY <2>1, <2>2, <3>1, <3>2, <3>3 DEF TypeOK
  <2>4. OpShape'
    BY <2>1 DEF OpShape
  <2>5. RequestsInv'
    BY <1>2, <2>1, <2>2 DEF RequestsInv, Asked
  <2>6. OrderInv'
    BY <1>2, <2>1 DEF OrderInv, OnlyGets
  <2> QED BY <2>3, <2>4, <2>5, <2>6
<1> QED BY <1>3, <1>4

\* What is under way when the controller stops is given up, and what the
\* plugin still works on places nothing that is not astray.
LEMMA LifeBase ==
  ASSUME KubeBase, Restarts \/ GhostEnds
  PROVE  KubeBase'
<1> USE DEF KubeBase
<1>1. CASE Restarts
  <2>1. /\ Spend("stops") /\ ghost' \in {None, work} /\ work' = None /\ queue' = <<>>
        /\ op' = None /\ get' = [g \in Getter |-> None] /\ astray' = astray \cup Lost(op)
        /\ UNCHANGED <<things, state, last, haunted>>
    BY <1>1 DEF Restarts
  <2>2. astray \subseteq astray' /\ astray' \subseteq Place
    BY <2>1, LostType DEF TypeOK
  <2>3. queue' \in Seq(Request) /\ Len(queue') = 0
    BY <2>1
  <2>4. TypeOK'
    <3>1. left' \in Bounds
      BY <2>1, SpendType
    <3>2. get' \in [Getter -> GetCall \cup {None}]
      BY <2>1
    <3> QED BY <2>1, <2>2, <2>3, <3>1, <3>2 DEF TypeOK
  <2>5. OpShape'
    BY <2>1 DEF OpShape
  <2>6. work # None /\ work.req.type = "apply" => Places(work.req.spec) \subseteq astray'
    <3> SUFFICES ASSUME work # None, work.req.type = "apply"
                 PROVE  Places(work.req.spec) \subseteq astray'
      OBVIOUS
    <3>1. Asked(work.req) /\ work.req.from \in Getter \cup {"op", "nobody"}
      BY DEF RequestsInv, TypeOK, Work, Request
    <3>2. CASE work.req.from = "op"
      BY <2>1, <3>1, <3>2 DEF Asked, Lost
    <3>3. CASE work.req.from = "nobody"
      BY <2>2, <3>1, <3>3 DEF Asked
    <3> QED BY <3>1, <3>2, <3>3 DEF Asked
  <2>7. RequestsInv'
    BY <2>1, <2>3, <2>6 DEF RequestsInv
  <2>8. OrderInv'
    BY <2>1, <2>3 DEF OrderInv, OnlyGets
  <2> QED BY <2>4, <2>5, <2>7, <2>8
<1>2. CASE GhostEnds
  <2>1. ghost' = None /\ UNCHANGED <<things, state, op, get, queue, work, left, last, astray, haunted>>
    BY <1>2 DEF GhostEnds
  <2> QED BY <2>1 DEF TypeOK, OpShape, RequestsInv, Asked, OrderInv, OnlyGets
<1> QED BY <1>1, <1>2

LEMMA BaseStep == KubeBase /\ [Next]_vars => KubeBase'
<1> SUFFICES ASSUME KubeBase, [Next]_vars PROVE KubeBase'
  OBVIOUS
<1>1. CASE UNCHANGED vars
  BY <1>1 DEF vars, KubeBase, TypeOK, OpShape, RequestsInv, Asked, OrderInv, OnlyGets
<1>2. CASE Next
  BY <1>2, OpBase, SendBase, GetBase, CancelBase, TakeBase, StepBase, ReplyBase, LifeBase DEF Next
<1> QED BY <1>1, <1>2

\* Type correctness, with what the callers of the plugin and the requests under
\* way have to do with each other: at most one request is the operation's, and
\* nothing but Gets comes behind it.
THEOREM KubeTypes == KubeSpec => []KubeBase
BY InitBase, BaseStep, PTL DEF KubeSpec

--------------------------------------------------------------------------------
(* What is in the clusters is listed.                                      *)

Wanted(x) == op.type = "apply" /\ x \in Places(op.spec)

\* Where a place that is not astray is known from: the stored blob, or the
\* apply in progress once it has been sent; the blob that the operation carries;
\* the work that the plugin does for it; and in the end the spec of the apply.
Known(x) ==
  /\ x \in Recorded(state) \/ (op # None /\ op.at \in {"sent", "answered"} /\ Wanted(x))
  /\ op # None /\ op.at \in {"loaded", "sent"} => x \in Recorded(op.prior) \/ Wanted(x)
  /\ work # None /\ work.req.from = "op" => x \in work.remove \/ Wanted(x)
  /\ op # None /\ op.at = "answered" => Wanted(x)

KnownInv == \A x \in Present \ astray : Known(x)

LEMMA KnownTracked == KnownInv => Tracked
BY DEF KnownInv, Known, Tracked, Wanted

LEMMA InitKnown == Init => KnownInv
BY DEF Init, KnownInv, Present

LEMMA OpKnown ==
  ASSUME KubeBase, KnownInv,
         \/ \E s \in Specs[left.kind] : OpStarts("apply", s)
         \/ OpStarts("delete", None) \/ OpLoads \/ OpSends \/ OpSaves
  PROVE  KnownInv'
<1> SUFFICES ASSUME NEW x \in Present', x \notin astray' PROVE Known(x)'
  BY DEF KnownInv
<1>1. UNCHANGED <<things, astray, work>>
  BY DEF OpStarts, OpLoads, OpSends, OpSaves
<1>2. x \in Present /\ x \notin astray /\ Known(x)
  BY <1>1 DEF KnownInv, Present
<1>3. op # None => op \in Oper
  BY DEF KubeBase, TypeOK
<1>4. work # None /\ work.req.from = "op" => op # None /\ op.at = "sent"
  BY DEF KubeBase, RequestsInv, Asked
<1>5. ASSUME NEW t, NEW s, OpStarts(t, s) PROVE Known(x)'
  <2>1. op = None /\ op'.at = "starts" /\ state' = state
    BY <1>5 DEF OpStarts
  <2> QED BY <1>1, <1>2, <1>4, <2>1 DEF Known
<1>6. CASE OpLoads
  <2>1. op # None /\ op.at = "starts" /\ state' = state /\ op' = [op EXCEPT !.at = "loaded", !.prior = state]
    BY <1>6 DEF OpLoads
  <2>2. op'.at = "loaded" /\ op'.prior = state
    BY <1>3, <2>1 DEF Oper
  <2> QED BY <1>1, <1>2, <1>4, <2>1, <2>2 DEF Known
<1>7. CASE OpSends
  <2>1. op # None /\ op.at = "loaded" /\ state' = state /\ op' = [op EXCEPT !.at = "sent"]
    BY <1>7 DEF OpSends
  <2>2. op'.at = "sent" /\ op'.prior = op.prior /\ op'.type = op.type /\ op'.spec = op.spec
    BY <1>3, <2>1 DEF Oper
  <2> QED BY <1>1, <1>2, <1>3, <1>4, <2>1, <2>2, NoneIsNothing DEF Known, Wanted
<1>8. CASE OpSaves
  <2>1. op # None /\ op.at = "answered" /\ op' = None /\ state' = SavedState(op)
    BY <1>8 DEF OpSaves
  <2>2. Wanted(x)
    BY <1>2, <2>1 DEF Known
  <2>3. state' = op.spec /\ op.spec \in Spec
    BY <2>1, <2>2 DEF SavedState, Wanted, KubeBase, OpShape
  <2>4. x \in Recorded(state')
    BY <2>2, <2>3, NoneIsNothing DEF Wanted, Recorded
  <2> QED BY <1>1, <1>4, <2>1, <2>4 DEF Known
<1> QED BY <1>5, <1>6, <1>7, <1>8

\* What a Get drops from the stored blob is astray; the blob of the operation
\* is not affected.
LEMMA GetKnown ==
  ASSUME KubeBase, KnownInv, NEW g \in Getter,
         GetLoads(g) \/ GetSends(g) \/ GetSaves(g) \/ GetCanceled(g)
  PROVE  KnownInv'
<1> SUFFICES ASSUME NEW x \in Present', x \notin astray' PROVE Known(x)'
  BY DEF KnownInv
<1>1. CASE GetLoads(g) \/ GetSends(g)
  <2>1. UNCHANGED <<things, state, op, work, astray>>
    BY <1>1 DEF GetLoads, GetSends
  <2> QED BY <2>1 DEF KnownInv, Known, Wanted, Present
<1>2. CASE GetSaves(g)
  <2>1. UNCHANGED <<things, op, work>> /\ state' = get[g].blob
    BY <1>2 DEF GetSaves
  <2>2. x \in Present /\ x \notin astray /\ (state' = state \/ x \in Recorded(state'))
    BY <1>2, <2>1 DEF GetSaves, Present
  <2> QED BY <2>1, <2>2 DEF KnownInv, Known, Wanted
<1>3. CASE GetCanceled(g)
  <2>1. UNCHANGED <<things, state, op, astray>> /\ Abandon(g)
    BY <1>3 DEF GetCanceled
  <2>2. x \in Present /\ x \notin astray /\ Known(x)
    BY <2>1 DEF KnownInv, Present
  <2>3. work' # None => /\ work # None /\ work'.req = Forsaken(work.req, g)
                        /\ work'.remove = work.remove /\ work.req \in Request
    BY <2>1, AbandonType DEF KubeBase, TypeOK, Work
  <2>4. work' # None /\ work'.req.from = "op" => work.req.from = "op"
    BY <2>3, ForsakenType
  <2> QED BY <2>1, <2>2, <2>3, <2>4 DEF Known, Wanted
<1> QED BY <1>1, <1>2, <1>3

\* An operation comes to nothing: what it may have placed is astray.
LEMMA LostKnown ==
  ASSUME KubeBase, KnownInv, op' = None, astray' = astray \cup Lost(op),
         UNCHANGED <<things, state>>, work' # None => work'.req.from # "op"
  PROVE  KnownInv'
<1> SUFFICES ASSUME NEW x \in Present', x \notin astray' PROVE Known(x)'
  BY DEF KnownInv
<1>1. x \in Present /\ x \notin astray /\ x \notin Lost(op) /\ Known(x)
  BY DEF KnownInv, Present
<1>2. x \in Recorded(state)
  BY <1>1 DEF Known, Wanted, Lost
<1> QED BY <1>2 DEF Known

LEMMA EndKnown ==
  ASSUME KubeBase, KnownInv, OpCanceled \/ Restarts \/ PluginFails
  PROVE  KnownInv'
<1>1. CASE OpCanceled
  <2>1. /\ op' = None /\ astray' = astray \cup Lost(op) /\ UNCHANGED <<things, state>> /\ Abandon("op")
    BY <1>1 DEF OpCanceled
  <2>2. work' # None => work'.req = Forsaken(work.req, "op") /\ work.req \in Request
    BY <2>1, AbandonType DEF KubeBase, TypeOK, Work
  <2>3. work' # None => work'.req.from # "op"
    BY <2>2, ForsakenType
  <2> QED BY <2>1, <2>3, LostKnown
<1>2. CASE Restarts
  BY <1>2, LostKnown DEF Restarts
<1>3. CASE PluginFails
  <2>1. work' = None /\ UNCHANGED <<things, state>>
    BY <1>3 DEF PluginFails
  <2>2. CASE work.req.from = "op"
    BY <1>3, <2>1, <2>2, LostKnown DEF PluginFails
  <2>3. CASE work.req.from # "op"
    <3>1. UNCHANGED <<op, astray>>
      BY <1>3, <2>3 DEF PluginFails
    <3> QED BY <2>1, <3>1 DEF KnownInv, Known, Wanted, Present
  <2> QED BY <2>2, <2>3
<1> QED BY <1>1, <1>2, <1>3

\* The plugin takes the request of the operation: what is known from its blob
\* is wanted, pruned, or moved.
LEMMA TakeKnown ==
  ASSUME KubeBase, KnownInv, PluginTakes
  PROVE  KnownInv'
<1> SUFFICES ASSUME NEW x \in Present', x \notin astray' PROVE Known(x)'
  BY DEF KnownInv
<1> DEFINE r == Head(queue)
<1>1. /\ queue # <<>> /\ work' = Work0(r) /\ astray' = astray \cup Moved(r)
      /\ UNCHANGED <<things, state, op>>
  BY DEF PluginTakes
<1>2. x \in Present /\ x \notin astray /\ x \notin Moved(r) /\ Known(x)
  BY <1>1 DEF KnownInv, Present
<1>3. r \in Request /\ Asked(r)
  BY <1>1, QueueTypes DEF KubeBase, TypeOK, RequestsInv
<1>4. /\ work'.req = r
      /\ r.type = "apply" => work'.remove = Pruned(r.spec, r.state)
      /\ r.type = "delete" => work'.remove = Recorded(r.state)
  BY <1>1, <1>3, WorkType
<1>5. ASSUME r.from = "op" PROVE x \in work'.remove \/ Wanted(x)
  <2>1. op # None /\ op.at = "sent" /\ r.type = op.type /\ r.spec = op.spec /\ r.state = op.prior
    BY <1>3, <1>5 DEF Asked
  <2>2. r.type \in {"apply", "delete"}
    BY <2>1 DEF KubeBase, TypeOK, Oper
  <2>3. x \in Recorded(op.prior) \/ Wanted(x)
    BY <1>2, <2>1 DEF Known
  <2> QED BY <1>2, <1>4, <2>1, <2>2, <2>3 DEF Moved, Wanted
<1> QED BY <1>1, <1>2, <1>4, <1>5 DEF Known, Wanted

\* What a request of nobody or of a killed controller places is astray.
LEMMA StepKnown ==
  ASSUME KubeBase, KnownInv, NEW y \in Place, PluginSteps(y) \/ GhostSteps(y)
  PROVE  KnownInv'
<1> SUFFICES ASSUME NEW x \in Present', x \notin astray' PROVE Known(x)'
  BY DEF KnownInv
<1>0. x \in Place /\ things'[x] # None
  BY DEF Present
<1>1. CASE PluginSteps(y)
  <2>1. /\ work \in Work /\ work # None /\ Does(work, y) /\ work' = Done(work, y)
        /\ Worked(work) /\ Asked(work.req)
        /\ UNCHANGED <<state, op, astray>>
    BY <1>1 DEF PluginSteps, KubeBase, TypeOK, RequestsInv
  <2>2. /\ work' # None /\ work'.req = work.req
        /\ work.remove \ {y} \subseteq work'.remove
        /\ x # y => things'[x] = things[x]
        /\ \/ work.req.type = "apply" /\ y \in Places(work.req.spec)
           \/ things'[y] = None
    BY <1>0, <2>1, DoesOne DEF KubeBase
  <2>3. CASE x # y
    <3>1. Known(x)
      BY <1>0, <2>1, <2>2, <2>3 DEF KnownInv, Present
    <3> QED BY <2>1, <2>2, <2>3, <3>1 DEF Known, Wanted
  <2>4. CASE x = y
    <3>1. work.req.type = "apply" /\ x \in Places(work.req.spec)
      BY <1>0, <2>2, <2>4
    <3>2. work.req.from # "nobody" /\ work.req.from \in Getter \cup {"op", "nobody"}
      BY <2>1, <3>1 DEF Asked, Work, Request
    <3>3. work.req.from = "op"
      BY <2>1, <3>1, <3>2 DEF Asked
    <3>4. op # None /\ op.at = "sent" /\ Wanted(x)
      BY <2>1, <3>1, <3>3 DEF Asked, Wanted
    <3> QED BY <2>1, <3>4 DEF Known, Wanted
  <2> QED BY <2>3, <2>4
<1>2. CASE GhostSteps(y)
  <2>1. /\ ghost \in Work /\ ghost # None /\ Does(ghost, y) /\ Worked(ghost)
        /\ ghost.req.type = "apply" => Places(ghost.req.spec) \subseteq astray
        /\ UNCHANGED <<state, op, work, astray>>
    BY <1>2 DEF GhostSteps, KubeBase, TypeOK, RequestsInv
  <2>2. /\ x # y => things'[x] = things[x]
        /\ \/ ghost.req.type = "apply" /\ y \in Places(ghost.req.spec)
           \/ things'[y] = None
    BY <1>0, <2>1, DoesOne DEF KubeBase
  <2>3. x # y
    BY <1>0, <2>1, <2>2
  <2>4. Known(x)
    BY <1>0, <2>1, <2>2, <2>3 DEF KnownInv, Present
  <2> QED BY <2>1, <2>4 DEF Known, Wanted
<1> QED BY <1>1, <1>2

LEMMA ReplyKnown ==
  ASSUME KubeBase, KnownInv, PluginReplies
  PROVE  KnownInv'
<1> SUFFICES ASSUME NEW x \in Present', x \notin astray' PROVE Known(x)'
  BY DEF KnownInv
<1>1. /\ work # None /\ work.remove = {} /\ work' = None
      /\ op' = (IF work.req.from = "op" THEN [op EXCEPT !.at = "answered", !.blob = work.req.spec] ELSE op)
      /\ UNCHANGED <<things, state, astray>>
  BY DEF PluginReplies
<1>2. x \in Present /\ x \notin astray /\ Known(x)
  BY <1>1 DEF KnownInv, Present
<1>3. CASE work.req.from # "op"
  BY <1>1, <1>2, <1>3 DEF Known, Wanted
<1>4. CASE work.req.from = "op"
  <2>1. Wanted(x)
    BY <1>1, <1>2, <1>4 DEF Known
  <2>2. op # None /\ op \in Oper
    BY <1>1, <1>4 DEF KubeBase, RequestsInv, Asked, TypeOK
  <2>3. op'.at = "answered" /\ op'.type = op.type /\ op'.spec = op.spec /\ op' # None
    <3>1. op' \in Oper /\ op'.at = "answered" /\ op'.type = op.type /\ op'.spec = op.spec
      BY <1>1, <1>4, <2>2 DEF Oper, KubeBase, TypeOK, Work, Request, Blob
    <3> QED BY <3>1, NoneIsNothing
  <2> QED BY <1>1, <2>1, <2>3 DEF Known, Wanted
<1> QED BY <1>3, <1>4

LEMMA KnownStep == KubeBase /\ KnownInv /\ [Next]_vars => KnownInv'
<1> SUFFICES ASSUME KubeBase, KnownInv, [Next]_vars PROVE KnownInv'
  OBVIOUS
<1>1. CASE UNCHANGED vars
  BY <1>1 DEF vars, KnownInv, Known, Wanted, Present
<1>2. CASE GhostEnds
  <2>1. UNCHANGED <<things, state, op, work, astray>>
    BY <1>2 DEF GhostEnds
  <2> QED BY <2>1 DEF KnownInv, Known, Wanted, Present
<1>3. CASE Next /\ ~GhostEnds
  BY <1>3, OpKnown, GetKnown, EndKnown, TakeKnown, StepKnown, ReplyKnown DEF Next
<1> QED BY <1>1, <1>2, <1>3

\* Whatever the resource has put into a cluster is in the stored blob, or will
\* be by the operation in progress, but for what astray names: for any number
\* of operations, of Gets that save the blob they have loaded, of requests that
\* were given up and of killed controllers (providers/external, plugins/k8s).
THEOREM EverythingTracked == KubeSpec => []Tracked
<1>1. KubeSpec => []KnownInv
  BY KubeTypes, InitKnown, KnownStep, PTL DEF KubeSpec
<1> QED BY <1>1, KnownTracked, PTL

--------------------------------------------------------------------------------
(* What has succeeded stays.                                               *)

Shows(s, S) == \A x \in S : things[x] = s

\* What an apply is to leave in place.
Stay(o) == Places(o.spec) \ Renamed(o.spec, o.prior)

\* The plugin works on an apply of the operation, and has placed all but what it
\* has still to place; nothing that it removes is to stay.
Applying == work # None /\ work.req.from = "op" /\ op.type = "apply"

LastInv ==
  /\ Applying => work.remove \cap Stay(op) = {}
  /\ Applying /\ ~haunted => Shows(op.spec, Stay(op) \ work.place)
  /\ op # None /\ op.at = "answered" /\ op.type = "apply" /\ ~haunted => Shows(op.spec, Stay(op))
  /\ last # None /\ last.type = "apply" /\ ~haunted => Shows(last.spec, Stay(last))
  /\ last # None /\ last.type # "apply" => Present \subseteq astray

LEMMA LastHolds == LastInv => LastSucceeded
BY DEF LastInv, LastSucceeded, Shows, Stay

LEMMA InitLast == Init => LastInv
BY DEF Init, LastInv, Applying

\* The kind of the resource stays, and so does what an operation is to leave.
LEMMA KindStays ==
  ASSUME TypeOK, [Next]_vars
  PROVE  left'.kind = left.kind
<1>1. ASSUME NEW b \in {"ops", "gets", "cancels", "failures", "stops"}, Spend(b)
      PROVE  left'.kind = left.kind
  BY <1>1 DEF Spend, TypeOK, Bounds
<1>2. CASE left' = left
  BY <1>2
<1>3. CASE left' # left
  BY <1>1, <1>3 DEF Next, vars, OpStarts, OpLoads, OpSends, OpSaves, OpCanceled, GetLoads, GetSends,
     GetSaves, GetCanceled, PluginTakes, PluginReplies, PluginFails, PluginSteps, GhostSteps, Restarts,
     GhostEnds
<1> QED BY <1>2, <1>3

LEMMA StayIs ==
  ASSUME left'.kind = left.kind
  PROVE  /\ \A o : (Places(o.spec) \ Renamed(o.spec, o.prior)') = Stay(o)
         /\ op' = op => Stay(op)' = Stay(op)
         /\ last' = last => Stay(last)' = Stay(last)
         /\ last' = op => Stay(last)' = Stay(op)
         /\ op'.spec = op.spec /\ op'.prior = op.prior => Stay(op)' = Stay(op)
BY DEF Stay, Renamed, Places

LEMMA OpLast ==
  ASSUME left'.kind = left.kind, KubeBase, KnownInv, LastInv,
         \/ \E s \in Specs[left.kind] : OpStarts("apply", s)
         \/ OpStarts("delete", None) \/ OpLoads \/ OpSends \/ OpSaves
  PROVE  LastInv'
<1>1. UNCHANGED <<things, astray, work, haunted>>
  BY DEF OpStarts, OpLoads, OpSends, OpSaves
<1>2. op # None => op \in Oper
  BY DEF KubeBase, TypeOK
<1>3. work # None /\ work.req.from = "op" => op # None /\ op.at = "sent"
  BY DEF KubeBase, RequestsInv, Asked
<1>4. ASSUME NEW t, NEW s, OpStarts(t, s) PROVE LastInv'
  <2>1. op = None /\ op'.at = "starts" /\ last' = None
    BY <1>4 DEF OpStarts
  <2> QED BY <1>1, <1>3, <2>1 DEF LastInv, Applying
<1>5. CASE OpLoads \/ OpSends
  <2>1. op # None /\ op.at \in {"starts", "loaded"} /\ last' = last
    BY <1>5 DEF OpLoads, OpSends
  <2>2. op'.at # "answered" /\ last = None
    BY <1>2, <1>5, <2>1 DEF OpLoads, OpSends, Oper, KubeBase, OrderInv
  <2> QED BY <1>1, <1>3, <2>1, <2>2 DEF LastInv, Applying
<1>6. CASE OpSaves
  <2>1. op # None /\ op.at = "answered" /\ op' = None /\ last' = op
    BY <1>6 DEF OpSaves
  <2>2. op.type # "apply" => Present \subseteq astray
    BY <2>1 DEF KnownInv, Known, Wanted
  <2>3. Present' = Present /\ Stay(last)' = Stay(op)
    BY <1>1, <2>1, StayIs DEF Present
  <2> QED BY <1>1, <1>3, <2>1, <2>2, <2>3 DEF LastInv, Applying, Shows
<1> QED BY <1>4, <1>5, <1>6

\* A step that leaves the clusters alone, and after which the plugin and the
\* operation are no further than before.
LEMMA SameLast ==
  ASSUME left'.kind = left.kind, LastInv, UNCHANGED <<things, last, haunted>>, astray \subseteq astray',
         op' = op \/ op' = None,
         work' # None /\ work'.req.from = "op" =>
           /\ work # None /\ work.req.from = "op" /\ op' = op
           /\ work'.place = work.place /\ work'.remove = work.remove
  PROVE  LastInv'
<1>1. Present' = Present
  BY DEF Present
<1>2. Applying' => Applying /\ op' = op /\ work'.place = work.place /\ work'.remove = work.remove
  BY DEF Applying
<1>3. (op' = op => Stay(op)' = Stay(op)) /\ Stay(last)' = Stay(last)
  BY StayIs
<1> QED BY <1>1, <1>2, <1>3 DEF LastInv, Shows

LEMMA GetLast ==
  ASSUME left'.kind = left.kind, KubeBase, LastInv,
         \/ OpCanceled \/ PluginFails \/ Restarts \/ GhostEnds
         \/ \E g \in Getter : GetLoads(g) \/ GetSends(g) \/ GetSaves(g) \/ GetCanceled(g)
  PROVE  LastInv'
<1>1. CASE OpCanceled
  <2>1. op' = None /\ astray \subseteq astray' /\ UNCHANGED <<things, last, haunted>> /\ Abandon("op")
    BY <1>1 DEF OpCanceled
  <2>2. work' # None => work'.req = Forsaken(work.req, "op") /\ work.req \in Request
    BY <2>1, AbandonType DEF KubeBase, TypeOK, Work
  <2>3. work' # None => work'.req.from # "op"
    BY <2>2, ForsakenType
  <2> QED BY <2>1, <2>3, SameLast
<1>2. CASE PluginFails
  <2>1. work' = None /\ UNCHANGED <<things, last, haunted>> /\ astray \subseteq astray' /\ (op' = op \/ op' = None)
    BY <1>2 DEF PluginFails
  <2> QED BY <2>1, SameLast
<1>3. CASE Restarts
  <2>1. work' = None /\ UNCHANGED <<things, last, haunted>> /\ astray \subseteq astray' /\ op' = None
    BY <1>3 DEF Restarts
  <2> QED BY <2>1, SameLast
<1>4. ASSUME NEW g \in Getter, GetLoads(g) \/ GetSends(g) \/ GetSaves(g)
      PROVE  LastInv'
  <2>1. UNCHANGED <<things, op, work, last, haunted>> /\ astray \subseteq astray'
    BY <1>4 DEF GetLoads, GetSends, GetSaves
  <2> QED BY <2>1, SameLast
<1>5. ASSUME NEW g \in Getter, GetCanceled(g) PROVE LastInv'
  <2>1. UNCHANGED <<things, op, last, astray, haunted>> /\ Abandon(g)
    BY <1>5 DEF GetCanceled
  <2>2. work' # None => /\ work # None /\ work'.req = Forsaken(work.req, g)
                        /\ work'.place = work.place /\ work'.remove = work.remove /\ work.req \in Request
    BY <2>1, AbandonType DEF KubeBase, TypeOK, Work
  <2>3. work' # None /\ work'.req.from = "op" => work.req.from = "op"
    BY <2>2, ForsakenType
  <2> QED BY <2>1, <2>2, <2>3, SameLast
<1>6. CASE GhostEnds
  <2>1. UNCHANGED <<things, op, work, last, haunted, astray>>
    BY <1>6 DEF GhostEnds
  <2> QED BY <2>1, SameLast
<1> QED BY <1>1, <1>2, <1>3, <1>4, <1>5, <1>6

LEMMA TakeLast ==
  ASSUME left'.kind = left.kind, KubeBase, LastInv, PluginTakes
  PROVE  LastInv'
<1> DEFINE r == Head(queue)
<1>1. /\ queue # <<>> /\ work' = Work0(r) /\ haunted' = (haunted /\ r.from # "op")
      /\ astray \subseteq astray' /\ UNCHANGED <<things, op, last>>
  BY DEF PluginTakes
<1>2. r \in Request /\ Asked(r)
  BY <1>1, QueueTypes DEF KubeBase, TypeOK, RequestsInv
<1>3. /\ work'.req = r
      /\ r.type = "apply" => work'.place = Places(r.spec) /\ work'.remove = Pruned(r.spec, r.state)
  BY <1>1, <1>2, WorkType
<1>4. Present' = Present
  BY <1>1 DEF Present
<1>7. Stay(op)' = Stay(op) /\ Stay(last)' = Stay(last)
  BY <1>1, StayIs
<1>5. CASE r.from # "op"
  <2>1. ~Applying' /\ (~haunted' => ~haunted)
    BY <1>1, <1>3, <1>5 DEF Applying
  <2> QED BY <1>1, <1>4, <1>7, <2>1 DEF LastInv, Shows
<1>6. CASE r.from = "op"
  <2>1. op # None /\ op.at = "sent" /\ r.type = op.type /\ r.spec = op.spec /\ r.state = op.prior
    BY <1>2, <1>6 DEF Asked
  <2>2. last = None
    BY <2>1 DEF KubeBase, OrderInv
  <2>3. op.type = "apply" =>
          work'.place = Places(op.spec) /\ work'.remove \cap Stay(op) = {}
    <3> SUFFICES ASSUME op.type = "apply"
                 PROVE  work'.place = Places(op.spec) /\ work'.remove \cap Stay(op) = {}
      OBVIOUS
    <3>1. r.spec \in Spec /\ r.state \in Spec \cup {None}
      BY <1>2, <2>1 DEF Asked, Request, Blob
    <3>2. Pruned(r.spec, r.state) \cap Places(r.spec) \subseteq Renamed(r.spec, r.state)
      BY <3>1, PrunedType
    <3> QED BY <1>3, <2>1, <3>2 DEF Stay
  <2>4. Stay(op) \subseteq Places(op.spec)
    BY DEF Stay
  <2> QED BY <1>1, <1>7, <2>1, <2>2, <2>3, <2>4 DEF LastInv, Applying, Shows
<1> QED BY <1>5, <1>6

LEMMA StepLast ==
  ASSUME left'.kind = left.kind, KubeBase, LastInv, NEW y \in Place, PluginSteps(y)
  PROVE  LastInv'
<1>1. /\ work \in Work /\ work # None /\ Does(work, y) /\ work' = Done(work, y)
      /\ Worked(work) /\ Asked(work.req)
      /\ UNCHANGED <<op, last, astray, haunted>>
  BY DEF PluginSteps, KubeBase, TypeOK, RequestsInv
<1>2. /\ work'.req = work.req /\ work'.place = work.place \ {y} /\ work'.remove \subseteq work.remove
      /\ \A x \in Place : x # y => things'[x] = things[x]
      /\ work.req.type # "get"
      /\ \/ y \in work.place /\ work.place # {} /\ things'[y] = work.req.spec
         \/ work.place = {} /\ y \in work.remove
  BY <1>1, DoesOne DEF KubeBase
<1>3. last = None /\ ~(op # None /\ op.at = "answered")
  BY <1>1, <1>2 DEF KubeBase, OrderInv
<1>4. ASSUME Applying PROVE /\ work'.remove \cap Stay(op) = {}
                            /\ ~haunted => \A x \in Stay(op) \ work'.place : things'[x] = op.spec
  <2>1. op # None /\ work.req.spec = op.spec /\ work.req.type = "apply" /\ op.spec \in Spec
    BY <1>1, <1>4 DEF Applying, Asked
  <2>2. Stay(op) \subseteq Place
    BY <2>1, PlacesType DEF Stay
  <2>3. work'.remove \cap Stay(op) = {} /\ (y \in work.remove => y \notin Stay(op))
    BY <1>2, <1>4 DEF LastInv
  <2>4. ASSUME ~haunted, NEW x \in Stay(op) \ work'.place PROVE things'[x] = op.spec
    <3>1. CASE x = y
      BY <1>2, <2>1, <2>3, <3>1
    <3>2. CASE x # y
      <4>1. x \in Stay(op) \ work.place
        BY <1>2, <3>2
      <4>2. things[x] = op.spec
        BY <1>4, <2>4, <4>1 DEF LastInv, Shows
      <4> QED BY <1>2, <2>2, <3>2, <4>2
    <3> QED BY <3>1, <3>2
  <2> QED BY <1>1, <2>3, <2>4 DEF Shows
<1>5. Applying' => Applying
  BY <1>1, <1>2 DEF Applying
<1>6. Stay(op)' = Stay(op)
  BY <1>1, StayIs
<1> QED BY <1>1, <1>3, <1>4, <1>5, <1>6 DEF LastInv, Shows

LEMMA GhostLast ==
  ASSUME left'.kind = left.kind, KubeBase, LastInv, NEW y \in Place, GhostSteps(y)
  PROVE  LastInv'
<1>1. /\ ghost \in Work /\ ghost # None /\ Does(ghost, y) /\ Worked(ghost)
      /\ ghost.req.type = "apply" => Places(ghost.req.spec) \subseteq astray
      /\ UNCHANGED <<op, work, last, astray>> /\ haunted'
  BY DEF GhostSteps, KubeBase, TypeOK, RequestsInv
<1>2. /\ \A x \in Place : x # y => things'[x] = things[x]
      /\ \/ ghost.req.type = "apply" /\ y \in Places(ghost.req.spec)
         \/ things'[y] = None
  BY <1>1, DoesOne DEF KubeBase
<1>3. Present' \subseteq Present \cup astray
  BY <1>1, <1>2 DEF Present
<1>4. Stay(op)' = Stay(op)
  BY <1>1, StayIs
<1> QED BY <1>1, <1>3, <1>4 DEF LastInv, Applying

LEMMA ReplyLast ==
  ASSUME left'.kind = left.kind, KubeBase, LastInv, PluginReplies
  PROVE  LastInv'
<1>1. /\ work # None /\ work.place = {} /\ work' = None
      /\ op' = (IF work.req.from = "op" THEN [op EXCEPT !.at = "answered", !.blob = work.req.spec] ELSE op)
      /\ UNCHANGED <<things, last, astray, haunted>>
  BY DEF PluginReplies
<1>2. CASE work.req.from # "op"
  BY <1>1, <1>2, SameLast
<1>3. CASE work.req.from = "op"
  <2>1. op # None /\ op \in Oper /\ last = None
    BY <1>1, <1>3 DEF KubeBase, RequestsInv, Asked, TypeOK, OrderInv
  <2>2. op'.type = op.type /\ op'.spec = op.spec /\ op'.prior = op.prior
    BY <1>1, <1>3, <2>1 DEF Oper
  <2>3. op.type = "apply" /\ ~haunted => Shows(op.spec, Stay(op))
    BY <1>1, <1>3 DEF LastInv, Applying, Shows
  <2>4. Stay(op)' = Stay(op)
    BY <2>2, StayIs
  <2> QED BY <1>1, <2>1, <2>2, <2>3, <2>4 DEF LastInv, Applying, Shows
<1> QED BY <1>2, <1>3

LEMMA LastStep == KubeBase /\ KnownInv /\ LastInv /\ [Next]_vars => LastInv'
<1> SUFFICES ASSUME KubeBase, KnownInv, LastInv, [Next]_vars PROVE LastInv'
  OBVIOUS
<1>0. left'.kind = left.kind
  BY KindStays DEF KubeBase
<1>1. CASE UNCHANGED vars
  <2>1. UNCHANGED <<things, op, work, last, haunted, astray>>
    BY <1>1 DEF vars
  <2> QED BY <1>0, <2>1, SameLast
<1>2. CASE Next
  BY <1>0, <1>2, OpLast, GetLast, TakeLast, StepLast, GhostLast, ReplyLast DEF Next
<1> QED BY <1>1, <1>2

\* The clusters show the operation that succeeded last, although requests that
\* callers gave up before are still carried out, until the next operation or
\* until the plugin of a killed controller comes in between (requests are served
\* in order: one worker in plugins/k8s, one pipe), but for objects of which the
\* apply changed the apiVersion alone: it prunes those after placing them.
THEOREM LastStays == KubeSpec => []LastSucceeded
<1>1. KubeSpec => []KnownInv
  BY KubeTypes, InitKnown, KnownStep, PTL DEF KubeSpec
<1>2. KubeSpec => []LastInv
  BY KubeTypes, <1>1, InitLast, LastStep, PTL DEF KubeSpec
<1> QED BY <1>2, LastHolds, PTL

================================================================================
