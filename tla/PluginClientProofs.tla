-------------------------- MODULE PluginClientProofs --------------------------
(***************************************************************************)
(* Proofs about the plugin client, for any number of calls, any capacity   *)
(* of the pipes and any of the faults.                                     *)
(***************************************************************************)
EXTENDS PluginClient, FiniteSetTheorems, TLAPS

Registered == {c \in Call : id[c] # 0}

\* One ID has been handed out for every call that has registered.
IdsCounted == nextID = Cardinality(Registered)

\* A call has its ID from its registration on.
IdsShape ==
  \A c \in Call :
    /\ pc[c] = "idle" => id[c] = 0
    /\ pc[c] \in {"registered", "writing", "waiting"} => id[c] # 0

\* The reader that delivers has a reply, the plugin that works a request.
HandsShape ==
  /\ reader = "deliver" => got # None
  /\ plugin \in {"handles", "replies"} => req # None

ClientBase == TypeOK /\ IdsCounted /\ IdsShape /\ HandsShape

-------------------------------------------------------------------------------
(* Types.                                                                  *)

LEMMA CallsFinite == IsFiniteSet(Call) /\ Cardinality(Call) \in Nat
BY PluginConstants, FS_CardinalityType

\* There is an ID for every call that has none yet.
LEMMA FreshIsId ==
  ASSUME ClientBase, NEW c \in Call, id[c] = 0
  PROVE  FreshID \in Id
<1>1. Registered \in SUBSET Call /\ Registered # Call
  BY DEF Registered
<1>2. /\ IsFiniteSet(Registered)
      /\ Cardinality(Registered) <= Cardinality(Call)
      /\ Cardinality(Registered) # Cardinality(Call)
  BY <1>1, CallsFinite, FS_Subset
<1>3. Cardinality(Registered) \in Nat
  BY <1>2, FS_CardinalityType
<1> QED BY <1>2, <1>3, CallsFinite DEF FreshID, Id, ClientBase, IdsCounted

LEMMA InitBase == Init => ClientBase
<1> SUFFICES ASSUME Init PROVE ClientBase
  OBVIOUS
<1>1. Cardinality({}) = 0
  BY FS_EmptySet
<1>2. IdsCounted
  <2>1. Registered = {}
    BY DEF Init, Registered
  <2> QED BY <2>1, <1>1 DEF Init, IdsCounted
<1>3. TypeOK
  <2>1. stdin \in Seq(Message) /\ Len(stdin) <= InCap
    BY PluginConstants DEF Init
  <2>2. stdout \in Seq(Message \cup {Garbage}) /\ Len(stdout) <= OutCap
    BY PluginConstants DEF Init
  <2> QED BY <2>1, <2>2 DEF Init, TypeOK
<1> QED BY <1>2, <1>3 DEF Init, ClientBase, IdsShape, HandsShape

\* A step that gives no ID keeps the count of them.
LEMMA SameIds ==
  ASSUME IdsCounted, UNCHANGED <<id, nextID>>
  PROVE  IdsCounted'
BY DEF IdsCounted, Registered

\* Message sequences: what is taken from and put to the pipes.
LEMMA PipeTypes ==
  ASSUME NEW M, NEW s \in Seq(M)
  PROVE  /\ s # <<>> => /\ Head(s) \in M /\ Tail(s) \in Seq(M)
                        /\ Len(Tail(s)) = Len(s) - 1
                        /\ \A i \in 1..Len(Tail(s)) : i + 1 \in 1..Len(s) /\ Tail(s)[i] = s[i + 1]
                        /\ Head(s) = s[1] /\ 1 \in 1..Len(s)
         /\ \A m \in M : /\ Append(s, m) \in Seq(M) /\ Len(Append(s, m)) = Len(s) + 1
                         /\ \A i \in 1..Len(s) : Append(s, m)[i] = s[i]
                         /\ Append(s, m)[Len(s) + 1] = m
         /\ Len(s) \in Nat
OBVIOUS

LEMMA RegisterBase ==
  ASSUME ClientBase, NEW c \in Call, Register(c)
  PROVE  ClientBase'
<1> USE DEF loaderVars, callVars, clientVars, pluginVars, pipeVars
<1>1. CASE closed
  <2>1. /\ UNCHANGED <<id, nextID, pending, closed, ch, writer, reader, got, expired, main, rootDone,
                       plugin, req, hung, faults, stdin, stdinOpen, stdout>>
        /\ pc' = [pc EXCEPT ![c] = "returned"] /\ result' = [result EXCEPT ![c] = "error"]
    BY <1>1 DEF Register, Returns
  <2>2. TypeOK'
    BY <2>1 DEF ClientBase, TypeOK
  <2>3. IdsShape' /\ HandsShape'
    BY <2>1 DEF ClientBase, TypeOK, IdsShape, HandsShape
  <2> QED BY <2>1, <2>2, <2>3, SameIds DEF ClientBase
<1>2. CASE ~closed
  <2>1. id[c] = 0
    BY DEF Register, ClientBase, IdsShape
  <2>2. nextID' = FreshID /\ FreshID \in Id /\ FreshID # 0
    BY <1>2, <2>1, FreshIsId DEF Register, Id
  <2>3. /\ UNCHANGED <<result, closed, writer, reader, got, expired, main, rootDone,
                       plugin, req, hung, faults, stdin, stdinOpen, stdout>>
        /\ id' = [id EXCEPT ![c] = FreshID]
        /\ pending' = pending \cup {FreshID}
        /\ ch' = [ch EXCEPT ![FreshID] = None]
        /\ pc' = [pc EXCEPT ![c] = "registered"]
    BY <1>2, <2>2 DEF Register
  <2>4. TypeOK'
    BY <2>2, <2>3 DEF ClientBase, TypeOK
  <2>5. IdsCounted'
    <3>1. Registered' = Registered \cup {c}
      BY <2>2, <2>3 DEF Registered, ClientBase, TypeOK
    <3>2. c \notin Registered /\ Registered \in SUBSET Call
      BY <2>1 DEF Registered
    <3>3. IsFiniteSet(Registered)
      BY <3>2, CallsFinite, FS_Subset
    <3>4. Cardinality(Registered \cup {c}) = Cardinality(Registered) + 1
      BY <3>2, <3>3, FS_AddElement
    <3> QED BY <3>1, <3>4, <2>2 DEF IdsCounted, ClientBase, FreshID
  <2>6. IdsShape' /\ HandsShape'
    BY <2>2, <2>3 DEF ClientBase, TypeOK, IdsShape, HandsShape
  <2> QED BY <2>4, <2>5, <2>6 DEF ClientBase
<1> QED BY <1>1, <1>2

LEMMA CallStepBase ==
  ASSUME ClientBase, NEW c \in Call, CallStep(c) \/ CtxEnds(c)
  PROVE  ClientBase'
<1> USE DEF loaderVars, callVars, clientVars, pluginVars, pipeVars
<1>0. id' = id /\ nextID' = nextID /\ IdsCounted'
  BY SameIds DEF ClientBase, CallStep, LockWrite, Write, WriteFails, GiveUp, Receive, CtxEnds
<1>1. CASE LockWrite(c)
  BY <1>0, <1>1 DEF ClientBase, TypeOK, IdsShape, HandsShape, LockWrite
<1>2. CASE Write(c)
  <2>1. [id |-> id[c], of |-> c] \in Message
    BY <1>2 DEF Write, Message, ClientBase, IdsShape, TypeOK
  <2>2. stdin' \in Seq(Message) /\ Len(stdin') <= InCap
    BY <1>2, <2>1, PluginConstants, PipeTypes DEF Write, ClientBase, TypeOK
  <2> QED BY <1>0, <1>2, <2>2 DEF ClientBase, TypeOK, IdsShape, HandsShape, Write
<1>3. CASE WriteFails(c)
  BY <1>0, <1>3 DEF ClientBase, TypeOK, IdsShape, HandsShape, WriteFails, Returns
<1>4. CASE GiveUp(c)
  BY <1>0, <1>4 DEF ClientBase, TypeOK, IdsShape, HandsShape, GiveUp, Returns
<1>5. CASE Receive(c)
  <2>1. id[c] \in Id
    BY <1>5 DEF Receive, ClientBase, IdsShape, TypeOK
  <2>2. (IF ch[id[c]] = Broken THEN "error" ELSE ch[id[c]].of) \in Call \cup {None, "canceled", "error"}
    BY <1>5, <2>1 DEF Receive, ClientBase, TypeOK, Message
  <2>3. ch' \in [Id -> Message \cup {None, Broken}] /\ result' \in [Call -> Call \cup {None, "canceled", "error"}]
    BY <1>5, <2>1, <2>2 DEF Receive, Returns, ClientBase, TypeOK
  <2> QED BY <1>0, <1>5, <2>3 DEF ClientBase, TypeOK, IdsShape, HandsShape, Receive, Returns
<1>6. CASE CtxEnds(c)
  BY <1>0, <1>6 DEF ClientBase, TypeOK, IdsShape, HandsShape, CtxEnds
<1> QED BY <1>1, <1>2, <1>3, <1>4, <1>5, <1>6 DEF CallStep

LEMMA ReaderBase ==
  ASSUME ClientBase, Reader
  PROVE  ClientBase'
<1> USE DEF loaderVars, callVars, clientVars, pluginVars, pipeVars
<1>0. id' = id /\ nextID' = nextID /\ IdsCounted'
  BY SameIds DEF ClientBase, Reader, ReaderTakes, ReaderDelivers, FailAll
<1>1. CASE ReaderTakes
  <2>1. /\ Head(stdout) \in Message
        /\ stdout' \in Seq(Message \cup {Garbage}) /\ Len(stdout') <= OutCap
    BY <1>1, PipeTypes, PluginConstants DEF ReaderTakes, ClientBase, TypeOK
  <2>2. Head(stdout) # None
    BY <2>1, PluginConstants
  <2> QED BY <1>0, <1>1, <2>1, <2>2 DEF ClientBase, TypeOK, IdsShape, HandsShape, ReaderTakes, Taken
<1>2. CASE ReaderDelivers
  BY <1>0, <1>2 DEF ClientBase, TypeOK, IdsShape, HandsShape, ReaderDelivers, Message
<1>3. CASE FailAll
  <2>1. stdout' \in Seq(Message \cup {Garbage}) /\ Len(stdout') <= OutCap
    BY <1>3, PipeTypes, PluginConstants DEF FailAll, ClientBase, TypeOK
  <2> QED BY <1>0, <1>3, <2>1 DEF ClientBase, TypeOK, IdsShape, HandsShape, FailAll, Unblocked
<1> QED BY <1>1, <1>2, <1>3 DEF Reader

LEMMA PluginBase ==
  ASSUME ClientBase,
         Plugin \/ PluginDies \/ PluginHangs \/ PluginPrints \/ PluginKilled
  PROVE  ClientBase'
<1> USE DEF loaderVars, callVars, clientVars, pluginVars, pipeVars
<1>0. id' = id /\ nextID' = nextID /\ IdsCounted'
  BY SameIds DEF ClientBase, Plugin, PluginReads, PluginEOF, PluginHandles, PluginReplies,
                 PluginDies, PluginHangs, PluginPrints, PluginKilled
<1>1. CASE PluginReads
  <2>1. /\ Head(stdin) \in Message
        /\ stdin' \in Seq(Message) /\ Len(stdin') <= InCap
    BY <1>1, PipeTypes, PluginConstants DEF PluginReads, ClientBase, TypeOK
  <2>2. Head(stdin) # None
    BY <2>1, PluginConstants
  <2> QED BY <1>0, <1>1, <2>1, <2>2 DEF ClientBase, TypeOK, IdsShape, HandsShape, PluginReads
<1>2. CASE PluginReplies
  <2>1. req \in Message \cup {Garbage}
    BY <1>2 DEF PluginReplies, Serving, ClientBase, TypeOK, HandsShape
  <2>2. stdout' \in Seq(Message \cup {Garbage}) /\ Len(stdout') <= OutCap
    BY <1>2, <2>1, PipeTypes, PluginConstants DEF PluginReplies, ClientBase, TypeOK
  <2> QED BY <1>0, <1>2, <2>2 DEF ClientBase, TypeOK, IdsShape, HandsShape, PluginReplies, Serving
<1>3. CASE PluginPrints
  <2>1. stdout' \in Seq(Message \cup {Garbage}) /\ Len(stdout') <= OutCap
    BY <1>3, PipeTypes, PluginConstants DEF PluginPrints, ClientBase, TypeOK
  <2> QED BY <1>0, <1>3, <2>1 DEF ClientBase, TypeOK, IdsShape, HandsShape, PluginPrints, Befalls
<1>4. CASE PluginEOF \/ PluginHandles
  BY <1>0, <1>4 DEF ClientBase, TypeOK, IdsShape, HandsShape, PluginEOF, PluginHandles, Serving
<1>5. CASE PluginDies
  BY <1>0, <1>5 DEF ClientBase, TypeOK, IdsShape, HandsShape, PluginDies, Befalls
<1>6. CASE PluginHangs
  BY <1>0, <1>6 DEF ClientBase, TypeOK, IdsShape, HandsShape, PluginHangs, Befalls
<1>7. CASE PluginKilled
  BY <1>0, <1>7 DEF ClientBase, TypeOK, IdsShape, HandsShape, PluginKilled
<1> QED BY <1>1, <1>2, <1>3, <1>4, <1>5, <1>6, <1>7 DEF Plugin

LEMMA MainBase ==
  ASSUME ClientBase, Main \/ RootCancel
  PROVE  ClientBase'
<1> USE DEF loaderVars, callVars, clientVars, pluginVars, pipeVars
<1>0. id' = id /\ nextID' = nextID /\ IdsCounted'
  BY SameIds DEF ClientBase, Main, Negotiated, Configured, LoadStep, RootCancel, Closing, CloseStdin, Reaped
<1>1. CASE Negotiated \/ Configured
  BY <1>0, <1>1 DEF ClientBase, TypeOK, IdsShape, HandsShape, Negotiated, Configured, LoadStep
<1>2. CASE RootCancel
  BY <1>0, <1>2 DEF ClientBase, TypeOK, IdsShape, HandsShape, RootCancel
<1>3. CASE Closing
  BY <1>0, <1>3 DEF ClientBase, TypeOK, IdsShape, HandsShape, Closing
<1>4. CASE CloseStdin
  <2>1. stdinOpen' \in BOOLEAN
    BY <1>4 DEF CloseStdin
  <2>2. UNCHANGED <<stdin, stdout, main, rootDone, pc, id, result, expired, nextID, pending, closed,
                    ch, writer, reader, got, plugin, req, hung, faults>>
    BY <1>4 DEF CloseStdin
  <2> QED BY <1>0, <2>1, <2>2 DEF ClientBase, TypeOK, IdsShape, HandsShape
<1>5. CASE Reaped
  BY <1>0, <1>5 DEF ClientBase, TypeOK, IdsShape, HandsShape, Reaped
<1> QED BY <1>1, <1>2, <1>3, <1>4, <1>5 DEF Main

LEMMA NextByKind ==
  Next => \/ \E c \in Call : Register(c) \/ CallStep(c) \/ CtxEnds(c)
          \/ Reader
          \/ Plugin \/ PluginDies \/ PluginHangs \/ PluginPrints \/ PluginKilled
          \/ Main \/ RootCancel
BY DEF Next, CallStep, Reader, Plugin, Main

LEMMA NextBase == ClientBase /\ [Next]_vars => ClientBase'
<1> SUFFICES ASSUME ClientBase, [Next]_vars PROVE ClientBase'
  OBVIOUS
<1>1. CASE Next
  BY <1>1, NextByKind, RegisterBase, CallStepBase, ReaderBase, PluginBase, MainBase
<1>2. CASE UNCHANGED vars
  BY <1>2 DEF vars, loaderVars, callVars, clientVars, pluginVars, pipeVars, ClientBase, TypeOK,
              IdsCounted, Registered, IdsShape, HandsShape
<1> QED BY <1>1, <1>2

\* The state of the client, of the pipes and of the plugin stays of its type;
\* that there is always a fresh ID in Id rests on the count of the IDs that
\* have been handed out (Client.call).
THEOREM ClientTypes == PluginSpec => []ClientBase
<1>1. Init => ClientBase
  BY InitBase
<1>2. ClientBase /\ [Next]_vars => ClientBase'
  BY NextBase
<1> QED BY <1>1, <1>2, PTL DEF PluginSpec
-------------------------------------------------------------------------------
(* Answers.                                                                *)

\* No two calls have the same ID, and none has one that is yet to be given.
IdsUnique ==
  /\ \A c, d \in Call : id[c] # 0 /\ id[c] = id[d] => c = d
  /\ \A c \in Call : id[c] <= nextID
  /\ \A i \in pending : i <= nextID

\* Wherever a message is, it carries the ID of the call that it is of.
Stamped(m) == id[m.of] = m.id

MessagesStamped ==
  /\ \A n \in 1..Len(stdin) : Stamped(stdin[n])
  /\ \A n \in 1..Len(stdout) : stdout[n] # Garbage => Stamped(stdout[n])
  /\ req # None => Stamped(req)
  /\ got # None => Stamped(got)
  /\ \A i \in Id : ch[i] \notin {None, Broken} => Stamped(ch[i]) /\ ch[i].id = i

AnswerInv == IdsUnique /\ MessagesStamped /\ OwnAnswer /\ RoomForReply

LEMMA InitAnswers == Init => AnswerInv
BY PluginConstants, CallsFinite
   DEF Init, AnswerInv, IdsUnique, MessagesStamped, OwnAnswer, RoomForReply, Id

\* A step that gives no ID and returns no call.
LEMMA SameCalls ==
  ASSUME ClientBase, AnswerInv, UNCHANGED <<id, nextID, result>>, pending' \subseteq pending
  PROVE  IdsUnique' /\ OwnAnswer' /\ \A m \in Message : Stamped(m) => Stamped(m)'
BY DEF AnswerInv, IdsUnique, OwnAnswer, Stamped

LEMMA RegisterAnswers ==
  ASSUME ClientBase, ClientBase', AnswerInv, NEW c \in Call, Register(c)
  PROVE  AnswerInv'
<1> USE DEF loaderVars, callVars, clientVars, pluginVars, pipeVars
<1>1. CASE closed
  <2>1. /\ UNCHANGED <<id, nextID, pending, closed, ch, writer, reader, got, plugin, req,
                       stdin, stdout>>
        /\ result' = [result EXCEPT ![c] = "error"]
    BY <1>1 DEF Register, Returns
  <2>2. OwnAnswer'
    BY <2>1, PluginConstants DEF AnswerInv, OwnAnswer, ClientBase, TypeOK
  <2> QED BY <2>1, <2>2 DEF AnswerInv, IdsUnique, MessagesStamped, Stamped, RoomForReply
<1>2. CASE ~closed
  <2>1. id[c] = 0 /\ nextID \in Nat /\ FreshID = nextID + 1
    BY CallsFinite DEF Register, ClientBase, IdsShape, FreshID, TypeOK, Id
  <2>2. /\ UNCHANGED <<result, writer, reader, got, plugin, req, stdin, stdout>>
        /\ nextID' = nextID + 1
        /\ id' = [id EXCEPT ![c] = nextID + 1]
        /\ pending' = pending \cup {nextID + 1}
        /\ ch' = [ch EXCEPT ![nextID + 1] = None]
    BY <1>2, <2>1 DEF Register
  <2>3. /\ id \in [Call -> Id \cup {0}] /\ Id \subseteq Nat \ {0}
        /\ pending \subseteq Id /\ nextID + 1 \in Id
    BY <2>2, CallsFinite DEF ClientBase, TypeOK, Id
  <2>4. IdsUnique'
    <3>0. \A d \in Call : id[d] \in Nat
      <4>1. \A i \in Id \cup {0} : i \in Nat
        BY CallsFinite DEF Id
      <4> QED BY <4>1, <2>3
    <3>1. \A d \in Call : id[d] <= nextID /\ id[d] \in Nat
      BY <3>0 DEF AnswerInv, IdsUnique
    <3>2. \A d \in Call : id'[d] = IF d = c THEN nextID + 1 ELSE id[d]
      BY <2>2, <2>3
    <3> QED BY <2>1, <2>2, <2>3, <3>1, <3>2 DEF AnswerInv, IdsUnique
  <2>5. \A m \in Message : Stamped(m) => m.of # c /\ Stamped(m)' /\ m.id <= nextID
    BY <2>1, <2>2, <2>3 DEF Stamped, Message, AnswerInv, IdsUnique
  <2>6. MessagesStamped'
    <3>1. \A n \in 1..Len(stdin) : stdin[n] \in Message
      BY DEF ClientBase, TypeOK
    <3>2. \A n \in 1..Len(stdout) : stdout[n] # Garbage => stdout[n] \in Message
      BY DEF ClientBase, TypeOK
    <3>3. \A i \in Id : ch'[i] \notin {None, Broken} => ch'[i] = ch[i] /\ ch[i] \in Message
      BY <2>2 DEF ClientBase, TypeOK
    <3> QED BY <2>2, <2>5, <3>1, <3>2, <3>3 DEF AnswerInv, MessagesStamped, ClientBase, TypeOK
  <2>7. RoomForReply'
    <3>1. reader = "deliver" => got \in Message /\ got.id \in Id /\ got.id # nextID + 1
      BY <2>1, <2>5, CallsFinite
         DEF ClientBase, TypeOK, HandsShape, AnswerInv, MessagesStamped, Message, Id
    <3>2. \A i \in Id : ch'[i] = IF i = nextID + 1 THEN None ELSE ch[i]
      BY <2>2 DEF ClientBase, TypeOK
    <3> QED BY <2>2, <2>3, <3>1, <3>2 DEF AnswerInv, RoomForReply
  <2>8. OwnAnswer'
    BY <2>2 DEF AnswerInv, OwnAnswer
  <2> QED BY <2>4, <2>6, <2>7, <2>8 DEF AnswerInv
<1> QED BY <1>1, <1>2

LEMMA CallStepAnswers ==
  ASSUME ClientBase, AnswerInv, NEW c \in Call, CallStep(c) \/ CtxEnds(c)
  PROVE  AnswerInv'
<1> USE DEF loaderVars, callVars, clientVars, pluginVars, pipeVars
<1>0. id' = id /\ nextID' = nextID /\ pending' \subseteq pending /\ \A m : Stamped(m)' <=> Stamped(m)
  BY DEF CallStep, LockWrite, Write, WriteFails, GiveUp, Receive, CtxEnds, Stamped
<1>00. IdsUnique'
  BY <1>0 DEF AnswerInv, IdsUnique
<1>1. CASE LockWrite(c) \/ CtxEnds(c)
  BY <1>0, <1>1, SameCalls DEF AnswerInv, MessagesStamped, OwnAnswer, RoomForReply, LockWrite, CtxEnds
<1>2. CASE Write(c)
  <2>1. Stamped([id |-> id[c], of |-> c]) /\ [id |-> id[c], of |-> c] \in Message
    BY <1>2 DEF Stamped, Write, Message, ClientBase, IdsShape, TypeOK
  <2>2. \A n \in 1..Len(stdin') : Stamped(stdin'[n])
    BY <1>2, <2>1, PipeTypes DEF Write, ClientBase, TypeOK, AnswerInv, MessagesStamped
  <2> QED BY <1>0, <1>00, <1>2, <2>2 DEF AnswerInv, MessagesStamped, OwnAnswer, RoomForReply, Write
<1>3. CASE WriteFails(c) \/ GiveUp(c)
  <2>1. OwnAnswer'
    BY <1>3, PluginConstants DEF WriteFails, GiveUp, Returns, AnswerInv, OwnAnswer, ClientBase, TypeOK
  <2> QED BY <1>0, <1>00, <1>3, <2>1 DEF AnswerInv, MessagesStamped, RoomForReply, WriteFails, GiveUp
<1>4. CASE Receive(c)
  <2>1. id[c] \in Id /\ ch[id[c]] \in Message \cup {Broken}
    BY <1>4 DEF Receive, ClientBase, IdsShape, TypeOK
  <2>2. ch[id[c]] # Broken => ch[id[c]].of = c
    <3> SUFFICES ASSUME ch[id[c]] # Broken PROVE ch[id[c]].of = c
      OBVIOUS
    <3>1. Stamped(ch[id[c]]) /\ ch[id[c]].id = id[c]
      BY <1>4, <2>1 DEF AnswerInv, MessagesStamped, Receive
    <3>2. ch[id[c]].of \in Call /\ id[c] # 0
      BY <2>1, CallsFinite DEF Message, Id
    <3> QED BY <3>1, <3>2 DEF Stamped, AnswerInv, IdsUnique
  <2>3. OwnAnswer'
    BY <1>4, <2>2, PluginConstants DEF Receive, Returns, AnswerInv, OwnAnswer, ClientBase, TypeOK
  <2>4. \A i \in Id : ch'[i] = IF i = id[c] THEN None ELSE ch[i]
    BY <1>4 DEF Receive, ClientBase, TypeOK
  <2>5. reader = "deliver" => got.id \in Id
    BY DEF ClientBase, TypeOK, HandsShape, Message
  <2>6. RoomForReply'
    BY <1>4, <2>4, <2>5 DEF Receive, AnswerInv, RoomForReply, ClientBase, TypeOK
  <2>7. MessagesStamped'
    BY <1>0, <1>4, <2>4 DEF Receive, AnswerInv, MessagesStamped
  <2> QED BY <1>00, <2>3, <2>6, <2>7 DEF AnswerInv
<1> QED BY <1>1, <1>2, <1>3, <1>4 DEF CallStep

LEMMA ReaderAnswers ==
  ASSUME ClientBase, AnswerInv, Reader
  PROVE  AnswerInv'
<1> USE DEF loaderVars, callVars, clientVars, pluginVars, pipeVars
<1>0. id' = id /\ nextID' = nextID /\ pending' \subseteq pending /\ \A m : Stamped(m)' <=> Stamped(m)
  BY DEF Reader, ReaderTakes, ReaderDelivers, FailAll, Taken, Stamped
<1>00. IdsUnique' /\ OwnAnswer'
  BY <1>0 DEF AnswerInv, IdsUnique, OwnAnswer, Reader, ReaderTakes, ReaderDelivers, FailAll
<1>1. CASE ReaderTakes
  <2>1. Head(stdout) \in Message /\ Head(stdout) = stdout[1] /\ Stamped(Head(stdout))
    BY <1>1, PipeTypes DEF ReaderTakes, ClientBase, TypeOK, AnswerInv, MessagesStamped
  <2>2. \A n \in 1..Len(stdout') : stdout'[n] # Garbage => Stamped(stdout'[n])
    BY <1>1, PipeTypes DEF ReaderTakes, ClientBase, TypeOK, AnswerInv, MessagesStamped
  <2>3. MessagesStamped'
    BY <1>0, <1>1, <2>1, <2>2 DEF ReaderTakes, AnswerInv, MessagesStamped
  <2>4. RoomForReply'
    BY <1>1, <2>1 DEF ReaderTakes, Taken, AnswerInv, RoomForReply
  <2> QED BY <1>00, <2>3, <2>4 DEF AnswerInv
<1>2. CASE ReaderDelivers
  <2>1. got \in Message /\ got.id \in Id /\ Stamped(got)
    BY <1>2 DEF ReaderDelivers, ClientBase, TypeOK, HandsShape, Message, AnswerInv, MessagesStamped
  <2>2. \A i \in Id : ch'[i] = IF i = got.id THEN got ELSE ch[i]
    BY <1>2 DEF ReaderDelivers, ClientBase, TypeOK
  <2>3. MessagesStamped'
    BY <1>0, <1>2, <2>1, <2>2 DEF ReaderDelivers, AnswerInv, MessagesStamped
  <2>4. RoomForReply'
    BY <1>2, <2>1, <2>2 DEF ReaderDelivers, AnswerInv, RoomForReply, ClientBase, TypeOK
  <2> QED BY <1>00, <2>3, <2>4 DEF AnswerInv
<1>3. CASE FailAll
  <2>1. \A n \in 1..Len(stdout') : stdout'[n] # Garbage => Stamped(stdout'[n])
    BY <1>3, PipeTypes DEF FailAll, ClientBase, TypeOK, AnswerInv, MessagesStamped
  <2>2. \A i \in Id : ch'[i] \notin {None, Broken} => ch'[i] = ch[i]
    BY <1>3 DEF FailAll, Unblocked
  <2>3. MessagesStamped'
    BY <1>0, <1>3, <2>1, <2>2 DEF FailAll, AnswerInv, MessagesStamped
  <2> QED BY <1>00, <1>3, <2>3 DEF FailAll, AnswerInv, RoomForReply
<1> QED BY <1>1, <1>2, <1>3 DEF Reader

LEMMA PluginAnswers ==
  ASSUME ClientBase, AnswerInv,
         Plugin \/ PluginDies \/ PluginHangs \/ PluginPrints \/ PluginKilled
  PROVE  AnswerInv'
<1> USE DEF loaderVars, callVars, clientVars, pluginVars, pipeVars
<1>0. /\ UNCHANGED <<id, nextID, pending, result, ch, reader, got>>
      /\ \A m : Stamped(m)' <=> Stamped(m)
  BY DEF Plugin, PluginReads, PluginEOF, PluginHandles, PluginReplies,
         PluginDies, PluginHangs, PluginPrints, PluginKilled, Stamped
<1>00. IdsUnique' /\ OwnAnswer' /\ RoomForReply'
  BY <1>0 DEF AnswerInv, IdsUnique, OwnAnswer, RoomForReply
<1> SUFFICES MessagesStamped'
  BY <1>00 DEF AnswerInv
<1>1. CASE PluginReads
  BY <1>0, <1>1, PipeTypes DEF PluginReads, ClientBase, TypeOK, AnswerInv, MessagesStamped
<1>2. CASE PluginReplies
  <2>1. req \in Message /\ Stamped(req)
    BY <1>2 DEF PluginReplies, Serving, ClientBase, TypeOK, HandsShape, AnswerInv, MessagesStamped
  <2>2. \A n \in 1..Len(stdout') : stdout'[n] # Garbage => Stamped(stdout'[n])
    BY <1>2, <2>1, PipeTypes DEF PluginReplies, ClientBase, TypeOK, AnswerInv, MessagesStamped
  <2> QED BY <1>0, <1>2, <2>2 DEF PluginReplies, AnswerInv, MessagesStamped
<1>3. CASE PluginPrints
  <2>1. \A n \in 1..Len(stdout') : stdout'[n] # Garbage => Stamped(stdout'[n])
    BY <1>3, PipeTypes DEF PluginPrints, ClientBase, TypeOK, AnswerInv, MessagesStamped
  <2> QED BY <1>0, <1>3, <2>1 DEF PluginPrints, AnswerInv, MessagesStamped
<1>4. CASE PluginEOF \/ PluginHandles \/ PluginDies \/ PluginHangs \/ PluginKilled
  BY <1>0, <1>4 DEF PluginEOF, PluginHandles, PluginDies, PluginHangs, PluginKilled,
                    AnswerInv, MessagesStamped
<1> QED BY <1>1, <1>2, <1>3, <1>4 DEF Plugin

\* Load and Close touch nothing that the answers depend on.
LEMMA SameAnswers ==
  ASSUME AnswerInv,
         UNCHANGED <<id, nextID, pending, result, ch, reader, got, stdin, stdout, req>>
  PROVE  AnswerInv'
BY DEF AnswerInv, IdsUnique, MessagesStamped, Stamped, OwnAnswer, RoomForReply

LEMMA NextAnswers == ClientBase /\ ClientBase' /\ AnswerInv /\ [Next]_vars => AnswerInv'
<1> SUFFICES ASSUME ClientBase, ClientBase', AnswerInv, [Next]_vars PROVE AnswerInv'
  OBVIOUS
<1>1. CASE Main \/ RootCancel \/ UNCHANGED vars
  BY <1>1, SameAnswers
     DEF Main, Negotiated, Configured, LoadStep, RootCancel, Closing, CloseStdin, Reaped,
         vars, loaderVars, callVars, clientVars, pluginVars, pipeVars
<1>2. CASE Next /\ ~(Main \/ RootCancel)
  BY <1>2, NextByKind, RegisterAnswers, CallStepAnswers, ReaderAnswers, PluginAnswers
<1> QED BY <1>1, <1>2

LEMMA AnswersHold == PluginSpec => []AnswerInv
<1>1. Init => AnswerInv
  BY InitAnswers
<1>2. ClientBase /\ ClientBase' /\ AnswerInv /\ [Next]_vars => AnswerInv'
  BY NextAnswers
<1> QED BY <1>1, <1>2, ClientTypes, PTL DEF PluginSpec

\* Every call returns its own answer or an error (Client.call, readLoop): IDs
\* are never reused, and a message keeps its ID on the whole way out and back.
THEOREM AnswersAreOwn == PluginSpec => []OwnAnswer
<1>1. AnswerInv => OwnAnswer
  BY DEF AnswerInv
<1> QED BY <1>1, AnswersHold, PTL

\* The reader always finds room in the channel that it sends to (readLoop,
\* failAll).
THEOREM ReaderNeverBlocks == PluginSpec => []RoomForReply
<1>1. AnswerInv => RoomForReply
  BY DEF AnswerInv
<1> QED BY <1>1, AnswersHold, PTL

================================================================================
