------------------------------ MODULE PluginClient ------------------------------
(***************************************************************************)
(* The controller's end of the plugin protocol (pkg/pluginproto/client.go) *)
(* with the plugin's message loop (server.go) at the other end of two      *)
(* pipes, from the load of the plugin (providers/external/loader.go) to    *)
(* the end of the controller (cmd/openctl-controller/main.go).             *)
(*                                                                         *)
(* Calls of many goroutines share one client.  A call registers a channel  *)
(* under a fresh ID, writes its request while it holds writeMu, and waits  *)
(* for its channel or its context.  One reader goroutine takes replies off *)
(* the other pipe and hands each to the channel of its ID; when the stream *)
(* ends it fails what is pending.  Sections under mu are single steps; a   *)
(* send to a channel that is full, or a write to a pipe that is full,      *)
(* blocks the goroutine, whatever it holds.                                *)
(***************************************************************************)
EXTENDS Naturals, Sequences, FiniteSets

CONSTANTS
  Operation,                        \* calls under an operation's context
  Probe,                            \* OwnerOf and ChildrenOf, with a timeout
  Handshake, Configure, Shutdown,   \* the calls of Load and Close
  InCap, OutCap,                    \* messages that stdin and stdout can hold
  Faults,                           \* what may befall the plugin, one at most
  None, Broken, Garbage

Caller == Operation \cup Probe
Call == Caller \cup {Handshake, Configure, Shutdown}
Id == 1..Cardinality(Call)

\* A request says which call it is of, a reply which call it answers.
Message == [id : Id, of : Call]

ASSUME PluginConstants ==
  /\ IsFiniteSet(Call) /\ Operation \cap Probe = {}
  /\ Handshake \notin Caller /\ Configure \notin Caller /\ Shutdown \notin Caller
  /\ Cardinality({Handshake, Configure, Shutdown}) = 3
  /\ {None, Broken, Garbage} \cap (Call \cup Message) = {} /\ None # Broken
  /\ {"canceled", "error"} \cap Call = {}
  /\ InCap \in Nat \ {0} /\ OutCap \in Nat \ {0}
  /\ Faults \subseteq {"dies", "hangs", "prints"}

VARIABLES
  main,     \* where the controller is in loading, serving and closing
  pc,       \* call -> where it is
  id,       \* call -> the ID of its request, 0 before it has one
  result,   \* call -> the call whose answer it has returned, or an error
  nextID, pending, closed,
  ch,       \* ID -> the content of its channel
  writer,   \* the call that holds writeMu
  stdin, stdinOpen, stdout,
  reader,   \* where the reader goroutine is
  got,      \* the reply that it is about to deliver
  plugin,   \* where the plugin's message loop is
  req,      \* the request that it works on
  hung,     \* the plugin does nothing any more
  expired,  \* calls whose own context has ended
  rootDone, \* the controller has been told to stop
  faults    \* what may still befall the plugin

loaderVars == <<main, rootDone>>
callVars == <<pc, id, result, expired>>
clientVars == <<nextID, pending, closed, ch, writer, reader, got>>
pluginVars == <<plugin, req, hung, faults>>
pipeVars == <<stdin, stdinOpen, stdout>>
vars == <<loaderVars, callVars, clientVars, pluginVars, pipeVars>>

TypeOK ==
  /\ main \in {"handshake", "configure", "refused", "serving", "closing", "skipped", "exited"}
  /\ pc \in [Call -> {"idle", "registered", "writing", "waiting", "returned"}]
  /\ id \in [Call -> Id \cup {0}]
  /\ result \in [Call -> Call \cup {None, "canceled", "error"}]
  /\ nextID \in Id \cup {0} /\ pending \subseteq Id /\ closed \in BOOLEAN
  /\ ch \in [Id -> Message \cup {None, Broken}]
  /\ writer \in Call \cup {None}
  /\ stdin \in Seq(Message) /\ Len(stdin) <= InCap /\ stdinOpen \in BOOLEAN
  /\ stdout \in Seq(Message \cup {Garbage}) /\ Len(stdout) <= OutCap
  /\ reader \in {"decode", "deliver", "done"} /\ got \in Message \cup {None}
  /\ plugin \in {"reads", "handles", "replies", "dead"} /\ hung \in BOOLEAN
  /\ req \in Message \cup {None}
  /\ expired \subseteq Call /\ rootDone \in BOOLEAN /\ faults \subseteq Faults

\* Spawn: the process runs and the reader has been started.
Init ==
  /\ main = "handshake" /\ rootDone = FALSE
  /\ pc = [c \in Call |-> "idle"] /\ id = [c \in Call |-> 0]
  /\ result = [c \in Call |-> None] /\ expired = {}
  /\ nextID = 0 /\ pending = {} /\ closed = FALSE
  /\ ch = [i \in Id |-> None] /\ writer = None /\ reader = "decode" /\ got = None
  /\ plugin = "reads" /\ req = None /\ hung = FALSE /\ faults = Faults
  /\ stdin = <<>> /\ stdinOpen = TRUE /\ stdout = <<>>

------------------------------------------------------------------------------
(* Client.call *)

\* Who calls when: Load and Close in their places, operations while the
\* controller serves, request handlers also while it goes down.
MayBegin(c) ==
  CASE c = Handshake -> main = "handshake"
    [] c = Configure -> main = "configure"
    [] c = Shutdown  -> main \in {"refused", "closing"}
    [] c \in Probe   -> main \in {"serving", "closing"}
    [] OTHER         -> main = "serving"

Returns(c, r) ==
  /\ pc' = [pc EXCEPT ![c] = "returned"]
  /\ result' = [result EXCEPT ![c] = r]

FaultyReusedID == CHOOSE i \in Id \ pending : \A j \in Id \ pending : i <= j
FreshID == nextID + 1

Register(c) ==
  /\ pc[c] = "idle" /\ MayBegin(c)
  /\ IF closed
     THEN Returns(c, "error") /\ UNCHANGED <<id, clientVars>>
     ELSE /\ nextID' = FreshID
          /\ id' = [id EXCEPT ![c] = nextID']
          /\ pending' = pending \cup {nextID'}
          /\ ch' = [ch EXCEPT ![nextID'] = None]
          /\ pc' = [pc EXCEPT ![c] = "registered"]
          /\ UNCHANGED <<result, closed, writer, reader, got>>
  /\ UNCHANGED <<expired, loaderVars, pluginVars, pipeVars>>

LockWrite(c) ==
  /\ pc[c] = "registered" /\ writer = None
  /\ writer' = c
  /\ pc' = [pc EXCEPT ![c] = "writing"]
  /\ UNCHANGED <<id, result, expired, nextID, pending, closed, ch, reader, got,
                 loaderVars, pluginVars, pipeVars>>

\* The write blocks while the pipe is full; no context ends it.
Write(c) ==
  /\ pc[c] = "writing" /\ stdinOpen /\ plugin # "dead" /\ Len(stdin) < InCap
  /\ stdin' = Append(stdin, [id |-> id[c], of |-> c])
  /\ writer' = None
  /\ pc' = [pc EXCEPT ![c] = "waiting"]
  /\ UNCHANGED <<id, result, expired, nextID, pending, closed, ch, reader, got,
                 stdinOpen, stdout, loaderVars, pluginVars>>

WriteFails(c) ==
  /\ pc[c] = "writing" /\ (~stdinOpen \/ plugin = "dead")
  /\ writer' = None
  /\ pending' = pending \ {id[c]}
  /\ Returns(c, "error")
  /\ UNCHANGED <<id, expired, nextID, closed, ch, reader, got, loaderVars, pluginVars, pipeVars>>

\* Probes and Close at the end of the controller have a timeout, operations
\* can be canceled; all but those two kinds end with the root context.
CtxDone(c) ==
  \/ c \in expired
  \/ rootDone /\ c \notin Probe /\ ~(c = Shutdown /\ main = "closing")

HasTimeout(c) == c \in Probe \/ (c = Shutdown /\ main = "closing")

CtxEnds(c) ==
  /\ pc[c] \in {"registered", "writing", "waiting"}
  /\ HasTimeout(c) \/ c \in Operation
  /\ c \notin expired /\ expired' = expired \cup {c}
  /\ UNCHANGED <<pc, id, result, clientVars, loaderVars, pluginVars, pipeVars>>

GiveUp(c) ==
  /\ pc[c] = "waiting" /\ CtxDone(c)
  /\ pending' = pending \ {id[c]}
  /\ Returns(c, "canceled")
  /\ UNCHANGED <<id, expired, nextID, closed, ch, writer, reader, got,
                 loaderVars, pluginVars, pipeVars>>

Receive(c) ==
  /\ pc[c] = "waiting" /\ ch[id[c]] # None
  /\ ch' = [ch EXCEPT ![id[c]] = None]
  /\ Returns(c, IF ch[id[c]] = Broken THEN "error" ELSE ch[id[c]].of)
  /\ UNCHANGED <<id, expired, nextID, pending, closed, writer, reader, got,
                 loaderVars, pluginVars, pipeVars>>

------------------------------------------------------------------------------
(* readLoop and failAll *)

FaultyTaken(i) == pending
Taken(i) == pending \ {i}

\* A reply nobody waits for is dropped.
ReaderTakes ==
  /\ reader = "decode" /\ stdout # <<>> /\ Head(stdout) # Garbage
  /\ stdout' = Tail(stdout)
  /\ IF Head(stdout).id \in pending
     THEN reader' = "deliver" /\ got' = Head(stdout)
     ELSE UNCHANGED <<reader, got>>
  /\ pending' = Taken(Head(stdout).id)
  /\ UNCHANGED <<nextID, closed, ch, writer, stdin, stdinOpen,
                 loaderVars, callVars, pluginVars>>

\* A send waits for room; the channels have room for one message.
FaultyHasRoom(i) == \E c \in Call : id[c] = i /\ pc[c] = "waiting" /\ ch[i] = None
HasRoom(i) == ch[i] = None

ReaderDelivers ==
  /\ reader = "deliver" /\ HasRoom(got.id)
  /\ ch' = [ch EXCEPT ![got.id] = got]
  /\ reader' = "decode" /\ got' = None
  /\ UNCHANGED <<nextID, pending, closed, writer, loaderVars, callVars, pluginVars, pipeVars>>

StreamEnds ==
  IF stdout = <<>> THEN plugin = "dead" ELSE Head(stdout) = Garbage

FaultyUnblocked == {}
Unblocked == pending

\* What the decoder could not read it has taken off the pipe.
FailAll ==
  /\ reader = "decode" /\ StreamEnds
  /\ \A i \in pending : HasRoom(i)
  /\ stdout' = IF stdout = <<>> THEN stdout ELSE Tail(stdout)
  /\ closed' = TRUE
  /\ ch' = [i \in Id |-> IF i \in Unblocked THEN Broken ELSE ch[i]]
  /\ pending' = {}
  /\ reader' = "done"
  /\ UNCHANGED <<nextID, writer, got, stdin, stdinOpen, loaderVars, callVars, pluginVars>>

------------------------------------------------------------------------------
(* ServeConn, one request after the other, and what may befall the process *)

Serving(at) == plugin = at /\ ~hung

PluginReads ==
  /\ Serving("reads") /\ stdin # <<>>
  /\ req' = Head(stdin) /\ stdin' = Tail(stdin)
  /\ plugin' = IF req'.of = Shutdown THEN "replies" ELSE "handles"
  /\ UNCHANGED <<hung, faults, stdinOpen, stdout, loaderVars, callVars, clientVars>>

PluginEOF ==
  /\ Serving("reads") /\ stdin = <<>> /\ ~stdinOpen
  /\ plugin' = "dead"
  /\ UNCHANGED <<req, hung, faults, loaderVars, callVars, clientVars, pipeVars>>

\* dispatch: the handler returns, with a result or an error.
PluginHandles ==
  /\ Serving("handles")
  /\ plugin' = "replies"
  /\ UNCHANGED <<req, hung, faults, loaderVars, callVars, clientVars, pipeVars>>

PluginReplies ==
  /\ Serving("replies") /\ Len(stdout) < OutCap
  /\ stdout' = Append(stdout, req)
  /\ plugin' = IF req.of = Shutdown THEN "dead" ELSE "reads"
  /\ req' = None
  /\ UNCHANGED <<hung, faults, stdin, stdinOpen, loaderVars, callVars, clientVars>>

Befalls(f) == f \in faults /\ plugin # "dead" /\ faults' = {}

PluginDies ==
  /\ Befalls("dies")
  /\ plugin' = "dead"
  /\ UNCHANGED <<req, hung, loaderVars, callVars, clientVars, pipeVars>>

PluginHangs ==
  /\ Befalls("hangs")
  /\ hung' = TRUE
  /\ UNCHANGED <<plugin, req, loaderVars, callVars, clientVars, pipeVars>>

\* Something that is not a reply reaches stdout.
PluginPrints ==
  /\ Befalls("prints") /\ Serving("handles") /\ Len(stdout) < OutCap
  /\ stdout' = Append(stdout, Garbage)
  /\ UNCHANGED <<plugin, req, hung, stdin, stdinOpen, loaderVars, callVars, clientVars>>

\* exec.CommandContext: the end of the root context kills the process.
PluginKilled ==
  /\ rootDone /\ plugin # "dead"
  /\ plugin' = "dead"
  /\ UNCHANGED <<req, hung, faults, loaderVars, callVars, clientVars, pipeVars>>

------------------------------------------------------------------------------
(* Load, the life of the controller, and Close *)

\* A failed call, another protocol version or an empty name refuses a plugin.
LoadStep(at, c, next) ==
  /\ main = at /\ pc[c] = "returned"
  /\ main' \in IF result[c] = c THEN {next, "refused"} ELSE {"refused"}
  /\ UNCHANGED <<rootDone, callVars, clientVars, pluginVars, pipeVars>>

Negotiated == LoadStep("handshake", Handshake, "configure")
Configured == LoadStep("configure", Configure, "serving")

\* A signal.
RootCancel ==
  /\ ~rootDone /\ rootDone' = TRUE
  /\ UNCHANGED <<main, callVars, clientVars, pluginVars, pipeVars>>

\* closePlugins runs after the dispatcher and the reconciler have stopped, and
\* these wait for their calls.
Closing ==
  /\ main = "serving" /\ rootDone
  /\ \A c \in Operation : pc[c] \in {"idle", "returned"}
  /\ main' = "closing"
  /\ UNCHANGED <<rootDone, callVars, clientVars, pluginVars, pipeVars>>

\* Close, after its shutdown request has returned: stdin, under writeMu ...
CloseStdin ==
  /\ pc[Shutdown] = "returned" /\ stdinOpen /\ writer = None
  /\ stdinOpen' = FALSE
  /\ UNCHANGED <<stdin, stdout, loaderVars, callVars, clientVars, pluginVars>>

\* ... and then the reader and the process.
Reaped ==
  /\ main \in {"refused", "closing"} /\ ~stdinOpen
  /\ reader = "done" /\ plugin = "dead"
  /\ main' = IF main = "refused" THEN "skipped" ELSE "exited"
  /\ UNCHANGED <<rootDone, callVars, clientVars, pluginVars, pipeVars>>

CallStep(c) == LockWrite(c) \/ Write(c) \/ WriteFails(c) \/ GiveUp(c) \/ Receive(c)
Reader == ReaderTakes \/ ReaderDelivers \/ FailAll
Plugin == PluginReads \/ PluginEOF \/ PluginHandles \/ PluginReplies
Main == Negotiated \/ Configured \/ Closing \/ CloseStdin \/ Reaped

Next ==
  \/ \E c \in Call : Register(c) \/ CtxEnds(c)
  \/ \E c \in Call : LockWrite(c) \/ Write(c) \/ WriteFails(c) \/ GiveUp(c) \/ Receive(c)
  \/ ReaderTakes \/ ReaderDelivers \/ FailAll
  \/ PluginReads \/ PluginEOF \/ PluginHandles \/ PluginReplies
  \/ PluginDies \/ PluginHangs \/ PluginPrints \/ PluginKilled
  \/ Negotiated \/ Configured \/ RootCancel \/ Closing \/ CloseStdin \/ Reaped

\* Goroutines are scheduled, a plugin that is not hung works on, a timeout
\* runs out, and a kill takes effect.
PluginFairness ==
  /\ \A c \in Call : WF_vars(CallStep(c))
  /\ \A c \in Call \ Caller : WF_vars(Register(c))
  /\ \A c \in Call : WF_vars(HasTimeout(c) /\ CtxEnds(c))
  /\ WF_vars(Reader) /\ WF_vars(Plugin) /\ WF_vars(PluginKilled) /\ WF_vars(Main)

PluginSpec == Init /\ [][Next]_vars /\ PluginFairness

------------------------------------------------------------------------------
(* Properties *)

\* A call only ever returns the answer to its own request, although the plugin
\* also answers requests whose callers have given up, and late answers meet
\* newer calls (nextID, pending and the deletion on every way out of call).
OwnAnswer == \A c \in Call : result[c] \in Call => result[c] = c

\* The reader never blocks on a channel: each is sent to at most once, by the
\* reader or by failAll, because whoever sends has taken it out of pending
\* before (readLoop, failAll).  Otherwise a caller that has given up would stop
\* everybody: the reader is what keeps both pipes moving.
RoomForReply ==
  /\ \A i \in pending : ch[i] = None
  /\ reader = "deliver" => ch[got.id] = None /\ got.id \notin pending

\* A stream that was cut leaves a plugin that works on, unread.
Unread == reader = "done" /\ plugin # "dead"

\* "So no caller blocks forever on a dead plugin": every call returns, whoever
\* dies, expires or shuts down meanwhile, as long as the plugin neither hangs
\* nor is left unread.
CallsReturn == \A c \in Call : pc[c] # "idle" ~> (pc[c] = "returned" \/ hung \/ Unread)

\* A stop always ends the plugin and the controller's wait for it, also when the
\* plugin hangs, is unread, or has a caller blocked in its write.
StopEnds == rootDone ~> main \in {"skipped", "exited"}

------------------------------------------------------------------------------
(* What documents and comments say and the code does not keep; each has a  *)
(* configuration, named after it, with which TLC refutes it.               *)

\* external.go: the timeout of metadata calls is there "so a hung plugin can't
\* wedge a delete or a children-graph request forever".
ProbesAreBounded == \A c \in Probe : pc[c] # "idle" ~> pc[c] = "returned"

\* buildRegistry: "A provider that fails to load is logged and skipped: one bad
\* provider must not stop the controller".
BadPluginSkipped == <>(main \notin {"handshake", "configure", "refused"})
================================================================================
