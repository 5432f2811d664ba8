------------------------------ MODULE ProxmoxVM ------------------------------
(***************************************************************************)
(* A VirtualMachine child as the dispatcher applies and deletes it         *)
(* (operations/dispatcher.go, ApplyManifest and DeleteManifest) and as the *)
(* Proxmox provider carries that out (pkg/proxmox/handler).                *)
(*                                                                         *)
(* Every operator below is one step that can be the last one before the    *)
(* process dies or a call fails; the caller orders them.  A VM's manifest  *)
(* is abstracted to its size, the only part that an apply changes on a VM  *)
(* that exists.                                                            *)
(***************************************************************************)
CONSTANTS
  Node,   \* VM names
  Size,   \* cpu and memory
  None

VARIABLES
  vm,     \* name -> the VM in Proxmox: its size and whether it runs
  row     \* name -> the size in its applied_manifests row

vmVars == <<vm, row>>

VM == [size : Size, on : BOOLEAN]

VMTypeOK ==
  /\ vm \in [Node -> VM \cup {None}]
  /\ row \in [Node -> Size \cup {None}]

VMInit ==
  /\ vm = [n \in Node |-> None]
  /\ row = [n \in Node |-> None]

Runs(n) == vm[n] # None /\ vm[n].on

\* tryCacheHitInline: the manifest is the saved one and the VM can be read.
CacheHit(n, s) == row[n] = s /\ vm[n] # None

\* createVM, from a template or an image: a VM that does not run yet ...
createVM(n, s) ==
  /\ vm[n] = None
  /\ vm' = [vm EXCEPT ![n] = [size |-> s, on |-> FALSE]]
  /\ UNCHANGED row

\* ... which is then configured and started.
StartVM(n) ==
  /\ vm' = [vm EXCEPT ![n].on = TRUE]
  /\ UNCHANGED row

\* applyVM on a VM that exists resizes it; it does not start it.
resizeVM(n, s) ==
  /\ vm[n] # None /\ ~CacheHit(n, s)
  /\ vm' = [vm EXCEPT ![n].size = s]
  /\ UNCHANGED row

\* SaveWithRefsHash after the provider's success.
SaveRow(n, s) ==
  /\ row' = [row EXCEPT ![n] = s]
  /\ UNCHANGED vm

\* deleteVM stops a running VM first; a VM that is absent is a success.
StopVM(n) ==
  /\ Runs(n)
  /\ vm' = [vm EXCEPT ![n].on = FALSE]
  /\ UNCHANGED row

DeleteVM(n) ==
  /\ ~Runs(n)
  /\ vm' = [vm EXCEPT ![n] = None]
  /\ UNCHANGED row

\* DeleteManifest removes the row after the provider's Delete.
DeleteRow(n) ==
  /\ row' = [row EXCEPT ![n] = None]
  /\ UNCHANGED vm
===============================================================================
