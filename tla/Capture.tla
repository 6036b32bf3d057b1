------------------------------ MODULE Capture ------------------------------
(***************************************************************************)
(* The path of a packet through the modified kernel: netif_receive_skb of  *)
(* kernel_hack/dev.c calls the function that my_hook1 points to, if any,   *)
(* and a module, packet_capture or timestamper, has set it.  The hook of   *)
(* packet_capture takes the packets of one network interface out of the    *)
(* stack and sends them through shmq.  Modules are loaded and removed      *)
(* while the processors receive packets; nothing locks my_hook1.           *)
(*                                                                         *)
(* A processor receives packets of any interface: one whose driver uses    *)
(* netif_rx has packets in the backlog of several processors.  The kernel  *)
(* frees a module only when every processor has left its packet            *)
(* (stop_machine), and lets shmq go only when packet_capture, which uses   *)
(* it, is freed.  No module sets my_hook2.                                 *)
(***************************************************************************)
EXTENDS Shmq

VARIABLES my_hook1,
          modules,  \* modules[m]: "absent", "loaded" or "exiting"
          cpu,      \* where each processor is in netif_receive_skb
          target,   \* the hook a processor has read
          once      \* whether the compiled code reads my_hook1 once or twice

Modules == {"packet_capture", "timestamper"}

Cpus == Senders

\* The hook pointer that points to no module's function.
NULL == "NULL"

hookVars == <<my_hook1, modules, cpu, target, once>>
allVars == <<vars, hookVars>>

CaptureInit ==
  /\ Init
  /\ my_hook1 = NULL
  /\ modules = [m \in Modules |-> "absent"]
  /\ cpu = [c \in Cpus |-> "idle"]
  /\ target = [c \in Cpus |-> NULL]
  /\ once \in BOOLEAN

-----------------------------------------------------------------------------
(* The modules *)

\* init_func: the interface is looked up and the hook set, found or not.
Insmod(m) ==
  /\ modules[m] = "absent"
  /\ m = "packet_capture" => shmq = "live"
  /\ modules' = [modules EXCEPT ![m] = "loaded"]
  /\ my_hook1' = m
  /\ UNCHANGED <<vars, cpu, target, once>>

\* Mutant: the hook is left set.
Cleanup_Keep(m) ==
  /\ modules[m] = "loaded"
  /\ modules' = [modules EXCEPT ![m] = "exiting"]
  /\ UNCHANGED <<vars, my_hook1, cpu, target, once>>

\* cleanup_func: no hook is set afterwards, whoever had set one last.
Cleanup(m) ==
  /\ modules[m] = "loaded"
  /\ modules' = [modules EXCEPT ![m] = "exiting"]
  /\ my_hook1' = NULL
  /\ UNCHANGED <<vars, cpu, target, once>>

\* The kernel frees the module.
Free(m) ==
  /\ modules[m] = "exiting"
  /\ \A c \in Cpus : cpu[c] = "idle"
  /\ modules' = [modules EXCEPT ![m] = "absent"]
  /\ UNCHANGED <<vars, my_hook1, cpu, target, once>>

ShmqStep ==
  /\ \/ InitFunc \/ WorkerStep \/ MsgRcv \/ CleanupDone
     \/ modules["packet_capture"] = "absent" /\ CleanupFunc
  /\ UNCHANGED hookVars

-----------------------------------------------------------------------------
(* netif_receive_skb and the hooks *)

Cpu(c, from, to) ==
  /\ cpu[c] = from
  /\ cpu' = [cpu EXCEPT ![c] = to]
  /\ UNCHANGED <<my_hook1, modules, once>>

\* A packet arrives and the hook is tested; without one the packet goes on to the
\* protocols at once.
Receive(c) ==
  /\ my_hook1 # NULL
  /\ Cpu(c, "idle", "call")
  /\ target' = [target EXCEPT ![c] = my_hook1]
  /\ UNCHANGED vars

\* The call; code that reads my_hook1 again may find NULL.
Call(c) ==
  LET hook == IF once THEN target[c] ELSE my_hook1
  IN  /\ Cpu(c, "call", IF hook = NULL THEN "crashed" ELSE "hook")
      /\ target' = [target EXCEPT ![c] = hook]
      /\ UNCHANGED vars

Return(c, from) ==
  /\ Cpu(c, from, "idle")
  /\ target' = [target EXCEPT ![c] = NULL]

\* The hook of timestamper gives the packet back, and so does custom_hook when it
\* has found the interface s_netif_param and the packet is of another one.
PassOn(c) ==
  /\ Return(c, "hook")
  /\ UNCHANGED vars

\* custom_hook sends a packet of that interface, or any packet when it found none.
Take(c) ==
  /\ target[c] = "packet_capture"
  /\ Cpu(c, "hook", "sending")
  /\ Store(c)
  /\ UNCHANGED target

\* The packet is freed and goes nowhere else.
Taken(c) ==
  /\ Return(c, "sending")
  /\ Publish(c)

CpuStep(c) == Call(c) \/ PassOn(c) \/ Take(c) \/ Taken(c)

\* A call of NULL in an interrupt is the end of the kernel.
Crashed == \E c \in Cpus : cpu[c] = "crashed"
Alive == ~Crashed

CaptureNext ==
  /\ Alive
  /\ \/ \E m \in Modules : Insmod(m) \/ Cleanup(m) \/ Free(m)
     \/ ShmqStep
     \/ \E c \in Cpus : Receive(c) \/ CpuStep(c)

\* Interrupts are served, the worker and the client run, and rmmod goes on.
CaptureSpec ==
  /\ CaptureInit
  /\ [][CaptureNext]_allVars
  /\ \A c \in Cpus : WF_allVars(Alive /\ CpuStep(c))
  /\ WF_allVars(Alive /\ WorkerStep /\ UNCHANGED hookVars)
  /\ WF_allVars(Alive /\ MsgRcv /\ UNCHANGED hookVars)
  /\ WF_allVars(Alive /\ CleanupDone /\ UNCHANGED hookVars)

-----------------------------------------------------------------------------
(* Properties *)

\* my_hook1 never points into a module that is being removed, in whatever order two
\* modules that share it are loaded and removed.
HookLoaded == my_hook1 # NULL => modules[my_hook1] = "loaded"

\* No processor is in the code of a freed module, nor in shm_queue_send_msg when
\* shmq is not there: setting the pointer to NULL and waiting is enough, although
\* the processor had read the pointer before.
CodeThere ==
  \A c \in Cpus : cpu[c] \in {"hook", "sending"} =>
    /\ modules[target[c]] # "absent"
    /\ target[c] = "packet_capture" => shmq = "live" /\ ~cancel_work

\* With a client that reads, removing shmq ends, also when processors have met in
\* kfifo_in: the worker is not left in msgsnd or in its loop.  (Only the end of
\* cleanup_func leaves "exiting".)
Unloads == []<>(client /\ once => shmq # "exiting")

\* With a client, and as long as shmq stays and no two processors meet in kfifo_in,
\* everything that is taken arrives.  (Both sequences only grow while shmq stays.)
Arrives ==
  \A n \in 1 .. MaxSent :
    []<>(client /\ once /\ Len(accepted) >= n => Len(got) >= n \/ shmq # "live" \/ raced)
=============================================================================
