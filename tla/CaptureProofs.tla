--------------------------- MODULE CaptureProofs ---------------------------
(***************************************************************************)
(* The hook of the modified kernel is never followed into a module that is *)
(* gone, for every number of processors, every size of the queues and      *)
(* every order in which the modules are loaded and removed.                *)
(***************************************************************************)
EXTENDS Capture, TLAPS

-----------------------------------------------------------------------------
(* The inductive invariant *)

HookTypes ==
  /\ my_hook1 \in Modules \cup {NULL}
  /\ modules \in [Modules -> {"absent", "loaded", "exiting"}]
  /\ cpu \in [Cpus -> {"idle", "call", "hook", "sending", "crashed"}]
  /\ target \in [Cpus -> Modules \cup {NULL}]
  /\ once \in BOOLEAN

\* The kernel's count of users: shmq is there while packet_capture is.
Needed ==
  /\ modules["packet_capture"] # "absent" => shmq = "live"
  /\ shmq # "exiting" => ~cancel_work

\* A processor that has read the hook holds the module where it points, because no
\* module is freed before the processor is done.
Held ==
  \A c \in Cpus : cpu[c] \in {"call", "hook", "sending"} =>
    target[c] \in Modules /\ modules[target[c]] # "absent"

\* Only the hook of packet_capture sends.
Sending == \A c \in Cpus : cpu[c] = "sending" => target[c] = "packet_capture"

CaptureInv == HookTypes /\ HookLoaded /\ Needed /\ Held /\ Sending

-----------------------------------------------------------------------------

\* Before any module is loaded nothing points anywhere.
LEMMA CaptureStart == CaptureInit => CaptureInv
BY DEF NULL, CaptureInit, Init, CaptureInv, HookTypes, HookLoaded, Needed, Held, Sending, Modules

\* Every step of a module, of shmq, of its worker and of a processor keeps the
\* invariant.
LEMMA CaptureStep ==
  ASSUME CaptureInv, [CaptureNext]_allVars
  PROVE  CaptureInv'
<1> USE DEF NULL, Modules, CaptureInv, HookTypes, HookLoaded, Needed, Held, Sending, vars, fifoVars, workVars,
        hookVars
<1>1. ASSUME NEW m \in Modules, Insmod(m)
      PROVE  CaptureInv'
  BY <1>1 DEF Insmod, Modules
<1>2. ASSUME NEW m \in Modules, Cleanup(m)
      PROVE  CaptureInv'
  BY <1>2 DEF Cleanup
<1>3. ASSUME NEW m \in Modules, Free(m)
      PROVE  CaptureInv'
  BY <1>3 DEF Free
<1>4. ASSUME InitFunc, UNCHANGED hookVars
      PROVE  CaptureInv'
  BY <1>4 DEF InitFunc, Modules
<1>5. ASSUME WorkerStep, UNCHANGED hookVars
      PROVE  CaptureInv'
  BY <1>5 DEF WorkerStep, WorkLoop, Check, Sleep, KfifoOut, MsgSnd, Work
<1>6. ASSUME MsgRcv, UNCHANGED hookVars
      PROVE  CaptureInv'
  BY <1>6 DEF MsgRcv
<1>7. ASSUME CleanupDone, UNCHANGED hookVars
      PROVE  CaptureInv'
  BY <1>7 DEF CleanupDone, Modules
<1>8. ASSUME modules["packet_capture"] = "absent", CleanupFunc, UNCHANGED hookVars
      PROVE  CaptureInv'
  BY <1>8 DEF CleanupFunc, Modules
<1>9. ASSUME NEW c \in Cpus, Receive(c)
      PROVE  CaptureInv'
  BY <1>9 DEF Receive, Cpu
<1>10. ASSUME NEW c \in Cpus, Call(c)
      PROVE  CaptureInv'
  BY <1>10 DEF Call, Cpu
<1>11. ASSUME NEW c \in Cpus, PassOn(c)
      PROVE  CaptureInv'
  BY <1>11 DEF PassOn, Return, Cpu
<1>12. ASSUME NEW c \in Cpus, Take(c)
      PROVE  CaptureInv'
  BY <1>12 DEF Take, Cpu, Store
<1>13. ASSUME NEW c \in Cpus, Taken(c)
      PROVE  CaptureInv'
  BY <1>13 DEF Taken, Return, Cpu, Publish
<1>14. ASSUME UNCHANGED allVars
      PROVE  CaptureInv'
  BY <1>14 DEF allVars
<1> QED
  BY <1>1, <1>2, <1>3, <1>4, <1>5, <1>6, <1>7, <1>8, <1>9, <1>10, <1>11, <1>12, <1>13, <1>14
     DEF CaptureNext, ShmqStep, CpuStep

\* The pointer never leads into a module that is being removed (see HookLoaded).
THEOREM CaptureHookLoaded == CaptureSpec => []HookLoaded
<1>1. CaptureInit => CaptureInv
  BY CaptureStart
<1>2. CaptureInv /\ [CaptureNext]_allVars => CaptureInv'
  BY CaptureStep
<1>3. CaptureInv => HookLoaded
  BY DEF CaptureInv
<1> QED
  BY <1>1, <1>2, <1>3, PTL DEF CaptureSpec

\* A processor in a hook or in shm_queue_send_msg finds the code there (see CodeThere).
THEOREM CaptureCodeThere == CaptureSpec => []CodeThere
<1>1. CaptureInit => CaptureInv
  BY CaptureStart
<1>2. CaptureInv /\ [CaptureNext]_allVars => CaptureInv'
  BY CaptureStep
<1>3. CaptureInv => CodeThere
  BY DEF CaptureInv, CodeThere, Held, Needed, HookTypes
<1> QED
  BY <1>1, <1>2, <1>3, PTL DEF CaptureSpec
=============================================================================
