-------------------------------- MODULE Shmq --------------------------------
(***************************************************************************)
(* The kernel module shmq (kernel_modules/shmq/shmq.c) and its client.     *)
(* shm_queue_send_msg, called in interrupt context, puts a record of fixed *)
(* size into a kfifo; a worker thread takes the bytes of one record out    *)
(* and gives them to msgsnd, which blocks while the system's queue is      *)
(* full; a client process (tools/shmq_client) reads that queue.            *)
(*                                                                         *)
(* A kfifo is a queue of bytes without locks, for one writer and one       *)
(* reader: kfifo_in stores as many bytes as there is room for and then     *)
(* moves its index.  Nothing keeps two processors from being in it at the  *)
(* same time: they store at the same place and move the index one after    *)
(* the other, or one undoes the other's move.  A byte is <<n, i>>, byte i  *)
(* of the record of the n-th message since the module was loaded, or a     *)
(* <<Garbled, i>> nobody can tell; sizes are in any unit that divides      *)
(* both.  Allocations and msgget succeed.                                  *)
(***************************************************************************)
EXTENDS Integers, Sequences

CONSTANTS Senders,     \* the processors that call shm_queue_send_msg
          RecordSize,  \* sizeof (struct shmq_msg)
          FifoSize,    \* 2048 in init_func
          QueueLimit,  \* the messages the system's queue has room for
          Garbled,     \* a message in that queue that nobody sent, no number
          MaxSent      \* bound on the messages sent

VARIABLES shmq,         \* the module: "absent", "live" or "exiting"
          cancel_work,
          fifo,         \* the bytes in s_ring_buffer
          slot,         \* slot[c]: <<the bytes c has stored behind the index>> or <<>>
          sent,         \* the number of messages sent
          worker,       \* where the worker thread is
          msg,          \* the bytes it took out
          queue,        \* the system's queue
          raced,        \* two processors have been in kfifo_in together (history)
          accepted,     \* the messages that found room in the kfifo, and
          got,          \* what the client has read, until then (history)
          client        \* whether there is one

fifoVars == <<fifo, slot, sent, raced, accepted>>
workVars == <<worker, msg, queue>>
vars == <<shmq, cancel_work, fifoVars, workVars, got, client>>

Record(n) == [i \in 1 .. RecordSize |-> <<n, i>>]

Init ==
  /\ shmq = "absent"
  /\ cancel_work = FALSE
  /\ fifo = <<>>
  /\ slot = [c \in Senders |-> <<>>]
  /\ sent = 0
  /\ raced = FALSE
  /\ worker = "none"
  /\ msg = <<>>
  /\ queue = <<>>
  /\ accepted = <<>>
  /\ got = <<>>
  /\ client \in BOOLEAN

\* init_func: the fifo is allocated and the work submitted.
InitFunc ==
  /\ shmq = "absent"
  /\ shmq' = "live"
  /\ worker' = "submitted"
  /\ UNCHANGED <<cancel_work, fifoVars, msg, queue, got, client>>

-----------------------------------------------------------------------------
(* shm_queue_send_msg *)

Torn(len) == [i \in 1 .. len |-> <<Garbled, i>>]

\* The number of bytes kfifo_in stores.  The room is unsigned: when two writers have
\* overfilled the fifo, there seems to be any amount of it.
kfifo_in ==
  LET room == FifoSize - Len(fifo)
  IN  IF room \in 0 .. RecordSize THEN room ELSE RecordSize

Writers == {c \in Senders : slot[c] # <<>>}

\* The message is built and kfifo_in stores its bytes.  Bytes that another processor
\* stores at the same place are mixed with them.
Store(c) ==
  /\ slot[c] = <<>>
  /\ ~cancel_work
  /\ sent < MaxSent
  /\ sent' = sent + 1
  /\ raced' = (raced \/ Writers # {})
  /\ slot' = IF Writers = {}
             THEN [slot EXCEPT ![c] = <<SubSeq(Record(sent + 1), 1, kfifo_in)>>]
             ELSE [d \in Senders |-> IF d = c THEN <<Torn(kfifo_in)>>
                                     ELSE IF d \in Writers THEN <<Torn(Len(slot[d][1]))>>
                                     ELSE <<>>]
  /\ UNCHANGED <<shmq, cancel_work, fifo, workVars, accepted, got, client>>

\* kfifo_in moves the index.  The last of several writers may have read it before the
\* others had moved it, and then moves it less far.
Publish(c) ==
  LET bytes == slot[c][1]
      len == Len(bytes)
      torn == len > 0 /\ bytes = Torn(len)
  IN  /\ slot[c] # <<>>
      /\ slot' = [slot EXCEPT ![c] = <<>>]
      /\ \E n \in IF torn /\ Writers = {c} THEN 0 .. len ELSE {len} :
           fifo' = fifo \o SubSeq(bytes, 1, n)
      /\ accepted' = IF len = RecordSize /\ ~raced THEN Append(accepted, bytes[1][1]) ELSE accepted
      /\ UNCHANGED <<shmq, cancel_work, sent, raced, workVars, got, client>>

-----------------------------------------------------------------------------
(* send_msg_from_queue *)

Work(from, to) ==
  /\ worker = from
  /\ worker' = to
  /\ UNCHANGED <<shmq, cancel_work, slot, sent, raced, accepted, got, client>>

WorkLoop ==
  /\ \/ Work("submitted", "loop")
     \/ Work("loop", IF cancel_work THEN "done" ELSE "check")
  /\ UNCHANGED <<fifo, msg, queue>>

\* Mutant: one record alone is not enough.
Check_More ==
  /\ Work("check", IF Len(fifo) <= RecordSize THEN "sleep" ELSE "out")
  /\ UNCHANGED <<fifo, msg, queue>>

Check ==
  /\ Work("check", IF Len(fifo) < RecordSize THEN "sleep" ELSE "out")
  /\ UNCHANGED <<fifo, msg, queue>>

\* Mutant: only the outer loop looks at cancel_work.
Sleep_Forever ==
  /\ Work("sleep", "check")
  /\ UNCHANGED <<fifo, msg, queue>>

Sleep ==
  /\ Work("sleep", IF cancel_work THEN "done" ELSE "check")
  /\ UNCHANGED <<fifo, msg, queue>>

\* kfifo_out takes what there is, up to the size of a record.
KfifoOut ==
  /\ Work("out", "send")
  /\ LET n == IF Len(fifo) < RecordSize THEN Len(fifo) ELSE RecordSize
     IN  /\ msg' = SubSeq(fifo, 1, n)
         /\ fifo' = SubSeq(fifo, n + 1, Len(fifo))
  /\ UNCHANGED queue

Whole(m) == \E n \in 1 .. MaxSent : m = Record(n)

\* What msgsnd queues.  Bytes of several records begin with an arbitrary type,
\* which msgsnd may refuse; what they hold is garbled otherwise.
Queued(m) == IF Whole(m) THEN {<<m[1][1]>>} ELSE {<<>>, <<Garbled>>}

\* Mutant: msgsnd with IPC_NOWAIT.
MsgSnd_NoWait ==
  /\ Work("send", "loop")
  /\ \E q \in Queued(msg) :
       queue' = IF Len(queue) < QueueLimit THEN queue \o q ELSE queue
  /\ msg' = <<>>
  /\ UNCHANGED fifo

MsgSnd ==
  /\ Work("send", "loop")
  /\ \E q \in Queued(msg) :
       /\ q = <<>> \/ Len(queue) < QueueLimit
       /\ queue' = queue \o q
  /\ msg' = <<>>
  /\ UNCHANGED fifo

WorkerStep == WorkLoop \/ Check \/ Sleep \/ KfifoOut \/ MsgSnd

\* The loop of the client: it reads a message of any type, if there is one.
MsgRcv ==
  /\ client
  /\ queue # <<>>
  /\ got' = IF raced THEN got ELSE Append(got, Head(queue))
  /\ queue' = Tail(queue)
  /\ UNCHANGED <<shmq, cancel_work, fifoVars, worker, msg, client>>

-----------------------------------------------------------------------------
(* cleanup_func *)

\* No module that uses shmq is loaded (the kernel sees to it).
CleanupFunc ==
  /\ shmq = "live"
  /\ shmq' = "exiting"
  /\ cancel_work' = TRUE
  /\ UNCHANGED <<fifoVars, workVars, got, client>>

\* cancel_work_sync takes back work that has not started and waits for work that
\* has; then the system's queue is removed and the fifo freed, and the kernel frees
\* the module with its data.
CleanupDone ==
  /\ shmq = "exiting"
  /\ worker \in {"submitted", "done"}
  /\ shmq' = "absent"
  /\ cancel_work' = FALSE
  /\ worker' = "none"
  /\ fifo' = <<>> /\ msg' = <<>> /\ queue' = <<>>
  /\ sent' = 0 /\ raced' = FALSE /\ accepted' = <<>> /\ got' = <<>>
  /\ UNCHANGED <<slot, client>>

\* The callers are gone when the module is removed.
Next ==
  \/ InitFunc
  \/ \E c \in Senders : (shmq = "live" /\ Store(c)) \/ Publish(c)
  \/ WorkerStep
  \/ MsgRcv
  \/ Writers = {} /\ CleanupFunc
  \/ CleanupDone

Spec == Init /\ [][Next]_vars

-----------------------------------------------------------------------------
(* Properties *)

\* What the comments of send_msg_from_queue say: when there is "at least one msg in
\* a buffer", the worker removes "that msg", so that what it sends is a message
\* somebody sent.
WholeMessages == worker = "send" => Whole(msg)

\* The messages whose records are in the bytes b.
MessagesIn(b) == [k \in 1 .. Len(b) \div RecordSize |-> b[(k - 1) * RecordSize + 1][1]]

\* Every message that found room in the kfifo is on its way to the client, once and
\* in the order of the calls: nothing is lost, doubled or overtaken between the
\* fifo, the worker and the system's queue, until two processors meet in kfifo_in.
Delivered ==
  shmq # "absent" /\ ~raced =>
    accepted = got \o queue \o MessagesIn(msg) \o MessagesIn(fifo)
=============================================================================
