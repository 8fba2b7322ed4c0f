----------------------------- MODULE FrameQueue -----------------------------
(***************************************************************************)
(* The frame queues of src/src/platform/hal.c (HAL_FrameQueue and          *)
(* HAL_TxFrameQueue): a ring of a fixed number of slots, with the index of *)
(* its oldest frame, the index of its next free slot and a count.          *)
(***************************************************************************)
EXTENDS Integers, Sequences

(* The slot of a running index.                                           *)
Slot(index, capacity) == index % capacity

(* The states of a ring: the three counters agree.                         *)
QueueOK(queue, frames, capacity) ==
  /\ queue.frames \in [0..(capacity - 1) -> frames]
  /\ queue.head \in 0..(capacity - 1)
  /\ queue.count \in 0..capacity
  /\ queue.tail = Slot(queue.head + queue.count, capacity)

(* queue_reset() and tx_queue_reset(): every slot blank, nothing queued.   *)
QueueReset(blank, capacity) ==
  [frames |-> [i \in 0..(capacity - 1) |-> blank], head |-> 0, tail |-> 0, count |-> 0]

Full(queue, capacity) == queue.count >= capacity

(* Faulty variant: the index of the next free slot does not wrap.          *)
QueuePushNoWrap(queue, frame, capacity) ==
  [frames |-> [queue.frames EXCEPT ![queue.tail] = frame], head |-> queue.head,
   tail |-> queue.tail + 1, count |-> queue.count + 1]

(* queue_push() and tx_queue_push() on a queue that has room.              *)
QueuePush(queue, frame, capacity) ==
  [frames |-> [queue.frames EXCEPT ![queue.tail] = frame],
   head   |-> queue.head,
   tail   |-> Slot(queue.tail + 1, capacity),
   count  |-> queue.count + 1]

(* Faulty variant: the index that moves is the one frames are put at.      *)
QueuePopWrongIndex(queue, capacity) ==
  [frames |-> queue.frames, head |-> queue.head,
   tail |-> Slot(queue.tail + 1, capacity), count |-> queue.count - 1]

(* queue_pop() on a queue that holds a frame, and the frame it hands out.  *)
QueuePop(queue, capacity) ==
  [frames |-> queue.frames, head |-> Slot(queue.head + 1, capacity),
   tail |-> queue.tail, count |-> queue.count - 1]

QueueFront(queue) == queue.frames[queue.head]

(* The frames waiting, oldest first.                                       *)
Contents(queue, capacity) ==
  [i \in 1..queue.count |-> queue.frames[Slot(queue.head + (i - 1), capacity)]]
=============================================================================
