---------------------------- MODULE StreamBuffer ----------------------------
(***************************************************************************)
(* The circular receive buffer of a client stream                          *)
(* (src/client/services/stream_buffers.c): bytes arrive from the circuit   *)
(* with stream_push_data and leave with the user's recv command through    *)
(* stream_pop_data; the array doubles when the bytes do not fit.           *)
(*                                                                         *)
(* queue is a history variable: the bytes pushed and not yet popped, in    *)
(* order.  Successive bytes are numbered modulo Bytes, which exceeds the   *)
(* largest capacity, so that no two stored bytes are equal and any loss,   *)
(* repetition or exchange is visible.  Junk is memory never written.       *)
(***************************************************************************)
EXTENDS Integers, Sequences

CONSTANTS INITIAL_BUFFER_CAPACITY,  \* 64 in the code, "Must be 2^n"
          MaxCapacity,              \* bound: no push that would grow beyond it
          Sizes,                    \* bound: the sizes pushed and popped
          Bytes,                    \* bound: bytes are numbered modulo Bytes
          Junk

ASSUME BufferAssumption ==
    /\ INITIAL_BUFFER_CAPACITY \in Nat \ {0} /\ MaxCapacity \in Nat
    /\ \E n \in 0 .. 31 : INITIAL_BUFFER_CAPACITY = 2 ^ n
    /\ Sizes \subseteq Nat
    /\ \E n \in 0 .. 31 : MaxCapacity = 2 ^ n
    /\ INITIAL_BUFFER_CAPACITY <= MaxCapacity
    /\ Bytes \in Nat /\ Bytes > MaxCapacity
    /\ Junk \notin 0 .. Bytes - 1

VARIABLES buffer, head, tail, size, capacity,
          nextByte,   \* number of the next byte to arrive
          queue,      \* history: what a FIFO would hold
          misplaced   \* history: some doubling left the bytes where the
                      \* indices no longer point

bufferVars == <<buffer, head, tail, size, capacity>>
streamBufferVars == <<bufferVars, nextByte, queue, misplaced>>

BufferInit ==
    /\ buffer = [i \in 0 .. INITIAL_BUFFER_CAPACITY - 1 |-> Junk]
    /\ size = 0
    /\ tail = 0
    /\ head = 0
    /\ capacity = INITIAL_BUFFER_CAPACITY
    /\ nextByte = 0
    /\ queue = <<>>
    /\ misplaced = FALSE

-----------------------------------------------------------------------------
(* One call of grow_buffer on a buffer b: realloc to twice the capacity    *)
(* and, if the contents wrap around the old end, move the part from tail   *)
(* to the new end.                                                         *)
GrowBufferNoMove(b) ==   \* slip: the wrapped part stays where it was
    [b EXCEPT !.capacity = 2 * @,
              !.buffer = [i \in 0 .. 2 * b.capacity - 1 |->
                            IF i < b.capacity THEN b.buffer[i] ELSE Junk]]
GrowBuffer(b) ==
    LET old_capacity == b.capacity
        doubled == 2 * old_capacity
        wrapped == b.head < b.tail
    IN  [b EXCEPT
           !.capacity = doubled,
           !.buffer = [i \in 0 .. doubled - 1 |->
                         IF wrapped /\ i >= b.tail + old_capacity THEN b.buffer[i - old_capacity]
                         ELSE IF i < old_capacity THEN b.buffer[i]
                         ELSE Junk],
           !.tail = IF wrapped THEN b.tail + old_capacity ELSE b.tail]

(* The loop of stream_push_data: doubling until n more bytes fit, which no *)
(* push needs MaxCapacity turns for.                                       *)
Reserve(b, n) ==
    LET turn[k \in 0 .. MaxCapacity] ==
            IF k = 0 THEN b
            ELSE LET grown == turn[k - 1]
                 IN  IF grown.size + n > grown.capacity THEN GrowBuffer(grown) ELSE grown
    IN  turn[MaxCapacity]

(* The copy of stream_push_data: up to the end of the array, the rest at   *)
(* its start.  head may be left equal to capacity.                         *)
Store(b, data) ==
    LET n == Len(data)
        wraps == b.head + n > b.capacity
        Position(k) == IF b.head + k - 1 < b.capacity THEN b.head + k - 1
                                                      ELSE b.head + k - 1 - b.capacity
        written == {Position(k) : k \in 1 .. n}
    IN  [b EXCEPT
           !.buffer = [i \in DOMAIN b.buffer |->
                         IF i \in written THEN data[CHOOSE k \in 1 .. n : Position(k) = i]
                                          ELSE b.buffer[i]],
           !.head = IF wraps THEN n - (b.capacity - b.head) ELSE b.head + n,
           !.size = b.size + n]

Current == [buffer |-> buffer, head |-> head, tail |-> tail, size |-> size,
            capacity |-> capacity]

(* A doubling goes wrong when bytes wrap around but head has caught up     *)
(* with tail (head < tail is false), and when the buffer is empty with     *)
(* head at the end of the array and tail back at its start.                *)
GrowMisplaces ==
    \/ size > 0 /\ head = tail /\ tail > 0
    \/ size = 0 /\ head # tail

stream_push_data(data) ==
    LET reserved == Reserve(Current, Len(data))
        pushed == Store(reserved, data)
    IN  /\ buffer' = pushed.buffer
        /\ head' = pushed.head
        /\ tail' = pushed.tail
        /\ size' = pushed.size
        /\ capacity' = pushed.capacity
        /\ misplaced' = (misplaced \/ (reserved # Current /\ GrowMisplaces))

(* The bytes stream_pop_data copies out: read_size bytes from tail on,     *)
(* continued at the start of the array.                                    *)
Popped(read_size) ==
    [k \in 1 .. read_size |-> buffer[IF tail + k - 1 < capacity THEN tail + k - 1
                                                               ELSE tail + k - 1 - capacity]]

ReadSizeAsked(n) == n   \* slip: not cut to what is there
ReadSize(n) == IF n > size THEN size ELSE n

(* & (capacity - 1) is % capacity: the capacity is a power of two. *)
stream_pop_data(n) ==
    /\ n # 0 /\ size # 0
    /\ tail' = (tail + ReadSize(n)) % capacity
    /\ size' = size - ReadSize(n)
    /\ UNCHANGED <<buffer, head, capacity>>

-----------------------------------------------------------------------------
(* A RELAY_DATA message with n bytes arrives. *)
Arrive(n) ==
    /\ size + n <= MaxCapacity
    /\ LET data == [k \in 1 .. n |-> (nextByte + k - 1) % Bytes]
       IN  /\ stream_push_data(data)
           /\ queue' = queue \o data
    /\ nextByte' = (nextByte + n) % Bytes

(* The user receives up to n bytes. *)
Receive(n) ==
    /\ stream_pop_data(n)
    /\ queue' = SubSeq(queue, ReadSize(n) + 1, Len(queue))
    /\ UNCHANGED <<nextByte, misplaced>>

BufferNext == \E n \in Sizes : Arrive(n) \/ Receive(n)

BufferSpec == BufferInit /\ [][BufferNext]_streamBufferVars
-----------------------------------------------------------------------------
BufferTypeOK ==
    /\ capacity \in 1 .. MaxCapacity
    /\ buffer \in [0 .. capacity - 1 -> (0 .. Bytes - 1) \cup {Junk}]
    /\ head \in 0 .. capacity
    /\ tail \in 0 .. capacity - 1
    /\ size \in 0 .. capacity
    /\ nextByte \in 0 .. Bytes - 1
    /\ queue \in Seq(0 .. Bytes - 1)
    /\ misplaced \in BOOLEAN

(* As long as no doubling hit one of the two cases grow_buffer does not    *)
(* distinguish, recv returns exactly the bytes that arrived, in order.     *)
FifoUnlessMisplaced == ~misplaced => Popped(size) = queue
=============================================================================
