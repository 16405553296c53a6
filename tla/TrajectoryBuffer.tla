-------------------------- MODULE TrajectoryBuffer --------------------------
(***************************************************************************)
(* The ring of joint positions between the planner and the cycle of the    *)
(* bus: src/ControlCore/Execution/trajectory_buffer.c.  Its statistics,    *)
(* which nothing decides by, are left out.                                 *)
(***************************************************************************)
EXTENDS Naturals, Sequences

CONSTANTS
    Capacity,       \* TRAJECTORY_BUFFER_CAPACITY
    Blank           \* what the storage holds before anything is pushed

BufferAssumption == Capacity \in Nat \ {0}

ASSUME BufferAssumption

VARIABLE buffer

BufferInit ==
    buffer = [storage |-> [place \in 0 .. Capacity - 1 |-> Blank],
              readIndex |-> 0, writeIndex |-> 0, count |-> 0]

\* The positions stay where they are.
trajectory_buffer_reset ==
    buffer' = [storage |-> buffer.storage, readIndex |-> 0, writeIndex |-> 0, count |-> 0]

Succ(place) == (place + 1) % Capacity

trajectory_buffer_is_full == buffer.count >= Capacity

trajectory_buffer_is_empty == buffer.count = 0

trajectory_buffer_push(sample) ==
    /\ ~trajectory_buffer_is_full
    /\ buffer' = [storage |-> [buffer.storage EXCEPT ![buffer.writeIndex] = sample],
                  readIndex |-> buffer.readIndex,
                  writeIndex |-> Succ(buffer.writeIndex),
                  count |-> buffer.count + 1]

trajectory_buffer_peek == buffer.storage[buffer.readIndex]

trajectory_buffer_pop ==
    /\ ~trajectory_buffer_is_empty
    /\ buffer' = [storage |-> buffer.storage,
                  readIndex |-> Succ(buffer.readIndex),
                  writeIndex |-> buffer.writeIndex,
                  count |-> buffer.count - 1]

\* The samples that wait, the oldest first.
Waiting == [n \in 1 .. buffer.count |->
               buffer.storage[(buffer.readIndex + n - 1) % Capacity]]
=============================================================================
