--------------------------- MODULE ContextBuffer ---------------------------
(***************************************************************************)
(* internal/context/buffer.go: the ring buffer of a container's latest     *)
(* entries.  Indices are those of the Go slice, from 0.                    *)
(***************************************************************************)
EXTENDS Integers, Sequences

CONSTANT Capacity   \* context.buffer_lines, the capacity of a buffer

ASSUME CapacityAssumption == Capacity \in Nat \ {0}

(* A free slot; NewBuffer's slice holds zero entries.                      *)
NoEntry == [id |-> 0, n |-> 0]

NewBuffer == [entries |-> [i \in 0 .. Capacity - 1 |-> NoEntry], start |-> 0, length |-> 0]

BufferAppend(b, entry) ==
  IF b.length = Capacity
  THEN [b EXCEPT !.entries[b.start] = entry,
                 !.start = (b.start + 1) % Capacity]
  ELSE [b EXCEPT !.entries[(b.start + b.length) % Capacity] = entry,
                 !.length = b.length + 1]

BufferLast(b, limit) ==
  LET k == IF limit > b.length THEN b.length ELSE limit
      first == (b.start + b.length - k) % Capacity
  IN [i \in 1 .. k |-> b.entries[(first + i - 1) % Capacity]]
=============================================================================
