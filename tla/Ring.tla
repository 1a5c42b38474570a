-------------------------------- MODULE Ring --------------------------------
(***************************************************************************)
(* The ring arithmetic of src/src/kernel/stream_buffer.rs: positions head  *)
(* and tail in a storage of length bytes, one of which always stays free.  *)
(***************************************************************************)
EXTENDS Integers, Sequences

prvBytesInBuffer(length, head, tail) ==
  LET count == length + head - tail
  IN  IF count >= length THEN count - length ELSE count

xStreamBufferSpacesAvailable(length, head, tail) ==
  LET space == length + tail - head - 1
  IN  IF space >= length THEN space - length ELSE space

\* The position n bytes on.
Advance(length, i, n) == IF i + n >= length THEN i + n - length ELSE i + n

\* The storage after data was copied to it from position head on, in two parts
\* if it passes the end.
prvWriteBytesToBuffer(slots, length, head, data) ==
  [i \in DOMAIN slots |->
     LET k == prvBytesInBuffer(length, i, head) + 1
     IN  IF k \in DOMAIN data THEN data[k] ELSE slots[i]]

\* n bytes from position tail on.
prvReadBytesFromBuffer(slots, length, tail, n) ==
  [k \in 1..n |-> slots[Advance(length, tail, k - 1)]]
=============================================================================
