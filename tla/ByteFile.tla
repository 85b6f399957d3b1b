------------------------------ MODULE ByteFile ------------------------------
(***************************************************************************)
(* What soWrite and soTruncate promise of the bytes of a file, without      *)
(* clusters: a partial function from the positions that have been given a   *)
(* byte.  The promise is weaker than that of a POSIX file where the code's   *)
(* is.  A write that fails has written the beginning of its buffer, and a    *)
(* truncation may leave bytes where they were, beyond the new length.        *)
(***************************************************************************)
EXTENDS Integers

CONSTANTS
  MaxSize,     \* of the largest file
  Tag,         \* the buffers that are written
  Zero         \* a byte that is 0

VARIABLE bytes

Position == 0 .. MaxSize - 1

\* Byte n of a buffer written from position pos carries its position.
Byte(v, p) == <<v, p>>
Span(pos, n) == pos .. pos + n - 1

Init == bytes = [p \in {} |-> Zero]

\* The first n bytes of a buffer are written, and nothing else changes.
Write(pos, n, v) ==
  bytes' = [p \in DOMAIN bytes \cup Span(pos, n) |->
              IF p \in Span(pos, n) THEN Byte(v, p) ELSE bytes[p]]

\* Nothing before length changes, and what is new is 0.
Truncate(length) ==
  /\ \A p \in DOMAIN bytes : p < length => p \in DOMAIN bytes' /\ bytes'[p] = bytes[p]
  /\ \A p \in DOMAIN bytes' :
       \/ bytes'[p] = Zero
       \/ p \in DOMAIN bytes /\ bytes'[p] = bytes[p]

Next ==
  \/ \E length \in 0 .. MaxSize : Truncate(length)
  \/ \E pos \in Position : \E n \in 0 .. MaxSize - pos, v \in Tag : Write(pos, n, v)

Spec == Init /\ [][Next]_bytes
=============================================================================
