--------------------------- MODULE MemoryStorage ----------------------------
(***************************************************************************)
(* The contents of one open file kept in memory                            *)
(* (src/src/memory_storage.cpp) behind the interface of                    *)
(* src/src/abstract_storage.h.  Every call is one step.  This is also what *)
(* a caller may expect of the storage in a file: FileStorage implements it.*)
(***************************************************************************)
EXTENDS Integers, Sequences

CONSTANTS Bytes,    \* what a byte may be
          Zero,     \* the byte that fills a gap
          MaxSize,  \* bound: size of the contents
          MaxLen    \* bound: bytes of one call

VARIABLES data,  \* the vector of bytes
          got,   \* what the last read put in its caller's buffer
          ret    \* the number the last call returned

memoryVars == <<data, got, ret>>

Buffers == UNION {[1..n -> Bytes] : n \in 1..MaxLen}
Offsets == 0..MaxSize

(***************************************************************************)
(* What a read of n bytes at off sees: nothing beyond the end, and what is *)
(* left of the contents when it asks for more.                             *)
(***************************************************************************)
BytesAt(s, off, n) ==
    LET left == IF off > Len(s) THEN 0
                ELSE IF off + n > Len(s) THEN Len(s) - off
                ELSE n
    IN  [i \in 1..left |-> s[off + i]]

Resize(s, n) == [i \in 1..n |-> IF i <= Len(s) THEN s[i] ELSE Zero]

(***************************************************************************)
(* The vector grows to hold the buffer, which then replaces what is there. *)
(***************************************************************************)
Overwrite(s, off, b) ==
    LET end == off + Len(b)
        room == IF end > Len(s) THEN Resize(s, end) ELSE s
    IN  [i \in DOMAIN room |-> IF i > off /\ i <= end THEN b[i - off] ELSE room[i]]

MemoryInit ==
    /\ data = <<>>
    /\ got = <<>>
    /\ ret = 0

Size ==
    /\ ret' = Len(data)
    /\ UNCHANGED <<data, got>>

Empty ==
    /\ ret' = IF data = <<>> THEN 1 ELSE 0
    /\ UNCHANGED <<data, got>>

Read(off, n) ==
    /\ got' = BytesAt(data, off, n)
    /\ ret' = Len(BytesAt(data, off, n))
    /\ UNCHANGED data

Write(off, b) ==
    /\ data' = Overwrite(data, off, b)
    /\ ret' = Len(b)
    /\ UNCHANGED got

AppendBytes(b) == data' = data \o b /\ UNCHANGED <<got, ret>>

(* All callers make sure first that there is something to read. *)
ReadFully ==
    /\ data # <<>>
    /\ got' = data
    /\ UNCHANGED <<data, ret>>

Truncate(n) == data' = Resize(data, n) /\ UNCHANGED <<got, ret>>

Clear == data' = <<>> /\ UNCHANGED <<got, ret>>

MemoryNext ==
    \/ Size
    \/ Empty
    \/ ReadFully
    \/ \E off \in Offsets, n \in 1..MaxLen : Read(off, n)
    \/ \E off \in Offsets, b \in Buffers : Write(off, b)
    \/ \E b \in Buffers : AppendBytes(b)
    \/ \E n \in Offsets : Truncate(n)
    \/ Clear

MemorySpec == MemoryInit /\ [][MemoryNext]_memoryVars
=============================================================================
