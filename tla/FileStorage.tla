---------------------------- MODULE FileStorage -----------------------------
(***************************************************************************)
(* The contents of one open file kept in a temporary file of the cache     *)
(* directory, src/src/file_storage.cpp.  All calls share one stream with   *)
(* one position.  read and write hold rw_mutex from their seek to the end  *)
(* of their transfer.  size, empty and readFully seek and then look where  *)
(* they are, and truncate closes the stream and opens it again: none of    *)
(* these takes the mutex, so each is two steps that may fall between the   *)
(* two of any other call, as when a flush meets a write.  Open, append and *)
(* clear run alone: a node appends while it is being opened, and clears    *)
(* when nobody uses it.                                                    *)
(***************************************************************************)
EXTENDS Integers, Sequences

CONSTANTS Threads, Bytes, Zero, MaxSize, MaxLen,
          IntHalf,  \* 2^31: an int is in -IntHalf..(IntHalf - 1)
          Nobody    \* rw_mutex is free

ASSUME FileStorageAssumption == /\ Zero \in Bytes
                                /\ MaxSize \in Nat /\ MaxLen \in Nat
                                /\ IntHalf \in Nat /\ MaxLen < IntHalf
                                /\ Nobody \notin Threads

VARIABLES isOpen,    \* data.is_open()
          file,      \* the bytes of the stream
          pos,       \* its position, for reading as well as for writing
          rw_mutex,
          call,      \* call[t]: the call t is in the middle of
          disturbed, \* history: threads whose call a call without the mutex,
                     \* or any other during one without it, has come between
          got, ret   \* as in MemoryStorage

vars == <<isOpen, file, pos, rw_mutex, call, disturbed, got, ret>>

Memory == INSTANCE MemoryStorage WITH data <- file

Transfers == {"read", "write"}
Probes == {"size", "empty"}
Unlocked == Probes \cup {"readFully"}
Calls == {"none", "truncate"} \cup Transfers \cup Unlocked
NoCall == [name |-> "none", off |-> 0, len |-> 0, buf |-> <<>>]

(* What an int can be: the count of a misplaced write is any of these. *)
Ints == (-IntHalf)..(IntHalf - 1)

TypeOK ==
    /\ isOpen \in BOOLEAN
    /\ file \in Seq(Bytes) /\ Len(file) <= MaxSize
    /\ pos \in 0..MaxSize
    /\ rw_mutex \in Threads \cup {Nobody}
    /\ call \in [Threads -> [name : Calls, off : 0..MaxSize, len : 0..MaxLen,
                             buf : Memory!Buffers \cup {<<>>}]]
    /\ disturbed \subseteq Threads
    /\ got \in Seq(Bytes)
    /\ ret \in (0..MaxSize) \cup {1} \cup Ints

Init ==
    /\ isOpen = FALSE
    /\ file = <<>>
    /\ pos = 0
    /\ rw_mutex = Nobody
    /\ call = [t \in Threads |-> NoCall]
    /\ disturbed = {}
    /\ got = <<>>
    /\ ret = 0

Quiet == \A t \in Threads : call[t] = NoCall
Reopening == \E t \in Threads : call[t].name = "truncate"

(* The calls of others that a step of t comes between. *)
Met(t, names) == {u \in Threads \ {t} : call[u].name \in names}

(* A seek moves the position of an open stream and fails on a closed one. *)
Seek(p) == pos' = IF isOpen THEN p ELSE pos

(* static_cast<int>, and what int arithmetic does when it leaves the range *)
CastInt(x) == ((x + IntHalf) % (2 * IntHalf)) - IntHalf

(***************************************************************************)
(* Up to n bytes from the position on, as far as there are any; and what   *)
(* the file becomes by a transfer to the position, with zeros in a gap.    *)
(***************************************************************************)
StreamRead(s, p, n) == [i \in {j \in 1..n : p + j <= Len(s)} |-> s[p + i]]

StreamWrite(s, p, b) ==
    LET end == p + Len(b)
        size == IF Len(s) < end THEN end ELSE Len(s)
    IN  [i \in 1..size |-> IF i > p /\ i <= end THEN b[i - p]
                           ELSE IF i > Len(s) THEN Zero ELSE s[i]]

-----------------------------------------------------------------------------
(* Faulty variants, used only to show that the properties have teeth. *)
WriteUnlocked(t, off, b) ==
    /\ isOpen \/ Reopening
    /\ call[t] = NoCall
    /\ Seek(off)
    /\ call' = [call EXCEPT ![t] =
                   [name |-> "write", off |-> off, len |-> 0, buf |-> b]]
    /\ disturbed' = disturbed \cup Met(t, Unlocked)
                       \cup (IF isOpen THEN {} ELSE {t})
    /\ UNCHANGED <<isOpen, file, rw_mutex, got, ret>>

WideSubtraction(t) ==
    LET end == IF isOpen THEN pos + Len(call[t].buf) ELSE pos
    IN  /\ call[t].name = "write"
        /\ file' = IF isOpen THEN StreamWrite(file, pos, call[t].buf) ELSE file
        /\ pos' = end
        /\ ret' = CastInt(IF isOpen THEN end ELSE -1) - CastInt(call[t].off)
        /\ rw_mutex' = Nobody
        /\ call' = [call EXCEPT ![t] = NoCall]
        /\ disturbed' = (disturbed \cup Met(t, Unlocked)) \ {t}
        /\ UNCHANGED <<isOpen, got>>

AppendAtPosition(b) ==
    /\ isOpen
    /\ Quiet
    /\ file' = StreamWrite(file, pos, b)
    /\ pos' = pos + Len(b)
    /\ UNCHANGED <<isOpen, rw_mutex, call, disturbed, got, ret>>

-----------------------------------------------------------------------------
(***************************************************************************)
(* A fresh temporary file.                                                 *)
(***************************************************************************)
Open ==
    /\ ~isOpen
    /\ Quiet
    /\ isOpen' = TRUE
    /\ file' = <<>>
    /\ pos' = 0
    /\ UNCHANGED <<rw_mutex, call, disturbed, got, ret>>

(***************************************************************************)
(* read: seekg under the mutex, then the transfer, which stops at the end  *)
(* of the file; the flags that sets are cleared.  A stream that a truncate *)
(* has closed gives nothing.                                               *)
(***************************************************************************)
BeginRead(t, off, n) ==
    /\ isOpen \/ Reopening
    /\ call[t] = NoCall
    /\ rw_mutex = Nobody
    /\ rw_mutex' = t
    /\ Seek(off)
    /\ call' = [call EXCEPT ![t] =
                   [name |-> "read", off |-> off, len |-> n, buf |-> <<>>]]
    /\ disturbed' = disturbed \cup Met(t, Unlocked)
                       \cup (IF isOpen THEN {} ELSE {t})
    /\ UNCHANGED <<isOpen, file, got, ret>>

EndRead(t) ==
    LET bytes == IF isOpen THEN StreamRead(file, pos, call[t].len) ELSE <<>>
    IN  /\ call[t].name = "read"
        /\ got' = bytes
        /\ ret' = Len(bytes)
        /\ pos' = pos + Len(bytes)
        /\ rw_mutex' = Nobody
        /\ call' = [call EXCEPT ![t] = NoCall]
        /\ disturbed' = (disturbed \cup Met(t, Unlocked)) \ {t}
        /\ UNCHANGED <<isOpen, file>>

(***************************************************************************)
(* write: seekp under the mutex, then the transfer, which leaves zeros in  *)
(* a gap.  The count it returns is a difference of two positions, each cut *)
(* down to an int; a closed stream tells -1.                               *)
(***************************************************************************)
BeginWrite(t, off, b) ==
    /\ isOpen \/ Reopening
    /\ call[t] = NoCall
    /\ rw_mutex = Nobody
    /\ rw_mutex' = t
    /\ Seek(off)
    /\ call' = [call EXCEPT ![t] =
                   [name |-> "write", off |-> off, len |-> 0, buf |-> b]]
    /\ disturbed' = disturbed \cup Met(t, Unlocked)
                       \cup (IF isOpen THEN {} ELSE {t})
    /\ UNCHANGED <<isOpen, file, got, ret>>

EndWrite(t) ==
    LET end == IF isOpen THEN pos + Len(call[t].buf) ELSE pos
        told == IF isOpen THEN end ELSE -1
    IN  /\ call[t].name = "write"
        /\ file' = IF isOpen THEN StreamWrite(file, pos, call[t].buf) ELSE file
        /\ pos' = end
        /\ ret' = CastInt(CastInt(told) - CastInt(call[t].off))
        /\ rw_mutex' = Nobody
        /\ call' = [call EXCEPT ![t] = NoCall]
        /\ disturbed' = (disturbed \cup Met(t, Unlocked)) \ {t}
        /\ UNCHANGED <<isOpen, got>>

(***************************************************************************)
(* size and empty: a closed stream answers at once; an open one seeks to   *)
(* the end, without the mutex, and tells where it is: -1, which size takes *)
(* for a number and empty for not empty, if it has been closed meanwhile.  *)
(***************************************************************************)
ProbeClosed(t, name) ==
    /\ ~isOpen
    /\ call[t] = NoCall
    /\ ret' = IF name = "size" THEN 0 ELSE 1
    /\ UNCHANGED <<isOpen, file, pos, rw_mutex, call, disturbed, got>>

BeginProbe(t, name) ==
    /\ isOpen
    /\ call[t] = NoCall
    /\ Seek(Len(file))
    /\ call' = [call EXCEPT ![t] = [NoCall EXCEPT !.name = name]]
    /\ disturbed' = disturbed \cup Met(t, Transfers \cup Unlocked)
    /\ UNCHANGED <<isOpen, file, rw_mutex, got, ret>>

EndProbe(t) ==
    LET told == IF isOpen THEN pos ELSE -1
    IN  /\ call[t].name \in Probes
        /\ ret' = IF call[t].name = "size" THEN told
                  ELSE IF told = 0 THEN 1 ELSE 0
        /\ call' = [call EXCEPT ![t] = NoCall]
        /\ disturbed' = disturbed \ {t}
        /\ UNCHANGED <<isOpen, file, pos, rw_mutex, got>>

(***************************************************************************)
(* readFully seeks to the beginning and copies the rest of the stream.     *)
(* Its callers have asked first whether there is something to read.        *)
(***************************************************************************)
BeginReadFully(t) ==
    /\ isOpen \/ Reopening
    /\ call[t] = NoCall
    /\ file # <<>>
    /\ Seek(0)
    /\ call' = [call EXCEPT ![t] = [NoCall EXCEPT !.name = "readFully"]]
    /\ disturbed' = disturbed \cup Met(t, Transfers \cup Unlocked)
                       \cup (IF isOpen THEN {} ELSE {t})
    /\ UNCHANGED <<isOpen, file, rw_mutex, got, ret>>

EndReadFully(t) ==
    LET bytes == IF isOpen THEN StreamRead(file, pos, Len(file)) ELSE <<>>
    IN  /\ call[t].name = "readFully"
        /\ got' = bytes
        /\ pos' = pos + Len(bytes)
        /\ call' = [call EXCEPT ![t] = NoCall]
        /\ disturbed' = (disturbed \cup Met(t, Transfers \cup Unlocked)) \ {t}
        /\ UNCHANGED <<isOpen, file, rw_mutex, ret>>

(***************************************************************************)
(* truncate closes the stream, resizes the file and opens it again, at its *)
(* beginning.  The kernel locks the inode for a truncate, so there are not *)
(* two at once.                                                            *)
(***************************************************************************)
BeginTruncate(t, n) ==
    /\ isOpen
    /\ call[t] = NoCall
    /\ ~Reopening
    /\ isOpen' = FALSE
    /\ call' = [call EXCEPT ![t] =
                   [name |-> "truncate", off |-> n, len |-> 0, buf |-> <<>>]]
    /\ disturbed' = disturbed \cup Met(t, Transfers \cup Unlocked)
    /\ UNCHANGED <<file, pos, rw_mutex, got, ret>>

EndTruncate(t) ==
    /\ call[t].name = "truncate"
    /\ isOpen' = TRUE
    /\ file' = [i \in 1..call[t].off |-> IF i <= Len(file) THEN file[i] ELSE Zero]
    /\ pos' = 0
    /\ call' = [call EXCEPT ![t] = NoCall]
    /\ disturbed' = (disturbed \cup Met(t, Transfers \cup Unlocked)) \ {t}
    /\ UNCHANGED <<rw_mutex, got, ret>>

-----------------------------------------------------------------------------
AppendBytes(b) ==
    /\ isOpen
    /\ Quiet
    /\ file' = file \o b
    /\ pos' = Len(file) + Len(b)
    /\ UNCHANGED <<isOpen, rw_mutex, call, disturbed, got, ret>>

Clear ==
    /\ isOpen
    /\ Quiet
    /\ isOpen' = FALSE
    /\ file' = <<>>
    /\ pos' = 0
    /\ UNCHANGED <<rw_mutex, call, disturbed, got, ret>>

(* MaxSize bounds the file, where a misplaced write would put its bytes too. *)
Next ==
    \/ Open
    \/ \E t \in Threads :
          \/ \E off \in 0..MaxSize, n \in 1..MaxLen : BeginRead(t, off, n)
          \/ \E off \in 0..MaxSize, b \in Memory!Buffers :
                off + Len(b) <= MaxSize /\ BeginWrite(t, off, b)
          \/ EndRead(t)
          \/ pos + Len(call[t].buf) <= MaxSize /\ EndWrite(t)
          \/ \E name \in Probes : ProbeClosed(t, name) \/ BeginProbe(t, name)
          \/ EndProbe(t)
          \/ BeginReadFully(t)
          \/ EndReadFully(t)
          \/ \E n \in 0..MaxSize : BeginTruncate(t, n)
          \/ EndTruncate(t)
    \/ \E b \in Memory!Buffers : Len(file) + Len(b) <= MaxSize /\ AppendBytes(b)
    \/ Clear

Spec == Init /\ [][Next]_vars

-----------------------------------------------------------------------------
(***************************************************************************)
(* file_storage.cpp, "concurrent access would destroy seek/tell sequence": *)
(* rw_mutex keeps reads and writes from each other, so between seek and    *)
(* transfer the position stays, unless a call without the mutex comes in   *)
(* between.  Such a call does destroy the sequence, but only so far: the   *)
(* transfer then starts at the beginning or at the end of the file, or     *)
(* finds the stream closed.                                                *)
(***************************************************************************)
SeekIsKept ==
    \A t \in Threads : call[t].name \in Transfers =>
        /\ t \notin disturbed => isOpen /\ pos = call[t].off
        /\ isOpen => pos \in {call[t].off, 0, Len(file)}

(* What the storage in memory promises for the call that t ends. *)
Promised(t) ==
    /\ call[t] # NoCall /\ call'[t] = NoCall
    /\ \/ call[t].name = "read" /\ Memory!Read(call[t].off, call[t].len)
       \/ call[t].name = "write" /\ Memory!Write(call[t].off, call[t].buf)
       \/ call[t].name = "size" /\ Memory!Size
       \/ call[t].name = "empty" /\ Memory!Empty
       \/ call[t].name = "readFully" /\ Memory!ReadFully
       \/ call[t].name = "truncate" /\ Memory!Truncate(call[t].off)

(***************************************************************************)
(* What is left of that for a call that was disturbed: a read gets what is *)
(* at the place it asked for, or at the beginning, or nothing; the bytes   *)
(* of a write are at the place asked for, the beginning or the end, or     *)
(* nowhere; size, empty and readFully get some answer.                     *)
(***************************************************************************)
Misplaced(t) ==
    /\ t \in disturbed
    /\ call[t] # NoCall /\ call'[t] = NoCall
    /\ \/ /\ call[t].name = "read"
          /\ \E p \in {call[t].off, 0, Len(file)} :
                got' = Memory!BytesAt(file, p, call[t].len)
          /\ ret' = Len(got') /\ UNCHANGED file
       \/ /\ call[t].name = "write"
          /\ \/ UNCHANGED file
             \/ \E p \in {call[t].off, 0, Len(file)} :
                   file' = Memory!Overwrite(file, p, call[t].buf)
          /\ UNCHANGED got
       \/ call[t].name \in Probes /\ UNCHANGED <<file, got>>
       \/ call[t].name = "readFully" /\ UNCHANGED <<file, ret>>

(* size and empty while a truncate has the stream closed. *)
AskedWhileClosed == Reopening /\ UNCHANGED <<file, got>>

(***************************************************************************)
(* The choice of a cache directory cannot be seen, the int arithmetic of   *)
(* write included, by a call that no call without rw_mutex has come        *)
(* between: it answers what the storage in memory would answer.  One that  *)
(* was disturbed may be misplaced, and nothing worse.                      *)
(***************************************************************************)
ImplementsMemory ==
    /\ Memory!MemoryInit
    /\ [][\/ \E t \in Threads : Promised(t) \/ Misplaced(t)
          \/ Quiet /\ Memory!MemoryNext
          \/ AskedWhileClosed]_(Memory!memoryVars)
=============================================================================
