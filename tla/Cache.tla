------------------------------- MODULE Cache -------------------------------
(***************************************************************************)
(* The store-and-forward buffer of cache.h over disk_cache.cpp.  Packets   *)
(* are kept in memory up to a limit, then appended to a temporary file as  *)
(* records; flushAll() hands the memory list and then the file to the host *)
(* until the host refuses one.  A file has one position for reading and    *)
(* writing, which write() moves to the end and back.                       *)
(***************************************************************************)
EXTENDS Integers, Sequences, SequencesExt, FiniteSetsExt, Functions

CONSTANTS
  Lens,          \* lengths of packets
  MaxInMem,      \* MAX_LEN_CACHE_IN_MEM
  MaxPackets,    \* bound: packets cached in a behaviour
  MaxDiskFaults  \* bound: failing writes to the file

ASSUME CacheAssumption ==
  /\ Lens \subseteq Nat \ {0} /\ MaxInMem \in Nat
  /\ MaxPackets \in Nat /\ MaxDiskFaults \in Nat

Packets == [id : 1 .. MaxPackets, len : Lens]

VARIABLES
  mem,        \* mCachedList
  file,       \* the records of mpFile
  rd,         \* the record at the file's position
  lenMem,     \* mLenCacheInMem
  lenFile,    \* mLenCacheInFile
  accepted,   \* packets given to cache(), in order
  out,        \* packets the host took from flushAll(), in order
  diskFaults

vars == <<mem, file, rd, lenMem, lenFile, accepted, out, diskFaults>>

Total(ps) ==
  LET sum[i \in 0 .. Len(ps)] == IF i = 0 THEN 0 ELSE sum[i - 1] + ps[i].len
  IN  sum[Len(ps)]
Unread == SubSeq(file, rd, Len(file))

TypeOK ==
  /\ mem \in Seq(Packets) /\ file \in Seq(Packets)
  /\ rd \in 1 .. Len(file) + 1
  /\ lenMem \in Nat /\ lenFile \in Nat
  /\ accepted \in Seq(Packets) /\ out \in Seq(Packets)
  /\ diskFaults \in 0 .. MaxDiskFaults

Init ==
  /\ mem = <<>> /\ file = <<>> /\ rd = 1
  /\ lenMem = 0 /\ lenFile = 0
  /\ accepted = <<>> /\ out = <<>>
  /\ diskFaults = 0

\* DiskCache::write() puts the position back to what is unread; when fwrite
\* fails it returns with the position at the end, behind any torn record.
Write(p) ==
  /\ file' = Append(file, p)
  /\ rd' = rd

WriteFails ==
  /\ diskFaults < MaxDiskFaults /\ diskFaults' = diskFaults + 1
  /\ rd' = Len(file) + 1
  /\ UNCHANGED file

\* Once something is on disk, everything follows it there.
OnlyIfFull(p) == lenMem + p.len > MaxInMem      \* mutation: mem refills first
ToDisk(p) == lenMem + p.len > MaxInMem \/ lenFile > 0

KeepUncounted(p) ==               \* mutation: mLenCacheInMem is not raised
  /\ mem' = Append(mem, p)
  /\ UNCHANGED <<lenMem, lenFile>>
KeepInMem(p) ==
  /\ mem' = Append(mem, p)
  /\ lenMem' = lenMem + p.len
  /\ UNCHANGED lenFile

\* Cache::cache(), with the fallback to memory when the disk refuses.
DoCache ==
  /\ Len(accepted) < MaxPackets
  /\ \E len \in Lens :
       LET p == [id |-> Len(accepted) + 1, len |-> len] IN
       /\ accepted' = Append(accepted, p)
       /\ \/ /\ ToDisk(p) /\ Write(p)
             /\ lenFile' = lenFile + p.len
             /\ UNCHANGED <<mem, lenMem, diskFaults>>
          \/ ToDisk(p) /\ WriteFails /\ KeepInMem(p)
          \/ ~ToDisk(p) /\ KeepInMem(p) /\ UNCHANGED <<file, rd, diskFaults>>
  /\ UNCHANGED out

\* DiskCache::rollback() after the host refused a record that was read.
NoRollback(refused) == IF refused THEN 1 ELSE 0      \* mutation: stays behind it
RollbackTwice(refused) == IF refused /\ rd > 1 THEN -1 ELSE 0  \* mutation: a record too far
Rollback(refused) == 0

\* Cache::flushAll(): the host takes the first n packets, all or until it
\* refuses one; the file is reached when the memory list is empty.
FlushAll ==
  \E n \in 0 .. Len(mem) + Len(Unread) :
    LET k == Min({n, Len(mem)})
        j == n - k
        refused == n >= Len(mem) /\ n < Len(mem) + Len(Unread)
    IN
    /\ out' = out \o SubSeq(mem \o Unread, 1, n)
    /\ mem' = SubSeq(mem, k + 1, Len(mem))
    /\ lenMem' = lenMem - Total(SubSeq(mem, 1, k))
    /\ rd' = rd + j + Rollback(refused)
    /\ lenFile' = lenFile - Total(SubSeq(Unread, 1, j))
    /\ UNCHANGED <<file, accepted, diskFaults>>

Next == DoCache \/ FlushAll

Spec == Init /\ [][Next]_vars

-----------------------------------------------------------------------------
\* Until a write to the file fails, memory and disk together are one queue:
\* nothing is lost, repeated or overtaken (cache.h, disk_cache.cpp).
Abstract == INSTANCE Fifo WITH in <- accepted, queue <- mem \o Unread
IsFifo ==
  /\ Abstract!Init
  /\ [][diskFaults' = 0 => Abstract!Next]_<<accepted, mem \o Unread, out>>

\* Types, and empty(), which reads only the counters, tells whether anything is left;
\* FastConnection::_flushAll relies on it.  After a failing write the counter
\* of the file may stay up, but an empty cache still keeps nothing back.
Empty == lenMem = 0 /\ lenFile = 0
EmptyIsExact ==
  /\ TypeOK
  /\ Empty => mem \o Unread = <<>>
  /\ diskFaults = 0 /\ mem \o Unread = <<>> => Empty

\* Even when the disk fails, nothing is flushed twice.
NeverTwice == \A i, j \in DOMAIN out : out[i].id = out[j].id => i = j

=============================================================================
