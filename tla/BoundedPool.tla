---------------------------- MODULE BoundedPool ----------------------------
(***************************************************************************)
(* What a bounded buffer pool promises its callers, without any counter:   *)
(* the buffers on loan never exceed a number of buffers nor a number of    *)
(* bytes.  BufferPool, the lock-free pool of cheetah-media-types, is shown *)
(* to implement it.                                                        *)
(***************************************************************************)
EXTENDS Integers, FiniteSets

CONSTANTS Clients,        \* buffer lifetimes that may be outstanding at once
          MaxCount,       \* BufferPoolConfig::max_count
          MaxTotalBytes,  \* BufferPoolConfig::max_total_bytes
          MaxObjectSize   \* BufferPoolConfig::max_object_size

VARIABLE lease            \* size of the buffer a client has on loan, or NoLease

NoLease == -1

Loans == {c \in Clients : lease[c] # NoLease}

\* One element per byte on loan, so that its cardinality is the byte total.
LoanedBytes == UNION {{c} \X (1..lease[c]) : c \in Loans}

TypeOK == lease \in [Clients -> {NoLease} \cup (0..MaxObjectSize)]

Init == lease = [c \in Clients |-> NoLease]

\* A buffer is lent only while the count and the bytes stay within the limits.
Lend(c, s) ==
  /\ lease[c] = NoLease
  /\ Cardinality(Loans) + 1 <= MaxCount
  /\ Cardinality(LoanedBytes) + s <= MaxTotalBytes
  /\ lease' = [lease EXCEPT ![c] = s]

Return(c) ==
  /\ lease[c] # NoLease
  /\ lease' = [lease EXCEPT ![c] = NoLease]

Next ==
  \/ \E c \in Clients, s \in 0..MaxObjectSize : Lend(c, s)
  \/ \E c \in Clients : Return(c)

Spec == Init /\ [][Next]_lease
=============================================================================
