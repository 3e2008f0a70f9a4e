----------------------------- MODULE IOBufferPool -----------------------------
(***************************************************************************)
(* IO::AsyncIO::IOBufferPool: vectors in buckets of doubling sizes.  Each  *)
(* call is one critical section of a bucket, but for Clear, which takes    *)
(* the locks of the buckets in turn: others may come between, so that one  *)
(* bucket at a time is cleared.                                            *)
(***************************************************************************)
EXTENDS Integers, FiniteSets, SequencesExt

CONSTANTS Buffers,          \* the addresses of vectors
          MinBucket, MaxBucket, MaxPerBucket,
          Sizes             \* the sizes asked for and grown to

ASSUME BucketAssumption ==
  /\ Sizes \subseteq Nat /\ MaxPerBucket \in Nat
  /\ MinBucket \in Nat \ {0} /\ MaxBucket \in Nat /\ MinBucket <= MaxBucket

\* The sizes of buckets, a size_t shifted by one bit at a time.
Doubled[k \in 0 .. 64] == IF k = 0 THEN MinBucket ELSE 2 * Doubled[k - 1]
ASSUME SizeAssumption == \E k \in 0 .. 63 : Doubled[k + 1] > MaxBucket

VARIABLES freeList,         \* the vectors of each bucket
          capacity,         \* the capacity of each vector, 0 if there is none
          lent              \* the sizes asked for, of the vectors that are held

bucketVars == <<freeList, capacity, lent>>

Least(P(_)) == CHOOSE k \in 0 .. 64 : P(k) /\ \A i \in 0 .. k - 1 : ~P(i)

\* The constructor makes a bucket for each doubling up to the maximum.
LastBucket == Least(LAMBDA k : Doubled[k + 1] > MaxBucket)
Buckets == 0 .. LastBucket

RoundUpToBucket(size) ==
  LET r == Doubled[Least(LAMBDA k : Doubled[k] >= size \/ Doubled[k] >= MaxBucket)]
  IN IF r < size THEN size ELSE r

\* Fault: one bucket too low.
BucketIndexTooLow(size) ==
  LET r == RoundUpToBucket(size)
      k == Least(LAMBDA n : n = LastBucket \/ Doubled[n] >= r)
  IN IF k = 0 THEN 0 ELSE k - 1

BucketIndexForSize(size) ==
  LET r == RoundUpToBucket(size)
  IN Least(LAMBDA k : k = LastBucket \/ Doubled[k] >= r)

Larger(a, b) == IF a < b THEN b ELSE a

\* Acquire: the vector last freed in the bucket, or a new one.
AcquireVector(size) ==
  LET k == BucketIndexForSize(RoundUpToBucket(size)) IN
  /\ \E v \in Buffers :
       /\ IF freeList[k] # <<>>
          THEN /\ v = Last(freeList[k])
               /\ freeList' = [freeList EXCEPT ![k] = Front(@)]
               /\ capacity' = [capacity EXCEPT ![v] = Larger(@, Doubled[k])]
          ELSE /\ capacity[v] = 0
               /\ capacity' = [capacity EXCEPT ![v] = RoundUpToBucket(size)]
               /\ UNCHANGED freeList
       /\ lent' = [lent EXCEPT ![v] = {size}]

\* The holder writes more into it than its capacity.
Grow(v, size) ==
  /\ lent[v] # {} /\ size > capacity[v]
  /\ capacity' = [capacity EXCEPT ![v] = size]
  /\ UNCHANGED <<freeList, lent>>

\* Release, the deleter of the last shared_ptr.
Release(v) ==
  LET size == RoundUpToBucket(capacity[v])
      k == BucketIndexForSize(size)
  IN /\ lent[v] # {} /\ lent' = [lent EXCEPT ![v] = {}]
     /\ IF size > MaxBucket \/ size < MinBucket \/ Len(freeList[k]) >= MaxPerBucket
        THEN capacity' = [capacity EXCEPT ![v] = 0] /\ UNCHANGED freeList
        ELSE freeList' = [freeList EXCEPT ![k] = Append(@, v)] /\ UNCHANGED capacity
   
ClearBucket(k) ==
  /\ freeList[k] # <<>>
  /\ capacity' = [v \in Buffers |-> IF v \in ToSet(freeList[k]) THEN 0 ELSE capacity[v]]
  /\ freeList' = [freeList EXCEPT ![k] = <<>>]
  /\ UNCHANGED lent

BucketsInit ==
  /\ freeList = [k \in Buckets |-> <<>>]
  /\ capacity = [v \in Buffers |-> 0] /\ lent = [v \in Buffers |-> {}]

BucketsNext ==
  \/ \E n \in Sizes : AcquireVector(n) \/ \E v \in Buffers : Grow(v, n)
  \/ \E v \in Buffers : Release(v)
  \/ \E k \in Buckets : ClearBucket(k)

BucketsSpec == BucketsInit /\ [][BucketsNext]_bucketVars

\* A vector is in one free list, once, or it is held, or it is deleted; and a
\* request that fits the largest bucket gets a vector of at least its size,
\* whatever sizes the vectors that came back had grown to.
VectorsFit ==
  /\ \A v \in Buffers :
       LET places == {p \in Buckets \X (1 .. MaxPerBucket) :
                        p[2] <= Len(freeList[p[1]]) /\ freeList[p[1]][p[2]] = v}
       IN Cardinality(places) + Cardinality(lent[v]) = (IF capacity[v] = 0 THEN 0 ELSE 1)
  /\ \A v \in Buffers : \A size \in lent[v] :
       size <= Doubled[LastBucket] => capacity[v] >= size
  /\ \A k \in Buckets : Len(freeList[k]) <= MaxPerBucket
=============================================================================
