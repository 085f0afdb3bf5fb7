--------------------------- MODULE VmgsAllocation ---------------------------
(* The allocator of the guest state file as the loop it is, against BestFit,
   what Vmgs says that it computes. *)
EXTENDS Vmgs, SequencesExt

\* Variant: the last gap wins over an earlier one of the same length.
ConsiderLast(scan, upto, n) ==
    LET free == upto - scan.end IN
    IF free >= n /\ (scan.free = 0 \/ free <= scan.free)
    THEN [scan EXCEPT !.best = scan.end, !.free = free, !.found = TRUE]
    ELSE scan

\* One gap, from the last allocation to the block that ends it.
Consider(scan, upto, n) ==
    LET free == upto - scan.end IN
    IF free >= n /\ (scan.free = 0 \/ free < scan.free)
    THEN [scan EXCEPT !.best = scan.end, !.free = free, !.found = TRUE]
    ELSE scan

\* allocate_helper: the gaps in front of the allocations, in order of their offsets,
\* and then the gap behind the last one.  0 stands for InsufficientResources.
allocate_helper(fcbs, n) ==
    LET allocations == {fcbs[id] : id \in {i \in Ids : fcbs[i].len > 0}}
        sorted == SetToSortSeq(allocations, LAMBDA a, b : a.at < b.at)
        start == [end |-> VMGS_MIN_FILE_BLOCK_OFFSET, best |-> 0, free |-> 0, found |-> FALSE]
        Visit(scan, fcb) == [Consider(scan, fcb.at, n) EXCEPT !.end = fcb.at + fcb.len]
        scanned == FoldLeft(Visit, start, sorted)
        all == IF scanned.end < Capacity THEN Consider(scanned, Capacity, n) ELSE scanned
    IN IF all.found THEN all.best ELSE 0

\* On every layout that an open store can have, fragmented by deletes, moves and
\* failed operations, the loop finds the block that BestFit describes, and none
\* exactly when no gap is long enough (allocate_helper).
AllocatorIsBestFit ==
    intact /\ pc = "idle" =>
      \A n \in 1 .. 3, o \in Blocks :
        BestFit(Used(state.fcbs), n, o) <=> allocate_helper(state.fcbs, n) = o

=============================================================================
