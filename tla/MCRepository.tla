---------------------------- MODULE MCRepository ----------------------------
\* Two sessions; the ways to ask get() for a lock, the rejected ones included.
EXTENDS Repository, TLC

SessionSymmetry == Permutations(Sessions)

Legacy(for_update, nowait, skip_locked, include_deleted) ==
    [for_update |-> for_update, nowait |-> nowait, skip_locked |-> skip_locked,
     lock |-> NoRowLock, include_deleted |-> include_deleted]

With(lock) == [Legacy(FALSE, FALSE, FALSE, FALSE) EXCEPT !.lock = lock]

MCGetArguments ==
    {Legacy(FALSE, FALSE, FALSE, TRUE), Legacy(TRUE, FALSE, FALSE, FALSE),
     Legacy(TRUE, FALSE, TRUE, TRUE), Legacy(TRUE, TRUE, TRUE, FALSE),
     Legacy(FALSE, TRUE, FALSE, FALSE), With(RowLock(TRUE, FALSE)), With(RowLock(TRUE, TRUE)),
     With([RowLock(FALSE, FALSE) EXCEPT !.read = TRUE]),
     With([RowLock(FALSE, FALSE) EXCEPT !.key_share = TRUE]),
     With([RowLock(FALSE, FALSE) EXCEPT !.read = TRUE, !.key_share = TRUE])}
=============================================================================
