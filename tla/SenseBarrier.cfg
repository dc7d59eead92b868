SPECIFICATION FairSpec
CONSTANT Threads = {t1, t2, t3, t4}
INVARIANTS IInv CountExact
PROPERTIES Implements ReleaseFollows AllDepart
CHECK_DEADLOCK FALSE
