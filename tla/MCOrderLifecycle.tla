-------------------------- MODULE MCOrderLifecycle --------------------------
EXTENDS OrderLifecycle, TLC

\* Orders are interchangeable unless one of them is a legacy row; workers and
\* uuids always are.
WorkerSymmetry == Permutations(Requests) \cup Permutations(Codes)
=============================================================================
