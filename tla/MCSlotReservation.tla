------------------------- MODULE MCSlotReservation --------------------------
EXTENDS SlotReservation, TLC

\* Workers are interchangeable.
WorkerSymmetry == Permutations(Workers)
=============================================================================
