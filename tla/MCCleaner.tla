------------------------------ MODULE MCCleaner ------------------------------
EXTENDS Cleaner, TLC
Symmetry == Permutations(Runs)

\* A scheduler without a client only shows that its runs panic: no call fails.
MCInit == Init /\ faults = IF clientSet THEN MaxFaults ELSE 0
MCSpec == MCInit /\ [][Next]_cleanerVars
=============================================================================
