-------------------------- MODULE MCClientLedger --------------------------
EXTENDS ClientLedger, TLC

Fresh == [NoRow EXCEPT !.name = "own", !.enable = TRUE]

\* A quota, with resets, the first after a second, or with an expiry.
LedgerRows == {[Fresh EXCEPT !.volume = 1, !.auto = TRUE, !.next = 1],
               [Fresh EXCEPT !.volume = 1, !.expiry = 1]}

\* These, a quota whose period starts with the first use, of resets or not, a
\* quota and an expiry alone, and resets that are due.
QuotaRows ==
    LedgerRows \cup {[Fresh EXCEPT !.volume = 1, !.delay = TRUE, !.auto = a] : a \in BOOLEAN}
        \cup {[Fresh EXCEPT !.volume = 1], [Fresh EXCEPT !.expiry = 1],
              [Fresh EXCEPT !.volume = 1, !.auto = TRUE]}

JobSymmetry == Permutations(StatsJobs)

=============================================================================
