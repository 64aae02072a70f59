------------------------------ MODULE MCIpInfo ------------------------------
(* Instance of IpInfo for TLC: one name and two addresses.                  *)
EXTENDS IpInfo
CONSTANTS h1, ip1, ip2

\* A name that comes twice, beside addresses one of which it may stand for: one
\* target more than the budget allows.
SomeLists == {<<h1, ip1, h1, ip2>>, <<h1, ip2, h1, ip1>>}

Symmetry == Permutations({ip1, ip2}) \cup Permutations(Workers)
=============================================================================
