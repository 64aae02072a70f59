------------------------------ MODULE SingleUse ------------------------------
(***************************************************************************)
(* What the panel promises of everything it hands out for one use: the     *)
(* recovery codes of an administrator and the pending OIDC and passkey     *)
(* ceremonies.  A voucher is issued once, is accepted at most once, and    *)
(* after it was accepted or withdrawn it never comes back.  AdminAuth and  *)
(* Ceremonies are checked to implement it.                                 *)
(***************************************************************************)
EXTENDS Naturals

CONSTANT Vouchers

VARIABLES live,      \* issued, neither accepted nor withdrawn
          gone,      \* no longer live
          accepted   \* how often each was accepted by a request

Init ==
    /\ live \in SUBSET Vouchers
    /\ gone = {}
    /\ accepted = [v \in Vouchers |-> 0]

\* New vouchers are issued and old ones withdrawn.
Turnover ==
    \E New \in SUBSET (Vouchers \ (live \cup gone)), Old \in SUBSET live :
        /\ live' = (live \ Old) \cup New
        /\ gone' = gone \cup Old
        /\ UNCHANGED accepted

Accept ==
    \E v \in live :
        /\ live' = live \ {v}
        /\ gone' = gone \cup {v}
        /\ accepted' = [accepted EXCEPT ![v] = @ + 1]

Next == Turnover \/ Accept

Spec == Init /\ [][Next]_<<live, gone, accepted>>
=============================================================================
