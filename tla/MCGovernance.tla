---------------------------- MODULE MCGovernance ----------------------------
(* A small instance of Governance for TLC. *)
EXTENDS Governance, TLC

CONSTANTS a, b, c

MCAddr == {a, b, c}

\* A list without and one with a repeated address, and one that is not
\* covered by the other.
MCApproverLists == {<<a>>, <<a, b>>, <<b, c, b>>}

MCDelays == {0, 1, 7}
=============================================================================
