---------------------------- MODULE UpgradeBallot ----------------------------
(***************************************************************************)
(* What upgrade governance promises, without roles, approver lists, status *)
(* words or u64 arithmetic: a ballot collects votes of distinct accounts,  *)
(* passes with the vote that makes its quorum, is enacted once, not before *)
(* its time, and can be dropped until then and never come back.            *)
(***************************************************************************)
EXTENDS Integers, Sequences, FiniteSets

CONSTANT Voter  \* the accounts that may vote

VARIABLES
  clock,
  ballots  \* the ballots opened, in order: [quorum, earliest, votes, outcome]

ballotVars == <<clock, ballots>>

BallotInit == clock = 0 /\ ballots = <<>>

TimePasses == clock' = clock + 1 /\ UNCHANGED ballots

Open ==
  /\ UNCHANGED clock
  /\ Len(ballots') = Len(ballots) + 1
  /\ \A i \in DOMAIN ballots : ballots'[i] = ballots[i]
  /\ LET new == ballots'[Len(ballots) + 1]
     IN  new.quorum > 0 /\ new.earliest >= clock /\ new.votes = {} /\ new.outcome = "open"

\* Ballot i becomes what is given, and nothing else changes.
Becomes(i, ballot) == UNCHANGED clock /\ ballots' = [ballots EXCEPT ![i] = ballot]

Vote(i, voter) ==
  LET votes == ballots[i].votes \cup {voter}
  IN  /\ ballots[i].outcome = "open" /\ voter \notin ballots[i].votes
      /\ Becomes(i, [ballots[i] EXCEPT
           !.votes = votes,
           !.outcome = IF Cardinality(votes) >= ballots[i].quorum THEN "passed" ELSE "open"])

Enact(i) ==
  /\ ballots[i].outcome = "passed" /\ clock >= ballots[i].earliest
  /\ Becomes(i, [ballots[i] EXCEPT !.outcome = "enacted"])

Drop(i) ==
  /\ ballots[i].outcome # "enacted"
  /\ Becomes(i, [ballots[i] EXCEPT !.outcome = "dropped"])

BallotNext ==
  \/ TimePasses
  \/ Open
  \/ \E i \in DOMAIN ballots : Enact(i) \/ Drop(i) \/ \E voter \in Voter : Vote(i, voter)

BallotSpec == BallotInit /\ [][BallotNext]_ballotVars
=============================================================================
