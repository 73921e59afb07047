--------------------------------- MODULE TCR ---------------------------------
(***************************************************************************)
(* The token-curated registry of Contracts/contracts/tcr/src/lib.rs.       *)
(* Listings and challenges are both stored under their number, in one key  *)
(* space: whichever is written last under a number is what the other sees. *)
(* Reading a record of the wrong type panics.  Deposits and votes are      *)
(* amounts on record; the contract moves no tokens.                        *)
(***************************************************************************)
EXTENDS Ledger

CONSTANTS
  Deposits, VoteAmounts,
  Period,                        \* 604800 seconds
  MaxListings, MaxChallenges, MaxVotes  \* bounds of the exploration

VARIABLES
  numbered,   \* instance storage under u32 keys: number -> Listing or Challenge
  L_COUNT, C_COUNT,
  voteStake   \* <<voter, challenge_id>> -> amount

tcrVars == <<numbered, L_COUNT, C_COUNT, voteStake>>

Listing == [is : {"Listing"}, applicant : Users, deposit : Deposits,
            status : {"Pending", "Challenged", "Approved", "Rejected"},
            challenge_id : 0 .. MaxChallenges, expiry : Nat]
Challenge == [is : {"Challenge"}, challenger : Users, listing_id : 1 .. MaxListings,
              deposit : Deposits, votes_for : Int, votes_against : Int,
              end_time : Nat, resolved : BOOLEAN]

TcrTypeOK ==
  /\ L_COUNT \in 0 .. MaxListings /\ C_COUNT \in 0 .. MaxChallenges
  /\ DOMAIN numbered \subseteq 1 .. (MaxListings + MaxChallenges)
  /\ \A n \in DOMAIN numbered : numbered[n] \in Listing \/ numbered[n] \in Challenge

TcrInit == numbered = Empty /\ L_COUNT = 0 /\ C_COUNT = 0 /\ voteStake = Empty

\* storage().get::<T>(n) returned a record of the type asked for.
Loads(n, type) == Has(numbered, n) /\ numbered[n].is = type
StakeOf(voter, challenge) ==
  IF Has(voteStake, <<voter, challenge>>) THEN voteStake[<<voter, challenge>>] ELSE 0

apply(applicant, amount) ==
  /\ L_COUNT < MaxListings
  /\ L_COUNT' = L_COUNT + 1
  /\ numbered' = Put(numbered, L_COUNT + 1,
       [is |-> "Listing", applicant |-> applicant, deposit |-> amount,
        status |-> "Pending", challenge_id |-> 0, expiry |-> now + Period])
  /\ UNCHANGED <<now, C_COUNT, voteStake>>

\* The listing is written first, then the challenge under its own number.
challenge(challenger, listing_id, amount) ==
  /\ C_COUNT < MaxChallenges
  /\ Loads(listing_id, "Listing")
  /\ numbered[listing_id].status = "Pending"
  /\ amount >= numbered[listing_id].deposit
  /\ C_COUNT' = C_COUNT + 1
  /\ LET listing == [numbered[listing_id] EXCEPT !.status = "Challenged",
                                                 !.challenge_id = C_COUNT + 1]
     IN  numbered' = Put(Put(numbered, listing_id, listing), C_COUNT + 1,
           [is |-> "Challenge", challenger |-> challenger, listing_id |-> listing_id,
            deposit |-> amount, votes_for |-> 0, votes_against |-> 0,
            end_time |-> now + Period, resolved |-> FALSE])
  /\ UNCHANGED <<now, L_COUNT, voteStake>>

\* A bug this module must not have: a second vote replaces the voter's stake.
vote_replaces_stake(voter, id, side, amount) ==
  /\ Loads(id, "Challenge")
  /\ ~numbered[id].resolved
  /\ now < numbered[id].end_time
  /\ numbered' = [numbered EXCEPT ![id].votes_for = IF side THEN @ + amount ELSE @,
                                  ![id].votes_against = IF side THEN @ ELSE @ + amount]
  /\ voteStake' = Put(voteStake, <<voter, id>>, amount)
  /\ UNCHANGED <<now, L_COUNT, C_COUNT>>

vote(voter, id, side, amount) ==
  /\ Loads(id, "Challenge")
  /\ ~numbered[id].resolved
  /\ now < numbered[id].end_time
  /\ numbered' = [numbered EXCEPT ![id].votes_for = IF side THEN @ + amount ELSE @,
                                  ![id].votes_against = IF side THEN @ ELSE @ + amount]
  /\ voteStake' = Put(voteStake, <<voter, id>>, StakeOf(voter, id) + amount)
  /\ UNCHANGED <<now, L_COUNT, C_COUNT>>

resolve(listing_id) ==
  /\ Loads(listing_id, "Listing")
  /\ LET listing == numbered[listing_id]
         c       == numbered[listing.challenge_id]
     IN  \/ /\ listing.status = "Challenged"
            /\ Loads(listing.challenge_id, "Challenge")
            /\ now >= c.end_time
            /\ ~c.resolved
            /\ numbered' = [numbered EXCEPT
                 ![listing.challenge_id].resolved = TRUE,
                 ![listing_id].status = IF c.votes_for > c.votes_against
                                        THEN "Approved" ELSE "Rejected"]
         \/ /\ listing.status = "Pending"
            /\ now >= listing.expiry
            /\ numbered' = [numbered EXCEPT ![listing_id].status = "Approved"]
  /\ UNCHANGED <<now, L_COUNT, C_COUNT, voteStake>>

TcrNext ==
  \/ \E u \in Users, d \in Deposits : apply(u, d)
  \/ \E u \in Users, l \in 1 .. L_COUNT, d \in Deposits : challenge(u, l, d)
  \/ /\ Cardinality(DOMAIN voteStake) < MaxVotes
     /\ \E u \in Users, c \in 1 .. C_COUNT, s \in BOOLEAN, n \in VoteAmounts :
          StakeOf(u, c) + n <= MaxVotes /\ vote(u, c, s, n)
  \/ \E l \in 1 .. L_COUNT : resolve(l)
  \/ CloseLedger /\ UNCHANGED tcrVars

-----------------------------------------------------------------------------
\* The votes of a challenge are the stakes put on it: what the voters are on
\* record with under a challenge adds up to its two tallies, for every challenge
\* that can still be read.
VotesAreStakes ==
  \A c \in DOMAIN numbered : Loads(c, "Challenge") =>
    numbered[c].votes_for + numbered[c].votes_against = SumOver(Users, LAMBDA u : StakeOf(u, c))

\* What challenge and resolve expect ("Listing not found"): a listing that apply
\* numbered is there to be read until the end.
ListingsFound == \A l \in 1 .. L_COUNT : Loads(l, "Listing")
=============================================================================
