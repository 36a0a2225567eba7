CONSTANTS MaxSends = 6 Disturbed = TRUE
SPECIFICATION FairSpec
INVARIANTS IInv BacklogBounded CausalUntilFailure ConfirmedAreLogged
PROPERTY RoundEnds
