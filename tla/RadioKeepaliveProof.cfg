CONSTANTS MaxSends = 4 Disturbed = FALSE
SPECIFICATION Spec
INVARIANT ProofIsCausal
