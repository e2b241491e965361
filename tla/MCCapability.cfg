\* Chains of up to three tokens, questions to the provers, chains of up to three receipts.
SPECIFICATION SceneSpec
CONSTANTS
    Grants <- MCGrants
    Asks <- MCAsks
    Calls <- MCCalls
    Proofs <- MCProofs
    Known = {"one", "two"}
    Up = Up
    None = None
    Word = Word
    MaxTokens = 3
    MaxTime = 1
CHECK_DEADLOCK FALSE
INVARIANTS NeverBroader AttenuationKeeps VerifiersConcur ProofsHold DelegationsHold
