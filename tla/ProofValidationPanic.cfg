SPECIFICATION Spec
CONSTANTS
    Proofs = {p1, p2}
    Kinds = {"good"}
    MaxResults = 1
    MaxTry = 2
PROPERTIES
    EachProofVerified
CHECK_DEADLOCK FALSE
