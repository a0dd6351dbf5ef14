SPECIFICATION Spec
CONSTANTS
    NoIdentity = NoIdentity
    NoText = NoText
    NoId = NoId
    UidModulus = 8
    Policies <- MCPolicies
    Callers <- MCCallers
    Requests <- MCRequests
    Texts <- MCTexts
    Globs <- MCGlobs
    Denote <- MCDenote
    Subst <- MCSubst
    Canonical <- MCCanonical
    Number <- MCNumber
CHECK_DEADLOCK FALSE
INVARIANTS
    TypeOK
    UnqualifiedIsPermitted
    GrantedIsListed
    
