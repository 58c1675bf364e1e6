CONSTANTS
    None = None
    SaltBytes <- MCSaltBytes
    Responses <- MCResponses
    EmptyPassword = ""
    Passwords = {"", "pw", "other"}
SPECIFICATION Spec
INVARIANTS
    TypeOK
    
    Argon2ParamsAccepted
    
    UnlocksExactly
