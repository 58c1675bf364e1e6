CONSTANTS
    userKey = userKey
    orgKey = orgKey
    itemKey = itemKey
    Malformed = Malformed
    Blank = Blank
    None = None
    UserKey = userKey
    KeyMaterial = {itemKey}
    Vaults <- MCVaults
    Requests <- MCRequests
    Stripped <- MCStripped
    Attachments = {"attachment.a"}
SPECIFICATION Spec
INVARIANTS
    WholeItemKeepsConventional
