SPECIFICATION Spec
CONSTANTS
    Pieces <- MCPieces
    StreamIDs <- MCStreamIDs
    Requests <- MCRequests
    MaxChanges = 4
INVARIANTS
    
    CwdIsDirectory
    Reachable
