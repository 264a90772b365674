SPECIFICATION Spec
CONSTANTS
    Handlers <- MCHandlers
    Codes <- MCCodes
INVARIANTS
    NoErrorSwallowed
    ErrorIsOwn
