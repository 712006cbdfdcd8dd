SPECIFICATION Spec
CONSTANTS
    StackTop = 26
    CodeEnd = 1
    RegisterFiles <- MCRegisterFiles
    Junk = 999
INVARIANTS ContextRestored StackSpared FaultFramePassed
