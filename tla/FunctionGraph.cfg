\* Every function of five blocks, of five kinds each, whose loops are in one of eight forests.
SPECIFICATION FunctionSpec
CONSTANTS
    Functions <- MCFunctions
INVARIANTS KeepsNesting CallsAreFound
