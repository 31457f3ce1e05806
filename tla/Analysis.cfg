SPECIFICATION ThreadSpec
CONSTANTS
    Functions <- MCFunctions
    Sites <- MCSites
    Main = "main"
    Body <- MCBody
    Libs <- MCLibs
    Inputs <- MCInputs
INVARIANTS TypeOK TreeShaped EdgesAreCalls NoReentry EveryContextExpanded CalleesWereSampled SamplesLandInContext ThreadsAreChains JoinsFollowTheirThread
