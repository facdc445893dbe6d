CONSTANTS
    Cycle = 19
    Grace = 3
    MutationGrace = 2
    Fallback = 4
    MaxEvents = 4
    MaxLag = 2
SPECIFICATION FairSpec
INVARIANTS
    TypeOK
    GuardsAgree
    GuardsLast
    LoadsStayGuarded
PROPERTIES
    GuardsEnd
