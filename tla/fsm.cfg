SPECIFICATION FairSpec
INVARIANTS InFlightSound FaultExplained
PROPERTIES LegalTransitions NoAutonomousTakeoff FaultIsLeft
