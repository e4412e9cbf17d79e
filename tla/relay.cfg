SPECIFICATION FairSpec
CONSTANTS
    Forwards = {"offer", "answer"}
    Answers = {"answer"}
    Nobody = "nobody"
    Sdp <- MCSdp
    Partner <- MCPartner
    Sources <- MCSources
    MaxNumber = 1
CHECK_DEADLOCK FALSE
INVARIANTS
    TypeOK
    PortsGivenBack
    OneSideStays
PROPERTIES
    OwnSessionOnly
    WindsDown
