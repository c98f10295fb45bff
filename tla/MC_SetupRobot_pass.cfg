CONSTANTS
    r1 = r1
    r2 = r2
    nsApp = nsApp
    nsDefault = nsDefault
    nsZ = nsZ
    noRobot = noRobot
    RobotNames <- MCRobotNames
    NsList <- MCNsList
    BaseNs = nsDefault
    None = noRobot
    Retries = 6
    CfgComplete = TRUE
    MaxFaults = 1
    MaxRuns = 3
SPECIFICATION Spec
INVARIANTS TypeOK SetupCompleteImpliesRegistered ServedCertStaleOnlyAfterGetError ParseKeyValuesMatchesReference
PROPERTIES SetupTerminates
CHECK_DEADLOCK FALSE
