CONSTANTS
    r1 = r1
    r2 = r2
    nsApp = nsApp
    nsDefault = nsDefault
    nsZ = nsZ
    noRobot = noRobot
    RobotNames <- MCRobotNames
    NsList <- MCNsList
    BaseNs = nsDefault
    None = noRobot
    Retries = 6
    CfgComplete = TRUE
    MaxFaults = 0
    MaxRuns = 2
SPECIFICATION Spec
INVARIANT LocalSetupComplete
CHECK_DEADLOCK FALSE
