---------------------------- MODULE MC_SetupRobot ----------------------------
EXTENDS SetupRobot, KeyValues

CONSTANTS r1, r2, nsApp, nsDefault, nsZ, noRobot

MCRobotNames == {r1, r2}
MCNsList == <<nsApp, nsDefault, nsZ>>

\* parseKeyValues accepts exactly the --labels and --annotations values
\* whose every entry, cut at the commas no backslash escapes, holds an "=",
\* and then maps each key to the value of its last entry, the escaped
\* commas restored.  The check does not depend on the state: TLC evaluates
\* it once and it holds in every state.
ParseKeyValuesMatchesReference == pc = pc /\ ParseMatchesReference
====
