CONSTANTS
    MaxPort = 3
    Options <- MC_Options
SPECIFICATION Spec
INVARIANT DebugFailsOnlyWhenPortsTaken
