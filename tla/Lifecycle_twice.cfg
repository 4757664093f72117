SPECIFICATION Spec
CONSTANTS
    p1 = p1
    Projects = {p1}
    Stages <- LastStages
    NoStage = "none"
    Tasks <- SomeTasks
    TaskGate <- TaskGates
    StageGate <- StageGates
    Scores = {94, 95, 97, 100}
    MaxEvents = 15
    MaxArtifacts = 4
CHECK_DEADLOCK FALSE
INVARIANTS
    TwoFailuresEscalate
