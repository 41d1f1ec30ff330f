SPECIFICATION Spec
CONSTANT Builds <- FullSystemBuilds
INVARIANT BridgedRequestsStay
CHECK_DEADLOCK FALSE
