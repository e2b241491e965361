\* The parts around the gate.
SPECIFICATION SceneSpec
CONSTANT None = None
CHECK_DEADLOCK FALSE
INVARIANTS PanelHolds FactorStands DetectionHolds KeysHold FederationHolds PullHolds EgressHolds
