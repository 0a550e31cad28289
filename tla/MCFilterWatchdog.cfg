SPECIFICATION Spec
CONSTANT MaxFailures = 2
INVARIANTS TypeOK CycleComplete
PROPERTIES DriverlessClassesCleared MissingFiltersRestored
