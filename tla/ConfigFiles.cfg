\* Four goroutines; the process ends twice and is started again once.
CONSTANT MaxCrashes = 1
SPECIFICATION Spec
INVARIANTS TypeOK WaitGroupCounts NodeStartsOnWholeFiles
PROPERTIES RunningNodeKeepsFiles ImplementsTopologyCall StartsOrDies
