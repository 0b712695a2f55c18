SPECIFICATION Spec
CONSTANT PodSets <- SomePods
CONSTANT HostLists <- SomeHosts
CONSTANT NodeFlags <- SomeFlags
INVARIANT OfferIsFound
CHECK_DEADLOCK FALSE
