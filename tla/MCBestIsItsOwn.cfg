\* One owned car and the default one.
SPECIFICATION Spec
CONSTANTS
    Cars = {k1}
    DefaultCar = DefaultCar
    NoCar = NoCar
    MaxLap = 2
    MaxBuilds = 3
INVARIANT BestIsItsOwn
CHECK_DEADLOCK FALSE
