SPECIFICATION ThreadSpec
CONSTANT Threads = {w1, w2}
INVARIANT DeletedThreadIsFreed
