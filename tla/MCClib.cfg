\* Two threads, two loads, an input the engine accepts, one it rejects and one
\* it panics on; liveness, so no symmetry.
SPECIFICATION FairSpec
CONSTANTS
    Threads = {t1, t2}
    Engines = {e1, e2}
    CallerHandles = {0, 1, 2}
    Sources = {"good", "bad", "crash"}
    Verdict <- MCVerdict
INVARIANTS NeverTorn EnginePrivate
PROPERTIES TableStable Linearizable EveryCallReturns HungParseHarmsNoRegistry
