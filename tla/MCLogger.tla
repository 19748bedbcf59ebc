------------------------------ MODULE MCLogger ------------------------------
(* Two batches, one with a logger of its own that SetLogger may also make    *)
(* global, and a second logger on another writer.                            *)
EXTENDS Logger

CONSTANTS own, other, w1, w2, w3, b1, b2

MCLoggers == {own, other}

MCWriterOf == [l \in MCLoggers |-> l]

MCWorkers == {w1, w2, w3}

MCBatches == {b1, b2}

MCBatchOf == [w \in MCWorkers |-> IF w = w3 THEN b2 ELSE b1]

MCOwn == [b \in MCBatches |-> IF b = b2 THEN own ELSE None]
=============================================================================
