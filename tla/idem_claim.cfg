CONSTANT Workers = {w1, w2, w3}
SPECIFICATION IdemSpec
INVARIANT ClaimOnce
