CONSTANTS
    Workers = {w1, w2}
    Masters = {m1, m2}
    None = None
    nBatchSize = 2
    MaxChecks = 4
SPECIFICATION Spec
INVARIANTS NoCheckOutlivesControl
PROPERTY RefinesRounds
