SPECIFICATION Spec
CONSTANTS
  Txs = {"t1", "t2"}
  Code <- MCCode
  Content <- MCContent
  Workers = {w1, w2}
  MaxLog = 2
SYMMETRY WorkerSymmetry
INVARIANTS CodesStored ReadsBack DBInv
