CONSTANTS
  a1 = a1  r1 = r1  a2 = a2  h1 = h1  h2 = h2
  t1 = t1  t2 = t2  hash = hash  o1 = o1
  NoTx = NoTx  NoRow = NoRow
  Event = {a1, a2, r1, h1, h2}
  PayloadLen <- MCPayloadLen
  AdmitOf <- MCAdmit
  RemoveOf <- MCRemove
  HeaderOf <- MCHeaderOf
  Inputs <- MCInputs
  BatchEvents = 2
  Consumers = {"mempool", "block_index"}
  FileCells = 9
  MaxAppends = 3
  MaxCrashes = 2
  ReadsMayFail = FALSE
SPECIFICATION MCSpec
INVARIANTS ReadersSeeWhole AckedOnDisk  
 
