SPECIFICATION Spec
CONSTANTS
  Tensors <- MCTensors
  Storages <- MCStorages
  MaxOps = 5
  Python = Python
CONSTRAINT Promised
INVARIANTS
  TypeOK SeesEager TaskSeesEager SettlesEager ReadyIsReady
VIEW View3
CHECK_DEADLOCK FALSE
