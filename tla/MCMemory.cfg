CONSTANTS
  MEM_SIZE = 5
  Values = {0, 7}
  Files <- MCFiles
SPECIFICATION Spec
PROPERTIES ImplementsFlatMemory
