CONSTANTS
  Opcodes <- MCOpcodes
  Nil = Nil
  False = False
SPECIFICATION Spec
INVARIANTS
  CCBytecodeIntact
