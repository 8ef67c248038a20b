CONSTANTS
  ROM_WORD_COUNT = 1
  RAM_WORD_COUNT = 1
  RET = 100
  WORD = 101
  Sources <- MCSources
  Files <- MCFiles
CHECK_DEADLOCK FALSE
SPECIFICATION Spec
INVARIANTS
  WordsMeanTheirStatements
  RefusesOnlyTheUnencodable
  DisassemblyReassembles
  WordsRunAlike
