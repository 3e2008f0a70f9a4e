SPECIFICATION ScriptSpec
CONSTANTS
  MaxInput = 10
  Inputs <- MCInputs
  Damage = {0, 3, 128, 240}
  MinMatch = 4
  MaxMatch = 5
  MaxOffset = 3
  MaxLiteral = 3
  Slack = 1
  BitXor <- MCXor
  Mask <- MCMask
  HashBasis = 197
  HashPrime = 147
  HashModulus = 256
  Programs <- MCPrograms
  MaxEdited = 8
  Writers = {w1, w2}
  Readers = {r}
  Texts = {t1, t2}
  Keys = {k1}
  NoKey = NoKey
  BadKey = BadKey
  NoText = NoText
  NoFile = NoFile
  NoProc = NoProc
  EmptyText = EmptyText
  Garbled = Garbled
  MaxEdits = 1
SYMMETRY Symmetry
CHECK_DEADLOCK FALSE
INVARIANTS
  RoundTrip
  DecodeInBounds
  DamageDetected
  DecodeSound
  BuildStands
  ParsesGrammar
