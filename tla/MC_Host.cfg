SPECIFICATION HostSpec
CONSTANTS
  global = global
  object = object
  sealed = sealed
  Objects = {global, object, sealed}
  Prototype <- MCPrototype
  Extensible = {global, object}
  None = None
  W = 4
  NaN = NaN
  Inf = Inf
  NegInf = NegInf
  Numeral <- MCNumeral
  Names <- MCNames
  Descs <- MCDescs
  Literals <- MCLiterals
  Programs <- MCPrograms
  MaxNumber = 2
  MaxLength = 2
INVARIANTS
  ByTheBook
  AsPlain
PROPERTIES
  Kept
  PutTakes
CHECK_DEADLOCK FALSE
