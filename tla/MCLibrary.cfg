SPECIFICATION Spec
CONSTANTS
  Path = {"one", "two"}
  Symbol = {"f", "g", "init", "constant", "fini"}
  Name = {"f"}
  Exports <- MCExports
  MayFail = {"one", "two"}
  InitSym = "init"
  ConstantSym = "constant"
  FiniSym = "fini"
  Lang = {"C", "CPP"}
  BadLang = {"Gone"}
  DefaultLang = "C"
  LangMangled <- MCLangMangled
  OwnMangled <- ToG
  Own = "own"
  None = "none"
  MaxLib = 3
  MaxFunction = 2
  MaxBundle = 2
INVARIANTS TypeOK OpenAsNeeded ManglerCurrent
PROPERTY Unloads
CHECK_DEADLOCK FALSE
