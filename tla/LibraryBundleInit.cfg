SPECIFICATION Spec
CONSTANTS
  Path = {"one", "two"}
  Symbol = {"f", "g", "init", "constant", "fini"}
  Name = {"f"}
  Exports <- MCExports
  MayFail = {}
  InitSym = "init"
  ConstantSym = "constant"
  FiniSym = "fini"
  Lang = {"C", "CPP"}
  BadLang = {}
  DefaultLang = "C"
  LangMangled <- MCLangMangled
  OwnMangled <- ToG
  Own = "own"
  None = "none"
  MaxLib = 3
  MaxFunction = 2
  MaxBundle = 2
INVARIANT BundleInitialised
CHECK_DEADLOCK FALSE
