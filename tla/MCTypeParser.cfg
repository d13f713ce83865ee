SPECIFICATION Spec
CONSTANTS
  Basic = {"sint16", "sint32"}
  Word = {"foo_t", "a"}
  Mentioned <- MCMentioned
  Member <- MCMember
  Alias = {"a", "foo_t"}
  Lang = {"C", "Foo", "Bar"}
  DefaultLang = "C"
  NativeMap <- MCNativeMap
  LangAbi <- MCLangAbi
  Abi = {"default", "stdcall"}
  DefaultAbi = "default"
  None = "none"
  Version = 2
  MaxType = 4
  MaxFunction = 1
INVARIANTS TypeOK TypesOutlive UnitsAgree
PROPERTY NamesStable
