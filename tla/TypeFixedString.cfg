SPECIFICATION Spec
CONSTANTS
  Basic = {"sint16", "sint32"}
  Word = {"foo_t", "a"}
  Mentioned <- MCMentionedFixed
  Member <- MCMember
  Alias = {"a"}
  Lang = {"C", "Foo"}
  DefaultLang = "C"
  NativeMap <- MCNativeMap
  LangAbi <- MCLangAbi
  Abi = {"default", "stdcall"}
  DefaultAbi = "default"
  None = "none"
  Version = 2
  MaxType = 4
  MaxFunction = 2
INVARIANT TypesOutlive
