SPECIFICATION Spec
CONSTANTS
  MaxInt = 3
  Width = 3
  Bits <- ThreeBits
  Floats <- Represented
  FloatOf <- Rounded
  Truths <- Texts
  Adapters <- ThreeAdapters
  Paths <- AllPaths
  Written <- HandlerValues
  Providers <- SomeProviders
  Events <- SomeEvents
  Sources <- AllSources
  Evaluated <- Some
  MaxTokens = 5
  MaxEvent = 1
INVARIANT LookupCurrent
INVARIANT CompiledExactly
INVARIANT OutcomeMeant
CHECK_DEADLOCK FALSE
