\* Every state is an input and there is nowhere to go from it.
SPECIFICATION Spec
INVARIANTS
  
  FramesKept
  ErrorTextExact
  ErrorTextFits
