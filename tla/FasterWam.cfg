\* predict, with and without images, early returns at its allocations, and prepare followed by its compute.
CONSTANTS
  NoText = NoText
  a = a
  b = b
  c = c
  Texts = {NoText, a, b, c}
  Shape <- MCShape
  Images = {TRUE, FALSE}
  Faults = {"prefill_init", "prefill_alloc", "proprio", "textemb_init", "step_init"}
  TwoPhase = TRUE
  MaxInFlight = 1
SPECIFICATION TwoPhaseSpec
INVARIANTS
  TypeOK
  
  FreshEmbedding
  DenoiseOnLiveBuffer
