SPECIFICATION Spec
CONSTANT
  Scenarios <- OnePartAtATime
INVARIANTS
  K8sTypeOK
  SuccessIsReal
  NoGapBetweenListAndWatch
PROPERTIES
  ImplementsContract
  NoEventAfterReturn
