SPECIFICATION Spec
CONSTANTS
  Types <- AllTypes
  Inputs <- DecodeInputs
INVARIANTS
  FieldsContiguous
  SerializedDecoded
  StringsExact
CHECK_DEADLOCK FALSE
