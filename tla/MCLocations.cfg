\* Any order of choices in the three lists, for a new or an imported shipment.
CONSTANTS
  NULL = NULL
  India = India
  Singapore = Singapore
  Monaco = Monaco
  TN = TN
  KL = KL
  port = port
  town = town
  Countries = {India, Singapore, Monaco}
  Subdivisions <- States
  Curated <- Cities
  Names = {port, town}
SPECIFICATION Spec
INVARIANT
  InvalidIsUnreachable
CHECK_DEADLOCK FALSE
