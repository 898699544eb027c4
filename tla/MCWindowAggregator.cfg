SPECIFICATION Spec
CONSTANTS
  Src = {client, server}
  Packet <- MCPacket
  MaxArrivals = 4
SYMMETRY HostSymmetry
INVARIANTS
  TypeOK
  CountedOnce
  OneRecordPerHostWindow
  LostExactlyIfLate
  StragglerWindowIsOnePacket
PROPERTY
  RecordsInWindowOrder
