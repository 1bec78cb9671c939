SPECIFICATION Spec
CONSTANTS
  MaxPiece = 4
  MaxStream = 9
  Lengths = {0, 1, 3}
  header_max = 4
  mem_max = 1
  file_max = 1
  Faults = {"open", "write"}
INVARIANTS NothingLost HeaderExact FoundWhenThere ContentExact TempfilesClosed
