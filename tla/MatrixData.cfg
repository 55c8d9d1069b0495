SPECIFICATION Spec
CONSTANTS
  Spaces <- MCSpaces
  MaxOps = 2
  MatrixEntries <- MCMatrixEntries
  MatrixDims <- MCMatrixDims
  MatrixValues = {2}
  StorageEntries <- MCStorageEntries
  StorageDims <- MCStorageDims
  StorageValues = {3}
  Requests <- MCRequests
  MaxShifts = {1, 4}
  Places <- MCPlaces
  PlacesRows = 2
  PlacesCols = 3
  Priorities <- MCBoth
  MaxEntries = 4
INVARIANTS
  MatrixKept
  StorageKept
  EntriesFound
CHECK_DEADLOCK FALSE
