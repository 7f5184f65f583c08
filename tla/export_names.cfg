\* Two jobs with one file each, which have two names to choose from.
SPECIFICATION ExportsSpec
CONSTANTS
  t1 = t1
  t2 = t2
  Transfer <- MCTransfer
  MaxItem <- MCMaxItem
  MaxChunk = 1
  MaxIndex = 1
PROPERTY ExportKeeps
CHECK_DEADLOCK FALSE
