SPECIFICATION FairSpec
CONSTANTS
  PR = {1, 2}
  NoPR = NoPR
  Closable = {2}
  PageSize = 1
  Labels = {a, b}
  NoLabel = NoLabel
  Removals = {FALSE}
  Manual = FALSE
  MaxAdds <- Once
  MaxChanges = 1
  MaxManual = 1
  Faults = {"call", "crash"}
  MaxFaults = 1
PROPERTIES NoticedUnlessTold SnapshotForgets
