SPECIFICATION FairSpec
CONSTANTS
  PR = {1}
  NoPR = NoPR
  Closable = {}
  PageSize = 1
  Labels = {a}
  NoLabel = NoLabel
  Removals = {FALSE}
  Manual = TRUE
  MaxAdds <- Once
  MaxChanges = 0
  MaxManual = 1
  Faults = {"call", "save", "crash"}
  MaxFaults = 0
PROPERTY LabelServed
