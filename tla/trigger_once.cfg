SPECIFICATION Spec
CONSTANTS
  PR = {1}
  NoPR = NoPR
  Closable = {}
  PageSize = 1
  Labels = {a, b}
  NoLabel = NoLabel
  Removals = {TRUE, FALSE}
  Manual = TRUE
  MaxAdds <- Twice
  MaxChanges = 1
  MaxManual = 1
  Faults = {"call", "save", "crash"}
  MaxFaults = 1
INVARIANTS TypeOK OncePerLabelling
