\* Every project through every tool.  A run ends when the archive is stored
\* or refused, so deadlock is not an error.
SPECIFICATION ArchiveSpec
CONSTANTS
  Projects <- MCProjects
  Wrappers <- MCWrappers
  Junk = "junk"
  NameMax = 2
  PrefixMax = 1
  MaxEntries = 9
  MaxFlatten = 1
INVARIANTS RootIsPreserved 
CHECK_DEADLOCK FALSE
