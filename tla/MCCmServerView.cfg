\* BoostIO: three nodes and three partitions of two copies, so that a copy can move to a
\* third node and the last holder of a partition can be lost.  MemStore: three nodes, each
\* with a copy of each of three partitions.  The system stops with the budget.
SPECIFICATION Spec
CONSTANTS
  BioNodeNum = 3
  BioPtNum = 3
  BioCopyNum = 2
  BioMinCopyNum = 1
  BioBudgets <- MCBioBudgets
  MmsBudgets <- MCMmsBudgets
  MmsNodeNum = 3
INVARIANTS TableFollows NothingForgotten
PROPERTIES NoStaleMaster HolderKept JoinsRecovered
CHECK_DEADLOCK FALSE
