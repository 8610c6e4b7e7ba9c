CONSTANTS
  u1 = u1  u2 = u2  u3 = u3  u4 = u4  vmA = vmA  vmB = vmB  vmC = vmC
  Kernel = Kernel
  MemoryManagerPages = MemoryManagerPages
  NoFrame = NoFrame
  NoOwner = NoOwner
  MaxCommit = 2
  MaxContiguous = 2
  UserRegions <- MCUserRegions
  SuperRegions <- MCSuperRegions
  VMObjects <- MCVMObjects
  VMObjectOrder <- MCVMObjectOrder
  Volatile <- MCVolatile
SPECIFICATION Spec
SYMMETRY MCSymmetry
INVARIANTS
  TypeOK
  AccountingBalanced
  PagesAccounted
  CommittedMatchesReservations
  NoAccountingPanic
