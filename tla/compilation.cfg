SPECIFICATION Spec
CONSTANTS
  Document <- MCDocument
  Pack <- MCPack
  Mandatory <- MCMandatory
  KernelChecks <- MCKernelChecks
  MaxChecks = 7
INVARIANTS
  CycleReported
  OrderCanonical
  ThrownOnlyForSize
  KernelUndiminished
  NothingUnauthorized
