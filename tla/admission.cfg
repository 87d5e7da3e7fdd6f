SPECIFICATION Spec
CONSTANTS
  None = None
  c1 = c1
  c2 = c2
  c3 = c3
  Commit <- MCCommit
  Tree <- MCTree
  Snapshot <- MCSnapshot
  EditedStatus <- MCEditedStatus
  Policy <- MCPolicy
  Input <- MCInput
  Attestation <- MCAttestation
  Presentation <- MCPresentation
  Now = {0, 1, 4, 6}
INVARIANTS
  QualifiedIsExact
  AdmittedIsCertified
  PilotIsEarned
  LifecycleNeverLowers
CHECK_DEADLOCK FALSE
