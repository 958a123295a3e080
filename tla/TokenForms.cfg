\* A form of any kind while another one gives the minter a new owner, with and without the tokens.
SPECIFICATION FairSpec
CONSTANTS
  Forms = {"form", "other"}
  KindsOf <- MCKindsOf
INVARIANTS TypeOK DoneMeansExecuted CountedInFull WaitsShared
PROPERTIES WaitEnds
CHECK_DEADLOCK FALSE
