\* The adapter recovers from an outage while another thread sends queries.
SPECIFICATION FairSpec
CONSTANTS
  Users = {"form"}
  MaxMail = 2
  Patient = TRUE
INVARIANTS TypeOK SendOwnResult
PROPERTIES ThreadsReturn Reconnects
