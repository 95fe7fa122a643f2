SPECIFICATION Spec
CONSTANTS
  MAX_MESSAGES = 4
  Jobs <- MCJobs
INVARIANTS PlansSound AsTested ReadersAgree PayloadsWithin FilterAgrees MessagesAgree VariantsAgree
CHECK_DEADLOCK FALSE
