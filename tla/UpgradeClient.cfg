CONSTANTS
  Clients = {"c", "java"}
  MaxAnswers = 3
SPECIFICATION FairSpec
INVARIANTS TypeOK NeverAhead WrongOnlyWhenOvertaken RejectedAtMostOnce
PROPERTY EventuallyAccepted
