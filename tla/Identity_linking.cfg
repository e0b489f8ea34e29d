\* Three turns of four accounts of two people, with failures, the operator's
\* edits and his script; a fourth user is out of the scan's reach.
CONSTANTS
  t1 = t1
  t2 = t2
  t3 = t3
  annSlack = annSlack
  annOther = annOther
  annTelegram = annTelegram
  benSlack = benSlack
  ann = ann
  ben = ben
  slack = slack
  telegram = telegram
  sam = sam
  annMail = annMail
  Turns = {t1, t2, t3}
  Accounts = {annSlack, annOther, annTelegram, benSlack}
  Persons = {ann, ben}
  Platforms = {slack, telegram}
  Emails = {annMail}
  Names <- AllNames
  UserIds <- Ids
  PersonOf <- Person
  PlatformOf <- On
  EmailOf <- Mail
  NameOf <- Shown
  RawName <- Raw
  InEvent = {}
  ScanLimit = 2
  Stamps <- Times
  Nothing = Nothing
SPECIFICATION Spec
SYMMETRY Symmetry
VIEW View
CHECK_DEADLOCK FALSE
INVARIANTS TypeOK OnePersonPerUser Unified SameUserEveryTime
PROPERTIES NewcomersTakeNoName
