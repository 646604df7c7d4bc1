SPECIFICATION Spec
CONSTANTS
  Authors = {"ana", "victor"}
  Authorised = {"ana"}
  ExternalIds = {"m1"}
  Texts = {"x", "y"}
  Records = {"r1", "r2"}
  Registered = {"r1"}
  Callers = {"t1", "t2"}
  Null = "null"
  MaxMemEvidence = 1
  MaxMemClaims = 2
  MaxOutcomes = 1
  MailCount = 5
  Senders = {"ana", "bob"}
  SenderOf <- MailSenders
  RootOf <- MailRoots
  PrivateMails = {3}
  Window = 1
  MaxItems = 2
  MaxMailClaims = 4
  Effects = {1, 2, 3, 4}
  RecordOf <- ChangeRecords
  Watched = {1, 2, 3, 4}
  Material = {1, 2, 4}
  Anchorable = {"task", "initiative"}
  TaskRecords = {"task"}
  Detectors = {"d1", "d2"}
  ListLimit = 3
  Refs = {"claim"}
  NoRef = "none"
  Operations = {"profile_create", "soul_write"}
  Params = {"x", "y"}
  Pages = {"p1", "p2"}
  MaxRequests = 2
  Commitments = {"c"}
  Questions = {"q"}
  Strangers = {}
  Dates = {"soon"}
  NoDate = "none"
  Digests = {"b1", "b2"}
  MaxEdits = 1
  MaxDeliveries = 2
  Kinds = {"commitment", "observation"}
  Types = {"PARTNER", "EMPLOYEE", "TASK"}
  OwnerTypes = {"PARTNER", "EMPLOYEE"}
  SubjectTypes <- KindSubjects
  Unlisted = "other"
  NoHint = "null"
  Scores = {0, 1, 2}
  Accept <- AcceptScores
  Review <- ReviewScores
  MaxEntities = 2
  ItemCount = 3
  Subjects = {"r1", "r2"}
  AnchorOf <- ItemAnchors
  FieldValues = {"v", "w"}
  Gone = "gone"
  TopK = 2
  StructSlots = 1
  StructLimit = 2
  SessionTurns = 1
  MaxChanges = 1
CHECK_DEADLOCK FALSE
INVARIANTS OrganisationTypeOK QuarantineHolds RanAsConfirmed AnnouncedOnce AnchorsAccepted GroundedAnswers
PROPERTIES ImplementsMemoryClaims AnsweredGapsStay
