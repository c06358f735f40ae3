SPECIFICATION Spec

CONSTANTS
  None = None
  Kams = {}
  CSs = {}
  Categories = {}
  Ratings = {2, 5}
  AutoCloseAfter = 0
  Tickets = {t1}
  MaxRows = 5

INVARIANT InternalNotesStayInternal
