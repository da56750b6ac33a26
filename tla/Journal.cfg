\* One kind of reject, a queue of two, three days of which the first may expire;
\* and three lines of six kinds, days of two moments, seven questions.
SPECIFICATION MCSpec
CONSTANTS
  Keys = {k1}
  QueueSize = 2
  Retention = 1
  LastDay = 2
  MaxOffered = 1
  MaxAdds = 2
  Contents <- Said
  Queries <- Asks
  DayLength = 2
  KeepDays = 1
  LogHorizon = 4
  MaxLines = 3
INVARIANTS
  Accounted
  FilesKept
  RejectsConserved
  AnswerTrue
PROPERTIES
  CloseDrains
