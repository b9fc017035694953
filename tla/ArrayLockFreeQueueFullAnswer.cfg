SPECIFICATION AnswersSpec
CONSTANTS
  NoElem = NoElem
  Producers = {p1, p2}
  Consumers = {c1}
  Observers = {}
  Values = {x}
  Q_SIZE = 3
  MaxWrites = 3
INVARIANT FullAnswerTrue
