SPECIFICATION Spec
CONSTANTS
  f1 = f1
  f2 = f2
  text = text
  title = title
  ant = ant
  ants = ants
  bee = bee
  decomposed = decomposed
  Files = {f1, f2}
  Columns = {text, title}
  Words = {ant, decomposed}
  Terms = {1, 2, 3}
  TermOf <- MCTermOf
  Like <- MCLike
  JobSets <- MCJobSets
  Contents <- OneWord
  LargeFiles = {}
  Queries <- MCQueries
  Chars <- MCChars
  POSTING_BLOCK_SIZE = 3
  Lz4MinBytes = 2
  U32_MAX = 2147483647
  Crc <- MCCrc
  Damages = {}
INVARIANTS
  AnswersAreExact
CHECK_DEADLOCK FALSE
