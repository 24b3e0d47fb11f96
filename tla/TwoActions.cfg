CONSTANTS
  s1 = s1  s2 = s2  s3 = s3  op = op
  q1 = q1
  n1 = n1  n2 = n2
  Operator = Operator
  Runner = Runner
  Jobs = {s1, s2}
  Quotes = {q1}
  QuotedClass = "delivery"
  Timeouts = 0
  Shortfalls = 0
  Foreign = 0
  Misreads = 0
  Crashes = 0
  MaxActions = 2
  QuoteOf <- MCQuoteOf
  ClassOf <- MCClassOf
  NonceOf <- MCNonceOf
  MaxFaults <- MCMaxFaults
SPECIFICATION Spec
INVARIANTS OneBondedActionPerQuote
CHECK_DEADLOCK FALSE
