CONSTANTS
  MaxDeaths = 1
  MaxDisturbances = 2
SPECIFICATION DemoFair
INVARIANTS ServedIsWired OneBondPerInvoice
PROPERTIES DemoReports
