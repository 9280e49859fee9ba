\* Up to six lines from limiters and others, relayed any number of times.
CONSTANTS
  Lines <- MCLines
  Limiters <- MCLimiters
  Printable <- MCPrintable
  MaxInteger = 7
  Second = 2
  MaxLines = 6
SPECIFICATION Spec
INVARIANTS TypeOK LimitsHeard PoliciesHeard PushbackHeard
CHECK_DEADLOCK FALSE
