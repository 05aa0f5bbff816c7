SPECIFICATION Spec
CONSTANTS
  Token = {"identifier", "literal", "+", "-", "*", "<", "^", "!", "~", "(", ")"}
  MaxToken = 7
INVARIANT CommentedPrecedence
CHECK_DEADLOCK FALSE
