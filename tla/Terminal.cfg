CONSTANTS
  MaxRow = 3
  MaxCol = 2
  Chars = {"a", "b"}
  MaxWrite = 3
  MaxRows = 5
SPECIFICATION Spec
INVARIANTS ScreenShowsPaper CursorAtEnd
