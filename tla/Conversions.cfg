SPECIFICATION Spec
PROPERTIES HexReadBack
CHECK_DEADLOCK FALSE
