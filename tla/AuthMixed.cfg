CONSTANTS
  LastPage = 2
  Window = 2
  MaxSet = 2
  MaxLost = 2
  MaxOther = 0
SPECIFICATION AuthSpec
INVARIANT OneSet
