SPECIFICATION Spec
CONSTANTS
  Item = {i1, i2, i3}
  Zero = Zero
  size = 3
INVARIANT RingOK
PROPERTY ImplementsQueue
