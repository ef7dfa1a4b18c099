SPECIFICATION Spec
CONSTANTS
  Block = {b1, b2, b3}
  NoBlock = NoBlock
  Owner = {o1, o2}
  W = 4
  MaxSets = 5
INVARIANTS ArmedAreListed HandlesDistinct
 
