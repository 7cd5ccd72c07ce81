\* Every method but Save, which takes the same steps as Search; predicates and
\* readers that call the store again.
SPECIFICATION Spec
CONSTANTS
  Thread = {t1, t2}
  Id = {a, b}
  Vec = {v}
  Method = {"Add", "AddUnique", "Upsert", "SetMeta", "Remove", "Clear", "Load", "Get", "Search"}
  MaxRows = 2
  Depth = 2
  Nil = Nil
INVARIANTS TypeOK NoRace StuckOnlyInCallers
PROPERTIES ImplementsAtomicStore CallersWaitForever CallsReturn
\* Code of a caller that waits for the lock waits forever.
CHECK_DEADLOCK FALSE
