CONSTANTS
  p1 = p1
  p2 = p2
  c1 = c1
  c2 = c2
  garbage = garbage
SPECIFICATION Spec
INVARIANT TypeOK
INVARIANT PopReturnsPushedItem
INVARIANT NoOverwriteOfUnread
INVARIANT RangeStrIsMaximalRuns
INVARIANT DataIsBinding
INVARIANT Str2ShowsBinding
INVARIANT OwnCore
INVARIANT NullCoreOnlyWhenTooFew
PROPERTY AllItemsDelivered
