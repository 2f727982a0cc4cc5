\* Every text of at most five characters over eight that stand for the classes;
\* the limit of the fast path is within reach, with and without spaces.
SPECIFICATION Spec
CONSTANTS
  Keywords <- TwoCategories
  FastPathMaxLength = 3
  MaxLength = 5
INVARIANTS NormalFormOfText 
PROPERTIES DoubtRemains
\* A text of the greatest length is complete.
CHECK_DEADLOCK FALSE
