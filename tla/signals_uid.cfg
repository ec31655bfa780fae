SPECIFICATION Spec
CONSTANT
    Order <- MCTwo
PROPERTY TermReaches
