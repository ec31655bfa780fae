SPECIFICATION Spec
CONSTANT
    Order <- MCTwo
PROPERTY NothingLost
