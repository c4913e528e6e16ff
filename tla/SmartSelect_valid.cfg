CONSTANTS
    Chars = {"*", "[", "]", "(", ")", "a"}
    MaxLen = 6
SPECIFICATION Spec
INVARIANTS
    ChainValid
