SPECIFICATION Spec
CONSTANTS
    NPROC = 8
    NOFILE = 5
    MAXARGS = 3
    Source = 2
    Lines <- MCLines
    Typed <- MCTyped
INVARIANTS ParsesTheLine CommandsInOrder Wired
PROPERTIES PromptComesBack
