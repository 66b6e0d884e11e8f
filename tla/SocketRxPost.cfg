CONSTANTS
    NumSocks = 2
    Cap = 2
    MaxUnits = 2
    Prompt <- MCNonePrompt
SPECIFICATION Spec
PROPERTY PostsToConsumed
