SPECIFICATION Spec
CONSTANTS
    Provider = {"openai"}
    MaxLines = 4
INVARIANTS
    BodyParses
