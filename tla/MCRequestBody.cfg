SPECIFICATION Spec
CONSTANTS
    Provider = {"claude", "openai", "responses"}
    MaxLines = 4
INVARIANTS
    BodyComplete
    CommasSeparate
