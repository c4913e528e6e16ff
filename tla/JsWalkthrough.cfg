CONSTANTS
    MaxInvocations = 2
    MaxExamples = 2
SPECIFICATION Spec
PROPERTY ReusesOpenExample
