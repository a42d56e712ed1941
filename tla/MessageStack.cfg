SPECIFICATION Spec
CONSTANTS
    ByteValues = 3
    SizeWidth = 2
    MaxBody = 8
    Data <- MCData
    Strings <- MCStrings
INVARIANTS TypeOK HeaderMatchesBody
PROPERTY RoundTrip
