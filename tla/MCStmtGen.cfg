SPECIFICATION Spec
CONSTANT Files <- MCFiles
INVARIANTS RunsAsWritten LabelsSound StraysRefused
\* A function returns, and a file with a stray break is refused.
CHECK_DEADLOCK FALSE
