\* Six tables created concurrently, so that hooks keep starting and ending
\* while stop() waits.
CONSTANTS
    s1 = s1  s2 = s2  s3 = s3  s4 = s4  s5 = s5  s6 = s6
    Schema = {s1, s2, s3, s4, s5, s6}
SPECIFICATION Spec
\* After the destructor nothing runs.
CHECK_DEADLOCK FALSE
INVARIANT SafeTeardown
