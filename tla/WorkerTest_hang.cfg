\* Assignment1 Part3's harness alone, on an empty and a two-chunk
\* worker1.bin, with the worker's loop followed for two reads.
CONSTANTS
    FileChunks = {0, 2}
    MaxReads = 2
    Harnesses = {"Part3"}

SPECIFICATION Spec

PROPERTY CountsBothSignals

\* main() returns, and the worker exits; those states are final.
CHECK_DEADLOCK FALSE
