---------------------------- MODULE MCHandlerTable --------------------------
EXTENDS HandlerTable
\* Four hash codes share a bucket of 128 (0), one of them is the smallest Int32.
MCHashes == {(-2147483647) - 1, -128, 0, 128, 5, -1, 127}
=============================================================================
