-------------------------------- MODULE Null --------------------------------
\* undefined and null in JavaScript, NULL in PostgreSQL
CONSTANT None
=============================================================================
