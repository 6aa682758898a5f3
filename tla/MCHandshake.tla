---------------------------- MODULE MCHandshake ----------------------------
EXTENDS Handshake, TLC

\* TVs that take every stream, and TVs that do not.
TakesAll == {{0, 1}}
TakesSome == {{0, 1}, {0}, {1}}
=============================================================================
