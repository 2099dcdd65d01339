-------------------------- MODULE MCProgressDelivery --------------------------
\* Two executions, of one key or of two.  A client asks for one key or for
\* both, and asks again; with capacity 1 it overflows its buffer by asking for both.
EXTENDS ProgressDelivery

CONSTANTS a, b

MCRequests == {<<a>>, <<a, b>>}
===============================================================================
